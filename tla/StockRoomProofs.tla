-------------------------- MODULE StockRoomProofs --------------------------
(***************************************************************************)
(* For any warehouses, documents and bounds.                               *)
(*                                                                         *)
(* No warehouse row goes below zero as long as no sale may oversell, and   *)
(* rows leave their movements only by absolute writes, however requests    *)
(* overlap (IInv): the guard of the update holds when it is taken, and     *)
(* still at the commit because the row stays locked; so the invariant says *)
(* who holds which row and what each request is about to write.            *)
(*                                                                         *)
(* The total follows the rows (SumInv): an open transaction's sum is over  *)
(* the rows as they will be, if no other one changes another row           *)
(* meanwhile.                                                              *)
(*                                                                         *)
(* Documents and stock agree (DocInv), one request at a time: what an open *)
(* request has read of its document is still so (Fresh).                   *)
(***************************************************************************)
EXTENDS StockRoom, FiniteSetTheorems, TLAPS

\* What a warehouse row can hold: nothing negative where no sale may oversell.
Quantity == IF Overrides \subseteq {FALSE} THEN Nat ELSE Int

LEMMA QuantityIs ==
  /\ Nat \subseteq Quantity /\ Quantity \subseteq Int
  /\ Quantity = Nat \/ Quantity = Int
  /\ ~(Overrides \subseteq {FALSE}) => Quantity = Int
<1>1. Nat \subseteq Int
  OBVIOUS
<1> QED BY <1>1, Zenon DEF Quantity

LEMMA QuantityGrows ==
  ASSUME NEW q \in Quantity, NEW d \in Int, d >= 0 \/ Quantity = Int
  PROVE  q + d \in Quantity
BY QuantityIs

LevelOK == level \in [Warehouses -> Quantity]

RequestOK(r) ==
  /\ r \in Requests /\ r.was \in Quantity /\ r.to \in Quantity
  /\ r.abs \/ r.guarded \/ Quantity = Int \/ \A w \in Warehouses : r.moves[w] >= 0
RequestsOK == /\ req \in [Handlers -> Requests]
              /\ \A h \in Handlers : RequestOK(req[h])

RowsOK == /\ count \in [Counts -> CountRow]
          /\ \A c \in Counts : count[c].system \in Quantity /\ count[c].counted \in Quantity
          /\ adjusts \in Seq(AdjustRow) /\ transfers \in Seq(TransferRow)
          /\ \A k \in DOMAIN adjusts : adjusts[k].was \in Quantity

\* Two open transactions hold different rows, and what an open transaction is
\* about to store is not negative.
Exclusive == \A g, h \in Handlers : g # h => Locked(g) \cap Locked(h) = {}
Covered == \A h \in Handlers : req[h].pc = "open" => \A w \in Warehouses : After(h)[w] \in Quantity

IInv == LevelOK /\ RequestsOK /\ RowsOK /\ Exclusive /\ Covered

-----------------------------------------------------------------------------
LEMMA IdleOK == RequestOK(Idle)
<1>1. Idle \in Requests
  BY DEF Idle, Requests, Ops, Moves, Still
<1>2. Idle.was = 0 /\ Idle.to = 0 /\ Idle.moves = Still
  BY DEF Idle
<1> QED BY <1>1, <1>2, QuantityIs DEF RequestOK, Still

\* Whatever a request opens with, the handlers that have opened nothing hold
\* no row.
LEMMA ServeKeeps ==
  ASSUME IInv, NEW h \in Handlers, NEW r, RequestOK(r), r.pc # "open",
         Serve(h, r), level' = level
  PROVE  LevelOK' /\ RequestsOK' /\ Exclusive' /\ Covered'
<1> USE DEF IInv
<1>1. r \in Requests /\ req \in [Handlers -> Requests]
  BY DEF RequestOK, RequestsOK
<1>2. req' = [req EXCEPT ![h] = r]
  BY DEF Serve
<1>3. RequestsOK'
  BY <1>1, <1>2 DEF RequestsOK
<1>4. \A g \in Handlers : req'[g].pc = "open" => g # h /\ req'[g] = req[g]
  BY <1>1, <1>2
<1>5. Exclusive'
  BY <1>4 DEF Exclusive, Locked, Touched
<1>6. Covered'
  BY <1>4 DEF Covered, After, Touched
<1> QED BY <1>3, <1>5, <1>6 DEF LevelOK

\* A step that touches neither the rows nor the requests.
LEMMA QuietKeeps ==
  ASSUME IInv, UNCHANGED <<level, req>>
  PROVE  LevelOK' /\ RequestsOK' /\ Exclusive' /\ Covered'
BY DEF IInv, LevelOK, RequestsOK, Exclusive, Covered, Locked, Touched, After

\* The transaction takes its rows when nobody else holds them.
LEMMA WriteKeeps ==
  ASSUME IInv, NEW h \in Handlers, WriteLevels(h)
  PROVE  IInv'
<1> USE DEF IInv
<1>1. req \in [Handlers -> Requests] /\ RequestOK(req[h])
  BY DEF RequestsOK
<1>2. /\ req' = [req EXCEPT ![h].pc = "open"]
      /\ UNCHANGED <<level, count, adjusts, transfers>>
  BY DEF WriteLevels, documents
<1>3. \A g \in Handlers : g # h => req'[g] = req[g]
  BY <1>1, <1>2
<1>4. /\ req'[h] \in Requests /\ req'[h].pc = "open"
      /\ req'[h].moves = req[h].moves /\ req'[h].abs = req[h].abs
      /\ req'[h].to = req[h].to /\ req'[h].was = req[h].was
      /\ req'[h].guarded = req[h].guarded
  BY <1>1, <1>2 DEF Requests
<1>5. RequestsOK'
  <2>1. \A g \in Handlers : RequestOK(req'[g])
    BY <1>1, <1>3, <1>4 DEF RequestsOK, RequestOK
  <2> QED BY <2>1, <1>1, <1>2, <1>4 DEF RequestsOK, RequestOK
<1>6. Touched(h)' = Touched(h) /\ \A g \in Handlers : g # h => Locked(g)' = Locked(g)
  BY <1>3, <1>4 DEF Touched, Locked
<1>7. Exclusive'
  BY <1>4, <1>6 DEF Exclusive, Locked, WriteLevels
<1>8. ASSUME NEW w \in Warehouses PROVE After(h)'[w] \in Quantity
  <2>1. After(h)'[w] = After(h)[w]
    BY <1>2, <1>4, <1>6 DEF After
  <2>2. level[w] \in Quantity /\ level[w] \in Int
    BY QuantityIs DEF LevelOK
  <2>3. CASE w \notin Touched(h)
    BY <2>1, <2>2, <2>3 DEF After
  <2>4. CASE w \in Touched(h) /\ req[h].guarded
    <3>1. After(h)[w] >= 0
      BY <2>4 DEF WriteLevels
    <3>2. After(h)[w] \in Int
      BY <1>1, <2>2 DEF After, RequestOK, Requests, Moves
    <3>3. After(h)[w] \in Nat
      BY <3>1, <3>2
    <3> QED BY <2>1, <3>3, QuantityIs
  <2>5. CASE w \in Touched(h) /\ req[h].abs
    BY <1>1, <2>1, <2>5 DEF After, RequestOK
  <2>6. CASE w \in Touched(h) /\ ~req[h].abs /\ ~req[h].guarded
    <3>1. (req[h].moves[w] >= 0 \/ Quantity = Int) /\ req[h].moves[w] \in Int
      BY <1>1, <2>6 DEF RequestOK, Requests, Moves
    <3>2. level[w] + req[h].moves[w] \in Quantity
      BY <2>2, <3>1, QuantityGrows
    <3>3. After(h)[w] = level[w] + req[h].moves[w]
      BY <2>6 DEF After
    <3> QED BY <2>1, <3>2, <3>3
  <2> QED BY <2>3, <2>4, <2>5, <2>6
<1>9. Covered'
  <2>1. ASSUME NEW g \in Handlers, g # h, req'[g].pc = "open", NEW w \in Warehouses
        PROVE  After(g)'[w] \in Quantity
    <3>1. After(g)'[w] = After(g)[w] /\ req[g].pc = "open"
      BY <1>2, <1>3, <2>1 DEF After, Touched
    <3> QED BY <3>1 DEF Covered
  <2> QED BY <1>8, <2>1 DEF Covered
<1>10. LevelOK' /\ RowsOK'
  BY <1>2 DEF LevelOK, RowsOK
<1> QED BY <1>5, <1>7, <1>9, <1>10

\* A handler that has finished holds no row.
LEMMA FinishKeeps ==
  ASSUME IInv, NEW h \in Handlers, Finish(h), level' = level
  PROVE  LevelOK' /\ RequestsOK' /\ Exclusive' /\ Covered'
<1> USE DEF IInv
<1>1. Idle \in Requests /\ Idle.pc # "open"
  BY IdleOK DEF RequestOK, Idle
<1>2. req' = [req EXCEPT ![h] = Idle] /\ req \in [Handlers -> Requests]
  BY DEF Finish, RequestsOK
<1>3. RequestsOK'
  BY <1>1, <1>2, IdleOK DEF RequestsOK
<1>4. \A g \in Handlers : req'[g].pc = "open" => g # h /\ req'[g] = req[g]
  BY <1>1, <1>2
<1>5. Exclusive' /\ Covered'
  BY <1>4 DEF Exclusive, Locked, Touched, Covered, After
<1> QED BY <1>3, <1>5 DEF LevelOK

\* The commit shows the levels; the other open transactions hold other rows,
\* so what they are about to store has not changed.
LEMMA PostKeeps ==
  ASSUME IInv, NEW h \in Handlers, req[h].pc = "open", Post(h)
  PROVE  LevelOK' /\ RequestsOK' /\ Exclusive' /\ Covered'
<1> USE DEF IInv
<1>1. level' = After(h) /\ Finish(h)
  BY DEF Post
<1>2. req' = [req EXCEPT ![h] = Idle] /\ req \in [Handlers -> Requests]
  BY <1>1 DEF Finish, RequestsOK
<1>3. Idle \in Requests /\ Idle.pc # "open"
  BY IdleOK DEF RequestOK, Idle
<1>4. RequestsOK'
  BY <1>2, <1>3, IdleOK DEF RequestsOK
<1>5. \A g \in Handlers : req'[g].pc = "open" => g # h /\ req'[g] = req[g]
  BY <1>2, <1>3
<1>6. Exclusive'
  BY <1>5 DEF Exclusive, Locked, Touched
<1>7. LevelOK'
  <2>1. ASSUME NEW w \in Warehouses PROVE After(h)[w] \in Quantity
    BY DEF Covered
  <2> QED BY <1>1, <2>1 DEF LevelOK, After
<1>8. ASSUME NEW g \in Handlers, req'[g].pc = "open", NEW w \in Warehouses
      PROVE  After(g)'[w] \in Quantity
  <2>1. g # h /\ req'[g] = req[g] /\ req[g].pc = "open"
    BY <1>5, <1>8
  <2>2. Touched(g)' = Touched(g)
    BY <2>1 DEF Touched
  <2>3. CASE w \in Touched(g)
    <3>1. w \notin Touched(h)
      BY <2>1, <2>3 DEF Exclusive, Locked
    <3>2. level'[w] = level[w]
      BY <1>1, <3>1 DEF After
    <3>3. After(g)'[w] = After(g)[w]
      BY <2>1, <2>2, <2>3, <3>2 DEF After
    <3> QED BY <2>1, <3>3 DEF Covered
  <2>4. CASE w \notin Touched(g)
    <3>1. After(g)'[w] = level'[w]
      BY <2>2, <2>4 DEF After
    <3> QED BY <1>7, <3>1 DEF LevelOK
  <2> QED BY <2>3, <2>4
<1>9. Covered'
  BY <1>8 DEF Covered
<1> QED BY <1>4, <1>6, <1>7, <1>9

-----------------------------------------------------------------------------
LEMMA ByType ==
  ASSUME NEW w \in Warehouses, NEW d \in Int
  PROVE  By(w, d) \in Moves /\ \A x \in Warehouses : By(w, d)[x] \in {0, d}
BY DEF By, Still, Moves

LEMMA AddingType ==
  ASSUME NEW op \in Ops, NEW doc \in Notes \cup Counts \cup Sales \cup {None},
         NEW moves \in Moves, NEW guarded \in BOOLEAN
  PROVE  /\ Adding(op, doc, moves, guarded) \in Requests
         /\ Adding(op, doc, moves, guarded).pc = "ready"
BY DEF Adding, Requests

\* Requests that add something the update checks, or add nothing negative.
LEMMA AddingOK ==
  ASSUME NEW op \in Ops, NEW doc \in Notes \cup Counts \cup Sales \cup {None},
         NEW moves \in Moves, NEW guarded \in BOOLEAN,
         guarded \/ Quantity = Int \/ \A w \in Warehouses : moves[w] >= 0
  PROVE  RequestOK(Adding(op, doc, moves, guarded)) /\ Adding(op, doc, moves, guarded).pc = "ready"
<1>1. Adding(op, doc, moves, guarded) \in Requests /\ 0 \in Quantity
  BY AddingType, QuantityIs
<1> QED BY <1>1 DEF RequestOK, Adding

\* Requests that write a quantity somebody counted, which is not negative.
LEMMA SettingOK ==
  ASSUME NEW op \in Ops, NEW doc \in Notes \cup Counts \cup Sales \cup {None},
         NEW w \in Warehouses, NEW was \in Quantity, NEW to \in Quantity
  PROVE  RequestOK(Setting(op, doc, w, was, to)) /\ Setting(op, doc, w, was, to).pc = "ready"
<1>0. was \in Int /\ to \in Int
  BY QuantityIs
<1>1. By(w, to - was) \in Moves
  BY <1>0, ByType
<1>2. Setting(op, doc, w, was, to) \in Requests
  BY <1>0, <1>1 DEF Setting, Requests
<1> QED BY <1>2 DEF RequestOK, Setting

LEMMA UndoType ==
  ASSUME NEW x \in Requests, NEW k \in Nat, NEW abs \in BOOLEAN, NEW to \in Int
  PROVE  [x EXCEPT !.row = k, !.abs = abs, !.to = to] \in Requests
BY DEF Requests

\* Changing one row of a log leaves a log.
LEMMA SeqExcept ==
  ASSUME NEW S, NEW s \in Seq(S), NEW i, NEW e, i \in DOMAIN s => e \in S
  PROVE  /\ [s EXCEPT ![i] = e] \in Seq(S)
         /\ DOMAIN [s EXCEPT ![i] = e] = DOMAIN s
         /\ \A k \in DOMAIN s : [s EXCEPT ![i] = e][k] = IF k = i THEN e ELSE s[k]
<1>1. s \in [1..Len(s) -> S] /\ Len(s) \in Nat /\ DOMAIN s = 1..Len(s)
  OBVIOUS
<1>2. [s EXCEPT ![i] = e] \in [1..Len(s) -> S]
  BY <1>1
<1> QED BY <1>1, <1>2

LEMMA StillOK == Still \in Moves /\ \A w \in Warehouses : Still[w] >= 0
BY DEF Still, Moves

\* Every request passes its checks with something it may do.
LEMMA CheckServes ==
  ASSUME IInv, NEW h \in Handlers, Check(h)
  PROVE  /\ \E r : RequestOK(r) /\ r.pc # "open" /\ Serve(h, r)
         /\ UNCHANGED <<level, count, adjusts, transfers>>
<1> USE StockConstants DEF IInv, Ops
<1>1. CASE AdjustStock(h)
  <2>1. UNCHANGED <<level, count, adjusts, transfers>>
    BY <1>1 DEF AdjustStock, Checked, documents
  <2>2. PICK w \in Warehouses :
          \/ \E q \in Amounts, listed \in BOOLEAN :
               \E r \in {Adding("adjust", None, By(w, q), FALSE),
                        Adding("adjust", None, By(w, -q), TRUE)} :
                 Serve(h, [r EXCEPT !.listed = listed])
          \/ \E q \in Amounts \cup {0} :
               /\ q # level[w]
               /\ Serve(h, [Setting("adjust", None, w, level[w], q) EXCEPT !.listed = TRUE])
    BY <1>1 DEF AdjustStock
  <2>3. ASSUME NEW r, NEW listed \in BOOLEAN, RequestOK(r), r.pc = "ready"
        PROVE  RequestOK([r EXCEPT !.listed = listed]) /\ [r EXCEPT !.listed = listed].pc # "open"
    BY <2>3 DEF RequestOK, Requests
  <2>4. ASSUME NEW q \in Amounts, NEW listed \in BOOLEAN,
               NEW r \in {Adding("adjust", None, By(w, q), FALSE),
                          Adding("adjust", None, By(w, -q), TRUE)},
               Serve(h, [r EXCEPT !.listed = listed])
        PROVE  \E x : RequestOK(x) /\ x.pc # "open" /\ Serve(h, x)
    <3>1. q \in Nat
      OBVIOUS
    <3>2. By(w, q) \in Moves /\ By(w, -q) \in Moves /\ \A x \in Warehouses : By(w, q)[x] >= 0
      BY <3>1, ByType
    <3>3. LET x == Adding("adjust", None, By(w, q), FALSE) IN RequestOK(x) /\ x.pc = "ready"
      BY <3>2, AddingOK
    <3>4. LET x == Adding("adjust", None, By(w, -q), TRUE) IN RequestOK(x) /\ x.pc = "ready"
      BY <3>2, AddingOK
    <3>5. RequestOK(r) /\ r.pc = "ready"
      BY <3>3, <3>4
    <3> QED BY <2>3, <2>4, <3>5
  <2>5. ASSUME NEW q \in Amounts \cup {0},
               Serve(h, [Setting("adjust", None, w, level[w], q) EXCEPT !.listed = TRUE])
        PROVE  \E x : RequestOK(x) /\ x.pc # "open" /\ Serve(h, x)
    <3>1. q \in Quantity /\ level[w] \in Quantity
      BY QuantityIs DEF LevelOK
    <3>2. LET r == Setting("adjust", None, w, level[w], q) IN RequestOK(r) /\ r.pc = "ready"
      <4>1. "adjust" \in Ops
        OBVIOUS
      <4> HIDE DEF Ops, IInv
      <4> QED BY <3>1, <4>1, SettingOK
    <3> QED BY <2>3, <2>5, <3>2
  <2> QED BY <2>1, <2>2, <2>4, <2>5
<1>2. CASE ReverseLastAdjust(h)
  <2>1. UNCHANGED <<level, count, adjusts, transfers>>
    BY <1>2 DEF ReverseLastAdjust, Checked, documents
  <2>2. PICK k \in DOMAIN adjusts :
          Serve(h, [Adding("undoAdjust", None, Negated(adjusts[k].moves),
                           ~adjusts[k].abs /\ \E w \in Warehouses : adjusts[k].moves[w] > 0)
                      EXCEPT !.row = k, !.abs = adjusts[k].abs,
                             !.to = IF adjusts[k].abs THEN adjusts[k].was ELSE 0])
    BY <1>2 DEF ReverseLastAdjust
  <2> DEFINE a == adjusts[k]
             guarded == ~a.abs /\ \E w \in Warehouses : a.moves[w] > 0
             x == Adding("undoAdjust", None, Negated(a.moves), guarded)
             abs == a.abs
             to == IF a.abs THEN a.was ELSE 0
             r == [x EXCEPT !.row = k, !.abs = abs, !.to = to]
  <2>3. a \in AdjustRow /\ a.was \in Quantity /\ k \in Nat
    BY DEF RowsOK
  <2>4. Negated(a.moves) \in Moves
    BY <2>3 DEF Negated, Moves, AdjustRow
  <2>5. a.abs \/ guarded \/ \A w \in Warehouses : Negated(a.moves)[w] >= 0
    BY <2>3 DEF Negated, Moves, AdjustRow
  <2>6. /\ x \in Requests /\ x.pc = "ready" /\ x.was = 0
        /\ x.moves = Negated(a.moves) /\ x.guarded = guarded
    BY <2>4, AddingType DEF Adding
  <2> HIDE DEF x
  <2>7. abs \in BOOLEAN /\ to \in Quantity /\ to \in Int
    BY <2>3, QuantityIs DEF AdjustRow
  <2> HIDE DEF to
  <2>8. RequestOK(r) /\ r.pc = "ready"
    <3>1. x \in Requests /\ k \in Nat /\ abs \in BOOLEAN /\ to \in Int
      BY <2>3, <2>6, <2>7
    <3>2. r \in Requests
      BY <3>1 DEF Requests
    <3>3. r.pc = "ready" /\ r.was = 0 /\ r.to = to
      BY <2>6, <3>1 DEF Requests
    <3>4. r.abs = a.abs /\ r.moves = Negated(a.moves) /\ r.guarded = guarded
      BY <2>6, <3>1 DEF Requests
    <3> HIDE DEF r
    <3>5. r.abs \/ r.guarded \/ \A w \in Warehouses : r.moves[w] >= 0
      BY <2>5, <3>4
    <3> QED BY <2>7, <3>2, <3>3, <3>5, QuantityIs DEF RequestOK
  <2>9. Serve(h, r)
    BY <2>2 DEF x, to
  <2> HIDE DEF r
  <2> QED BY <2>1, <2>8, <2>9
<1>3. CASE TransferStock(h)
  <2>1. UNCHANGED <<level, count, adjusts, transfers>>
    BY <1>3 DEF TransferStock, Checked, documents
  <2>2. PICK from \in Warehouses, q \in Amounts, to \in Warehouses :
          Serve(h, Adding("transfer", None, [By(from, -q) EXCEPT ![to] = q], TRUE))
    BY <1>3 DEF TransferStock
  <2>3. q \in Nat /\ By(from, -q) \in Moves
    BY ByType
  <2>4. [By(from, -q) EXCEPT ![to] = q] \in Moves
    BY <2>3 DEF Moves
  <2>5. LET r == Adding("transfer", None, [By(from, -q) EXCEPT ![to] = q], TRUE)
        IN  RequestOK(r) /\ r.pc = "ready"
    BY <2>4, AddingOK
  <2> QED BY <2>1, <2>2, <2>5
<1>4. CASE ReverseLastTransfer(h)
  <2>1. UNCHANGED <<level, count, adjusts, transfers>>
    BY <1>4 DEF ReverseLastTransfer, Checked, documents
  <2> DEFINE k == Len(transfers)
             r == Adding("undoTransfer", None, Negated(transfers[k].moves), TRUE)
  <2>2. Serve(h, [r EXCEPT !.row = k]) /\ transfers # << >>
    BY <1>4 DEF ReverseLastTransfer
  <2>3. k \in DOMAIN transfers /\ k \in Nat
    BY <2>2 DEF RowsOK
  <2>4. transfers[k] \in TransferRow
    BY <2>3 DEF RowsOK
  <2>5. Negated(transfers[k].moves) \in Moves
    BY <2>4 DEF TransferRow, Negated, Moves
  <2>6. RequestOK(r) /\ r.pc = "ready"
    BY <2>5, AddingOK
  <2> HIDE DEF r, k
  <2>7. RequestOK([r EXCEPT !.row = k]) /\ [r EXCEPT !.row = k].pc = "ready"
    BY <2>3, <2>6 DEF RequestOK, Requests
  <2> QED BY <2>1, <2>2, <2>7
<1>5. ASSUME NEW n \in Notes, Deliver(h, n) \/ CancelNote(h, n) \/ RemoveNote(h, n)
      PROVE  /\ \E r : RequestOK(r) /\ r.pc # "open" /\ Serve(h, r)
             /\ UNCHANGED <<level, count, adjusts, transfers>>
  <2>1. UNCHANGED <<level, count, adjusts, transfers>>
    BY <1>5 DEF Deliver, CancelNote, RemoveNote, Checked, documents
  <2>2. Qty[n] \in Nat /\ Wh[n] \in Warehouses
    OBVIOUS
  <2>3. /\ By(Wh[n], -Qty[n]) \in Moves /\ By(Wh[n], Qty[n]) \in Moves
        /\ \A w \in Warehouses : By(Wh[n], Qty[n])[w] >= 0
    BY <2>2, ByType
  <2>4. LET r == Adding("deliver", n, By(Wh[n], -Qty[n]), TRUE)
        IN  RequestOK(r) /\ r.pc = "ready"
    BY <2>3, AddingOK
  <2>5. LET r == Adding("undeliver", n, By(Wh[n], Qty[n]), FALSE)
        IN  RequestOK(r) /\ r.pc = "ready"
    BY <2>3, AddingOK
  <2>6. LET r == Adding("cancelNote", n, Still, FALSE) IN RequestOK(r) /\ r.pc = "ready"
    BY StillOK, AddingOK
  <2>7. LET r == Adding("removeNote", n, Still, FALSE) IN RequestOK(r) /\ r.pc = "ready"
    BY StillOK, AddingOK
  <2> QED BY <1>5, <2>1, <2>4, <2>5, <2>6, <2>7 DEF Deliver, CancelNote, RemoveNote
<1>6. ASSUME NEW c \in Counts,
             \/ UpdateLines(h, c) \/ Complete(h, c) \/ CancelCount(h, c)
             \/ ReverseCompleted(h, c) \/ RemoveCount(h, c)
      PROVE  /\ \E r : RequestOK(r) /\ r.pc # "open" /\ Serve(h, r)
             /\ UNCHANGED <<level, count, adjusts, transfers>>
  <2>1. UNCHANGED <<level, count, adjusts, transfers>>
    BY <1>6 DEF UpdateLines, Complete, CancelCount, ReverseCompleted, RemoveCount,
                Checked, documents
  <2>2. count[c].system \in Quantity /\ count[c].counted \in Quantity /\ Wh[c] \in Warehouses
    BY DEF RowsOK
  <2> DEFINE system == count[c].system
             counted == count[c].counted
             w == Wh[c]
  <2> HIDE DEF system, counted, w
  <2>3. system \in Quantity /\ counted \in Quantity /\ w \in Warehouses
    BY <2>2 DEF system, counted, w
  <2>4. LET r == Setting("complete", c, w, system, counted)
        IN  RequestOK(r) /\ r.pc = "ready"
    <3>1. {"complete", "uncomplete"} \subseteq Ops
      OBVIOUS
    <3> HIDE DEF Ops, IInv
    <3> QED BY <2>3, <3>1, SettingOK
  <2>5. LET r == Setting("uncomplete", c, w, counted, system)
        IN  RequestOK(r) /\ r.pc = "ready"
    <3>1. {"complete", "uncomplete"} \subseteq Ops
      OBVIOUS
    <3> HIDE DEF Ops, IInv
    <3> QED BY <2>3, <3>1, SettingOK
  <2>6. LET r == Adding("cancelCount", c, Still, FALSE) IN RequestOK(r) /\ r.pc = "ready"
    BY StillOK, AddingOK
  <2>7. LET r == Adding("removeCount", c, Still, FALSE) IN RequestOK(r) /\ r.pc = "ready"
    BY StillOK, AddingOK
  <2>8. ASSUME UpdateLines(h, c)
        PROVE  \E r : RequestOK(r) /\ r.pc # "open" /\ Serve(h, r)
    <3> DEFINE x == Adding("recount", c, Still, FALSE)
    <3>1. PICK q \in Amounts \cup {0} : Serve(h, [x EXCEPT !.to = q])
      BY <2>8 DEF UpdateLines
    <3>2. q \in Quantity /\ q \in Int
      BY QuantityIs
    <3>3. RequestOK(x) /\ x.pc = "ready"
      BY StillOK, AddingOK
    <3> HIDE DEF x
    <3>4. RequestOK([x EXCEPT !.to = q]) /\ [x EXCEPT !.to = q].pc # "open"
      BY <3>2, <3>3 DEF RequestOK, Requests
    <3> QED BY <3>1, <3>4
  <2> QED BY <1>6, <2>1, <2>4, <2>5, <2>6, <2>7, <2>8
          DEF Complete, CancelCount, ReverseCompleted, RemoveCount, system, counted, w
<1>7. ASSUME NEW s \in Sales, ReserveStockOut(h, s) \/ ReleaseStockIn(h, s)
      PROVE  /\ \E r : RequestOK(r) /\ r.pc # "open" /\ Serve(h, r)
             /\ UNCHANGED <<level, count, adjusts, transfers>>
  <2>1. UNCHANGED <<level, count, adjusts, transfers>>
    BY <1>7 DEF ReserveStockOut, ReleaseStockIn
  <2>2. Qty[s] \in Nat /\ Wh[s] \in Warehouses
    OBVIOUS
  <2>3. /\ By(Wh[s], -Qty[s]) \in Moves /\ By(Wh[s], Qty[s]) \in Moves
        /\ \A w \in Warehouses : By(Wh[s], Qty[s])[w] >= 0
    BY <2>2, ByType
  <2>4. ASSUME ReserveStockOut(h, s)
        PROVE  \E r : RequestOK(r) /\ r.pc # "open" /\ Serve(h, r)
    <3>1. PICK override \in Overrides : Serve(h, Adding("reserve", s, By(Wh[s], -Qty[s]), ~override))
      BY <2>4 DEF ReserveStockOut
    <3>2. ~override \/ Quantity = Int
      BY QuantityIs, Zenon
    <3> DEFINE guarded == ~override
    <3>3. guarded \in BOOLEAN /\ (guarded \/ Quantity = Int)
      BY <3>2, Zenon
    <3> HIDE DEF guarded
    <3>4. LET r == Adding("reserve", s, By(Wh[s], -Qty[s]), guarded)
          IN  RequestOK(r) /\ r.pc = "ready"
      BY <2>3, <3>3, AddingOK
    <3> QED BY <3>1, <3>4 DEF guarded
  <2>5. LET r == Adding("release", s, By(Wh[s], Qty[s]), FALSE)
        IN  RequestOK(r) /\ r.pc = "ready"
    BY <2>3, AddingOK
  <2> QED BY <1>7, <2>1, <2>4, <2>5 DEF ReleaseStockIn
<1> QED BY <1>1, <1>2, <1>3, <1>4, <1>5, <1>6, <1>7 DEF Check

\* The document a commit files keeps quantities that are not negative.
LEMMA CommitFiles ==
  ASSUME IInv, NEW h \in Handlers, Commit(h)
  PROVE  req[h].pc = "open" /\ Post(h) /\ RowsOK'
<1> USE DEF IInv
<1>1. /\ req[h] \in Requests /\ req[h].was \in Quantity /\ req[h].to \in Quantity
      /\ req[h].pc = "open" /\ Post(h)
  BY DEF RequestsOK, RequestOK, Commit, Committing, CommitAdjust, CommitReverseAdjust,
         CommitTransfer, CommitReverseTransfer, CommitDeliver, CommitUndeliver,
         CommitCancelDraft, CommitRemoveNote, CommitUpdateLines, CommitComplete,
         CommitCancelCount, CommitReverseCompleted, CommitRemoveCount,
         CommitReserve, CommitRelease
<1>2. CASE CommitAdjust(h)
  <2> DEFINE a == [moves |-> req[h].moves, abs |-> req[h].abs, was |-> req[h].was,
                   listed |-> req[h].listed, undone |-> 0]
  <2>1. a \in AdjustRow /\ a.was \in Quantity
    BY <1>1 DEF AdjustRow, Requests
  <2> HIDE DEF a
  <2>2. adjusts' = Append(adjusts, a) /\ UNCHANGED <<count, transfers>>
    BY <1>2 DEF CommitAdjust, a
  <2>3. /\ adjusts' \in Seq(AdjustRow)
        /\ \A k \in DOMAIN adjusts' : \/ adjusts'[k] = a
                                      \/ k \in DOMAIN adjusts /\ adjusts'[k] = adjusts[k]
    <3>1. adjusts \in Seq(AdjustRow)
      BY DEF RowsOK
    <3>2. /\ adjusts' \in Seq(AdjustRow) /\ Len(adjusts) \in Nat
          /\ DOMAIN adjusts = 1..Len(adjusts) /\ DOMAIN adjusts' = 1..(Len(adjusts) + 1)
          /\ \A k \in 1..Len(adjusts) : adjusts'[k] = adjusts[k]
          /\ adjusts'[Len(adjusts) + 1] = a
      BY <2>1, <2>2, <3>1
    <3>3. ASSUME NEW k \in DOMAIN adjusts', k # Len(adjusts) + 1 PROVE k \in 1..Len(adjusts)
      BY <3>2, <3>3
    <3> QED BY <3>2, <3>3
  <2> QED BY <1>1, <2>1, <2>2, <2>3 DEF RowsOK
<1>3. CASE CommitReverseAdjust(h)
  <2> DEFINE i == req[h].row
             e == [adjusts[i] EXCEPT !.undone = adjusts[i].undone + 1]
  <2>1. adjusts' = [adjusts EXCEPT ![i] = e] /\ UNCHANGED <<count, transfers>>
    BY <1>3 DEF CommitReverseAdjust
  <2>2. ASSUME i \in DOMAIN adjusts
        PROVE  e \in AdjustRow /\ e.was = adjusts[i].was
    <3> DEFINE a == adjusts[i]
    <3>1. a \in AdjustRow
      BY <2>2 DEF RowsOK
    <3> HIDE DEF a
    <3>2. a.undone + 1 \in Nat
      BY <3>1 DEF AdjustRow
    <3>3. [a EXCEPT !.undone = a.undone + 1] \in AdjustRow
      BY <3>1, <3>2 DEF AdjustRow
    <3>4. [a EXCEPT !.undone = a.undone + 1].was = a.was
      BY <3>1 DEF AdjustRow
    <3> QED BY <3>3, <3>4 DEF a
  <2> HIDE DEF e, i
  <2>3. /\ adjusts' \in Seq(AdjustRow) /\ DOMAIN adjusts' = DOMAIN adjusts
        /\ \A k \in DOMAIN adjusts : adjusts'[k] = IF k = i THEN e ELSE adjusts[k]
    BY <2>1, <2>2, SeqExcept DEF RowsOK
  <2> QED BY <1>1, <2>1, <2>2, <2>3 DEF RowsOK
<1>4. CASE CommitTransfer(h)
  <2>1. [moves |-> req[h].moves, undone |-> 0] \in TransferRow
    BY <1>1 DEF TransferRow, Requests
  <2> QED BY <1>1, <1>4, <2>1 DEF CommitTransfer, RowsOK
<1>5. CASE CommitReverseTransfer(h)
  <2> DEFINE i == req[h].row
             e == [transfers[i] EXCEPT !.undone = transfers[i].undone + 1]
  <2>1. transfers' = [transfers EXCEPT ![i] = e] /\ UNCHANGED <<count, adjusts>>
    BY <1>5 DEF CommitReverseTransfer
  <2>2. ASSUME i \in DOMAIN transfers PROVE e \in TransferRow
    <3> DEFINE t == transfers[i]
    <3>1. t \in TransferRow
      BY <2>2 DEF RowsOK
    <3> HIDE DEF t
    <3>2. t.undone + 1 \in Nat
      BY <3>1 DEF TransferRow
    <3>3. [t EXCEPT !.undone = t.undone + 1] \in TransferRow
      BY <3>1, <3>2 DEF TransferRow
    <3> QED BY <3>3 DEF t
  <2> HIDE DEF e, i
  <2>3. transfers' \in Seq(TransferRow)
    BY <2>1, <2>2, SeqExcept DEF RowsOK
  <2> QED BY <1>1, <2>1, <2>3 DEF RowsOK
<1>6. CASE CommitDeliver(h) \/ CommitUndeliver(h) \/ CommitCancelDraft(h) \/ CommitRemoveNote(h)
  BY <1>1, <1>6 DEF CommitDeliver, CommitUndeliver, CommitCancelDraft, CommitRemoveNote,
                    FileNote, RowsOK
<1>7. ASSUME NEW row \in CountRow, row.system \in Quantity, row.counted \in Quantity, FileCount(h, row)
      PROVE  RowsOK'
  BY <1>7 DEF FileCount, RowsOK
<1>8. ASSUME req[h].doc \in Counts
      PROVE  RowOf(h) \in CountRow /\ RowOf(h).system \in Quantity /\ RowOf(h).counted \in Quantity
  BY <1>8 DEF RowOf, RowsOK
<1>9. ASSUME \E row : FileCount(h, row), req[h].doc \notin Counts
      PROVE  RowsOK'
  BY <1>9 DEF FileCount, RowsOK
<1>10. CASE CommitUpdateLines(h)
  BY <1>1, <1>7, <1>8, <1>9, <1>10 DEF CommitUpdateLines, CountRow, Requests
<1>11. CASE CommitComplete(h)
  BY <1>1, <1>7, <1>8, <1>9, <1>11 DEF CommitComplete, CountRow, CountStatus
<1>12. CASE CommitCancelCount(h)
  BY <1>1, <1>7, <1>8, <1>9, <1>12 DEF CommitCancelCount, CountRow, CountStatus
<1>13. CASE CommitReverseCompleted(h)
  <2> DEFINE closed == [RowOf(h) EXCEPT
                       !.status = "CANCELLED",
                       !.revRows = IF Touched(h) = {} THEN @ ELSE @ + 1]
  <2>1. FileCount(h, closed)
    BY <1>13 DEF CommitReverseCompleted
  <2>2. CASE req[h].doc \in Counts
    <3>1. /\ RowOf(h) \in CountRow /\ RowOf(h).system \in Quantity /\ RowOf(h).counted \in Quantity
      BY <1>8, <2>2
    <3> DEFINE n == IF Touched(h) = {} THEN RowOf(h).revRows ELSE RowOf(h).revRows + 1
    <3>2. n \in Nat /\ "CANCELLED" \in CountStatus
      BY <3>1 DEF CountRow, CountStatus
    <3> HIDE DEF n
    <3>3. LET x == [RowOf(h) EXCEPT !.status = "CANCELLED", !.revRows = n]
          IN  x \in CountRow /\ x.system = RowOf(h).system /\ x.counted = RowOf(h).counted
      BY <3>1, <3>2 DEF CountRow
    <3>4. closed = [RowOf(h) EXCEPT !.status = "CANCELLED", !.revRows = n]
      BY DEF n
    <3> HIDE DEF closed
    <3>5. closed \in CountRow /\ closed.system \in Quantity /\ closed.counted \in Quantity
      BY <3>1, <3>3, <3>4
    <3> QED BY <1>1, <1>7, <2>1, <3>5
  <2> QED BY <1>1, <1>9, <2>1, <2>2
<1>14. CASE CommitRemoveCount(h)
  BY <1>1, <1>7, <1>8, <1>9, <1>14 DEF CommitRemoveCount, CountRow, CountStatus
<1>15. CASE CommitReserve(h) \/ CommitRelease(h)
  BY <1>1, <1>15 DEF CommitReserve, CommitRelease, RowsOK
<1> QED BY <1>1, <1>2, <1>3, <1>4, <1>5, <1>6, <1>10, <1>11, <1>12, <1>13, <1>14, <1>15
        DEF Commit

LEMMA InitIInv ==
  ASSUME Init
  PROVE  IInv
<1>1. LevelOK
  BY StockConstants, QuantityIs DEF Init, LevelOK
<1>2. RequestsOK
  BY IdleOK DEF Init, RequestsOK, RequestOK
<1>3. RowsOK
  BY QuantityIs DEF Init, RowsOK, CountRow, CountStatus
<1>4. Exclusive /\ Covered
  BY DEF Init, Exclusive, Covered, Locked, Idle
<1> QED BY <1>1, <1>2, <1>3, <1>4 DEF IInv

LEMMA NextIInv ==
  ASSUME IInv, [Next]_vars
  PROVE  IInv'
<1>1. CASE \E n \in Notes : CreateNote(n)
  <2>1. UNCHANGED <<level, req>> /\ UNCHANGED <<count, adjusts, transfers>>
    BY <1>1 DEF CreateNote
  <2>2. RowsOK'
    BY <2>1 DEF IInv, RowsOK
  <2> QED BY <2>1, <2>2, QuietKeeps DEF IInv
<1>2. ASSUME NEW c \in Counts, CreateCount(c) PROVE IInv'
  <2>1. UNCHANGED <<level, req, adjusts, transfers>>
    BY <1>2 DEF CreateCount
  <2>2. level[Wh[c]] \in Quantity /\ level[Wh[c]] \in Int
    BY StockConstants, QuantityIs DEF IInv, LevelOK
  <2>3. /\ count' \in [Counts -> CountRow]
        /\ \A d \in Counts : count'[d].system \in Quantity /\ count'[d].counted \in Quantity
    <3> DEFINE row == [status |-> "DRAFT", system |-> level[Wh[c]],
                       counted |-> level[Wh[c]], completedAt |-> FALSE, revRows |-> 0]
    <3>1. count' = [count EXCEPT ![c] = row]
      BY <1>2 DEF CreateCount
    <3>2. row \in CountRow /\ row.system \in Quantity /\ row.counted \in Quantity
      BY <2>2 DEF CountRow, CountStatus
    <3> HIDE DEF row
    <3> QED BY <3>1, <3>2 DEF IInv, RowsOK
  <2>4. RowsOK'
    BY <2>1, <2>3 DEF IInv, RowsOK
  <2> QED BY <2>1, <2>4, QuietKeeps DEF IInv
<1>3. ASSUME NEW h \in Handlers, Check(h) PROVE IInv'
  <2>1. /\ \E r : RequestOK(r) /\ r.pc # "open" /\ Serve(h, r)
        /\ UNCHANGED <<level, count, adjusts, transfers>>
    BY <1>3, CheckServes
  <2>2. LevelOK' /\ RequestsOK' /\ Exclusive' /\ Covered'
    BY <2>1, ServeKeeps
  <2>3. RowsOK'
    BY <2>1 DEF IInv, RowsOK
  <2> QED BY <2>2, <2>3 DEF IInv
<1>4. ASSUME NEW h \in Handlers, WriteLevels(h) PROVE IInv'
  BY <1>4, WriteKeeps
<1>5. ASSUME NEW h \in Handlers, Fail(h) PROVE IInv'
  <2>1. Finish(h) /\ level' = level /\ UNCHANGED <<count, adjusts, transfers>>
    BY <1>5 DEF Fail, documents
  <2>2. RowsOK'
    BY <2>1 DEF IInv, RowsOK
  <2> QED BY <2>1, <2>2, FinishKeeps DEF IInv
<1>6. ASSUME NEW h \in Handlers, Commit(h) PROVE IInv'
  BY <1>6, CommitFiles, PostKeeps DEF IInv
<1>7. CASE UNCHANGED vars
  <2>1. UNCHANGED <<level, req>> /\ UNCHANGED <<count, adjusts, transfers>>
    BY <1>7 DEF vars
  <2>2. RowsOK'
    BY <2>1 DEF IInv, RowsOK
  <2> QED BY <2>1, <2>2, QuietKeeps DEF IInv
<1> QED BY <1>1, <1>2, <1>3, <1>4, <1>5, <1>6, <1>7 DEF Next

\* Where no sale may oversell, no warehouse row is ever negative, however many
\* adjustments, transfers, deliveries, counts, sales and reversals overlap.
THEOREM StockNeverNegative ==
  ASSUME Overrides \subseteq {FALSE}
  PROVE  Spec => []NeverOversold
<1>1. Init => IInv
  BY InitIInv
<1>2. IInv /\ [Next]_vars => IInv'
  BY NextIInv
<1>3. IInv => NeverOversold
  <2>1. Quantity = Nat
    BY DEF Quantity
  <2> QED BY <2>1 DEF IInv, LevelOK, NeverOversold
<1> QED BY <1>1, <1>2, <1>3, PTL DEF Spec

-----------------------------------------------------------------------------
BookedOK == booked \in [Warehouses -> Int]

LEMMA NextBooked ==
  ASSUME IInv, BookedOK, [Next]_vars
  PROVE  BookedOK'
<1>1. ASSUME NEW h \in Handlers, Post(h) PROVE BookedOK'
  <2>1. \A w \in Warehouses : booked[w] \in Int /\ req[h].moves[w] \in Int
    BY DEF IInv, RequestsOK, RequestOK, Requests, Moves, BookedOK
  <2> QED BY <1>1, <2>1 DEF Post, BookedOK
<1>2. CASE UNCHANGED booked
  BY <1>2 DEF BookedOK
<1>3. ASSUME NEW h \in Handlers, Commit(h) PROVE BookedOK'
  BY <1>1, <1>3, CommitFiles
<1>4. ASSUME NEW h \in Handlers, Check(h) PROVE UNCHANGED booked
  BY <1>4 DEF Check, AdjustStock, ReverseLastAdjust, TransferStock, ReverseLastTransfer,
     Deliver, CancelNote, RemoveNote, UpdateLines, Complete, CancelCount,
     ReverseCompleted, RemoveCount, ReserveStockOut, ReleaseStockIn, Checked
<1> QED BY <1>2, <1>3, <1>4 DEF Next, CreateNote, CreateCount, WriteLevels, Fail, vars

\* A warehouse row moves away from its movement rows only in the commit of a
\* transaction that writes an absolute quantity, whatever else overlaps.
THEOREM DriftIsAbsolute == Spec => OnlyAbsoluteWritesDrift
<1>1. Init => IInv /\ BookedOK
  BY InitIInv DEF Init, BookedOK, Still
<1>2. IInv /\ BookedOK /\ [Next]_vars => (IInv /\ BookedOK)'
  BY NextIInv, NextBooked
<1>3. IInv /\ BookedOK /\ [Next]_vars =>
        [\A w \in Warehouses :
           level'[w] - level[w] # booked'[w] - booked[w]
             => \E h \in Handlers : req[h].pc = "open" /\ req[h].abs]_vars
  <2> DEFINE Drift(w) == level'[w] - level[w] # booked'[w] - booked[w]
                           => \E h \in Handlers : req[h].pc = "open" /\ req[h].abs
  <2> SUFFICES ASSUME IInv, BookedOK, Next, NEW w \in Warehouses PROVE Drift(w)
    OBVIOUS
  <2>1. level[w] \in Int /\ booked[w] \in Int
    BY QuantityIs DEF IInv, LevelOK, BookedOK
  <2>2. CASE UNCHANGED <<level, booked>>
    <3>1. level'[w] = level[w] /\ booked'[w] = booked[w]
      BY <2>2
    <3> QED BY <2>1, <3>1
  <2>3. ASSUME NEW h \in Handlers, Commit(h) PROVE Drift(w)
    <3>1. req[h].pc = "open" /\ Post(h)
      BY <2>3, CommitFiles
    <3>2. ASSUME ~req[h].abs PROVE level'[w] - level[w] = booked'[w] - booked[w]
      <4>1. req[h].moves[w] \in Int
        BY DEF IInv, RequestsOK, RequestOK, Requests, Moves
      <4>2. level'[w] = level[w] + req[h].moves[w]
        BY <2>1, <3>1, <3>2, <4>1 DEF Post, After, Touched
      <4>3. booked'[w] = booked[w] + req[h].moves[w]
        BY <3>1 DEF Post
      <4> QED BY <2>1, <4>1, <4>2, <4>3
    <3> QED BY <3>1, <3>2
  <2>4. ASSUME NEW h \in Handlers, Check(h) PROVE UNCHANGED <<level, booked>>
    BY <2>4 DEF Check, AdjustStock, ReverseLastAdjust, TransferStock, ReverseLastTransfer,
       Deliver, CancelNote, RemoveNote, UpdateLines, Complete, CancelCount,
       ReverseCompleted, RemoveCount, ReserveStockOut, ReleaseStockIn, Checked
  <2> QED BY <2>2, <2>3, <2>4 DEF Next, CreateNote, CreateCount, WriteLevels, Fail
<1> QED BY <1>1, <1>2, <1>3, PTL DEF Spec, OnlyAbsoluteWritesDrift

-----------------------------------------------------------------------------
(***************************************************************************)
(* Sums over finite sets. SumFunctionOnSet is a recursive function over    *)
(* the subsets of its set; what it computes is proved with the             *)
(* well-foundedness of the strict subset order.                            *)
(***************************************************************************)
\* One unfolding of the recursion behind SumFunctionOnSet.
SumBody(f, g, s) ==
  IF s = {} THEN 0 ELSE f[CHOOSE x \in s : TRUE] + g[s \ {CHOOSE x \in s : TRUE}]
IsSum(f, S, g) == g = [s \in SUBSET S |-> SumBody(f, g, s)]

\* What the library's sum unfolds to.
LEMMA SumIs ==
  ASSUME NEW f, NEW S
  PROVE  SumFunctionOnSet(f, S) = (CHOOSE g : IsSum(f, S, g))[S]
BY DEF SumFunctionOnSet, FoldFunctionOnSet, MapThenFoldSet, IsSum, SumBody

\* A family of subsets of a finite set has a smallest member.
LEMMA SmallestSubset ==
  ASSUME NEW S, IsFiniteSet(S), NEW F \in SUBSET SUBSET S, F # {}
  PROVE  \E T \in F : \A U \in F : ~(U \subseteq T /\ U # T)
<1> DEFINE R == StrictSubsetOrdering(S)
<1>1. IsWellFoundedOn(R, SUBSET S)
  BY FS_StrictSubsetOrderingWellFounded, FS_FiniteSubsetsOfFinite
<1>2. \E T \in F : \A U \in F : ~(<<U, T>> \in R)
  <2> HIDE DEF R
  <2> QED BY <1>1, WFMin
<1> QED BY <1>2 DEF StrictSubsetOrdering

\* A sum function of a set is, restricted, one of each of its subsets.
LEMMA SumRestricts ==
  ASSUME NEW f, NEW S, NEW g, IsSum(f, S, g), NEW T \in SUBSET S
  PROVE  IsSum(f, T, [s \in SUBSET T |-> g[s]])
<1> DEFINE h == [s \in SUBSET T |-> g[s]]
<1>1. ASSUME NEW s \in SUBSET T PROVE h[s] = SumBody(f, h, s)
  <2>1. h[s] = g[s] /\ g[s] = SumBody(f, g, s)
    BY DEF IsSum
  <2>2. s # {} => h[s \ {CHOOSE x \in s : TRUE}] = g[s \ {CHOOSE x \in s : TRUE}]
    OBVIOUS
  <2> QED BY <2>1, <2>2 DEF SumBody
<1> QED BY <1>1 DEF IsSum

\* A finite set has one sum function, and it exists.
LEMMA SumUnique ==
  ASSUME NEW f, NEW S, IsFiniteSet(S), NEW g, NEW h, IsSum(f, S, g), IsSum(f, S, h)
  PROVE  g = h
<1> DEFINE F == {s \in SUBSET S : g[s] # h[s]}
<1>1. CASE F = {}
  BY <1>1 DEF IsSum
<1>2. CASE F # {}
  <2>0. F \in SUBSET SUBSET S
    OBVIOUS
  <2>1. PICK s \in F : \A U \in F : ~(U \subseteq s /\ U # s)
    <3> HIDE DEF F
    <3> QED BY <1>2, <2>0, SmallestSubset
  <2>2. g[s] = SumBody(f, g, s) /\ h[s] = SumBody(f, h, s)
    BY DEF IsSum
  <2>3. s # {}
    BY <2>2 DEF SumBody
  <2> DEFINE x == CHOOSE x \in s : TRUE
  <2>4. x \in s
    BY <2>3
  <2>5. s \ {x} \in SUBSET S /\ s \ {x} \notin F
    BY <2>1, <2>4
  <2> QED BY <2>2, <2>3, <2>5 DEF SumBody
<1> QED BY <1>1, <1>2

Iter(f, S) == CHOOSE g : IsSum(f, S, g)

LEMMA SumExists ==
  ASSUME NEW f, NEW S, IsFiniteSet(S)
  PROVE  IsSum(f, S, Iter(f, S))
<1> DEFINE F == {T \in SUBSET S : ~\E g : IsSum(f, T, g)}
<1>1. SUFFICES F = {}
  <2>1. S \notin F
    BY <1>1
  <2> QED BY <2>1 DEF Iter
<1>2. SUFFICES ASSUME F # {} PROVE FALSE
  OBVIOUS
<1>3. PICK T \in F : \A U \in F : ~(U \subseteq T /\ U # T)
  <2>1. F \in SUBSET SUBSET S
    OBVIOUS
  <2> HIDE DEF F
  <2> QED BY <1>2, <2>1, SmallestSubset
<1>4. ASSUME NEW U \in SUBSET T, U # T PROVE IsSum(f, U, Iter(f, U)) /\ IsFiniteSet(U)
  <2>1. U \notin F /\ U \in SUBSET S
    BY <1>3, <1>4
  <2>2. IsFiniteSet(U)
    BY <2>1, FS_Subset
  <2> QED BY <2>1, <2>2 DEF Iter
<1> DEFINE W == [s \in SUBSET T |-> Iter(f, s)[s]]
           V == [s \in SUBSET T |-> IF s = T THEN SumBody(f, W, T) ELSE W[s]]
<1>5. ASSUME NEW U \in SUBSET T, U # T PROVE W[U] = SumBody(f, W, U)
  <2>1. W[U] = Iter(f, U)[U]
    OBVIOUS
  <2>2. Iter(f, U)[U] = SumBody(f, Iter(f, U), U)
    <3> DEFINE g == Iter(f, U)
    <3>1. IsSum(f, U, g)
      BY <1>4, <1>5
    <3> HIDE DEF g
    <3>2. g[U] = SumBody(f, g, U)
      BY <3>1 DEF IsSum
    <3> QED BY <3>2 DEF g
  <2>3. ASSUME U # {} PROVE Iter(f, U)[U \ {CHOOSE x \in U : TRUE}] = W[U \ {CHOOSE x \in U : TRUE}]
    <3> DEFINE x == CHOOSE x \in U : TRUE
               R == U \ {x}
               g == Iter(f, U)
               h == [s \in SUBSET R |-> g[s]]
    <3>1. x \in U /\ R \in SUBSET T /\ R # T /\ R \in SUBSET U
      BY <2>3, <1>5
    <3>2. IsSum(f, R, h)
      BY <1>4, <1>5, <3>1, SumRestricts
    <3>3. IsSum(f, R, Iter(f, R)) /\ IsFiniteSet(R)
      BY <1>4, <3>1
    <3>4. h = Iter(f, R)
      BY <3>2, <3>3, SumUnique
    <3>5. h[R] = g[R] /\ W[R] = Iter(f, R)[R]
      BY <3>1
    <3> QED BY <3>4, <3>5
  <2> QED BY <2>1, <2>2, <2>3 DEF SumBody
<1>6. ASSUME NEW s \in SUBSET T PROVE V[s] = SumBody(f, V, s)
  <2> DEFINE x == CHOOSE x \in s : TRUE
  <2>1. V[s] = SumBody(f, W, s)
    BY <1>5
  <2>2. s # {} => V[s \ {x}] = W[s \ {x}]
    <3>1. s # {} => x \in s
      OBVIOUS
    <3>2. s # {} => s \ {x} # T /\ s \ {x} \in SUBSET T
      BY <3>1
    <3> QED BY <3>2
  <2> HIDE DEF W, V
  <2> QED BY <2>1, <2>2 DEF SumBody
<1>7. IsSum(f, T, V)
  BY <1>6 DEF IsSum
<1> QED BY <1>3, <1>7

\* The sum of a finite set: nothing, or the chosen element's term and the rest.
LEMMA SumRec ==
  ASSUME NEW f, NEW S, IsFiniteSet(S)
  PROVE  /\ S = {} => SumFunctionOnSet(f, S) = 0
         /\ S # {} => \E x \in S : SumFunctionOnSet(f, S) = f[x] + SumFunctionOnSet(f, S \ {x})
<1> DEFINE g == Iter(f, S)
<1>1. IsSum(f, S, g) /\ SumFunctionOnSet(f, S) = g[S]
  BY SumExists, SumIs DEF Iter
<1>2. g[S] = SumBody(f, g, S)
  <2> HIDE DEF g
  <2> QED BY <1>1 DEF IsSum
<1>3. S = {} => SumFunctionOnSet(f, S) = 0
  BY <1>1, <1>2 DEF SumBody
<1>4. ASSUME S # {}
      PROVE  \E x \in S : SumFunctionOnSet(f, S) = f[x] + SumFunctionOnSet(f, S \ {x})
  <2> DEFINE x == CHOOSE x \in S : TRUE
             R == S \ {x}
             h == [s \in SUBSET R |-> g[s]]
  <2>1. x \in S /\ R \in SUBSET S
    BY <1>4
  <2>2. IsFiniteSet(R)
    BY <2>1, FS_Subset
  <2>3. IsSum(f, R, h)
    BY <1>1, <2>1, SumRestricts
  <2>4. IsSum(f, R, Iter(f, R)) /\ SumFunctionOnSet(f, R) = Iter(f, R)[R]
    BY <2>2, SumExists, SumIs DEF Iter
  <2>5. h = Iter(f, R)
    BY <2>2, <2>3, <2>4, SumUnique
  <2>6. g[R] = SumFunctionOnSet(f, R)
    BY <2>4, <2>5
  <2> QED BY <1>1, <1>2, <1>4, <2>1, <2>6 DEF SumBody
<1> QED BY <1>3, <1>4

\* The order does not matter: any element's term may be taken out first.
LEMMA SumRemove ==
  ASSUME NEW S, IsFiniteSet(S), NEW f, \A x \in S : f[x] \in Int
  PROVE  /\ SumFunctionOnSet(f, S) \in Int
         /\ \A y \in S : SumFunctionOnSet(f, S) = f[y] + SumFunctionOnSet(f, S \ {y})
<1> DEFINE Sum(T) == SumFunctionOnSet(f, T)
           Good(T) == Sum(T) \in Int /\ \A y \in T : Sum(T) = f[y] + Sum(T \ {y})
           F == {T \in SUBSET S : ~Good(T)}
<1> HIDE DEF Sum
<1>1. CASE F = {}
  BY <1>1 DEF Sum
<1>2. CASE F # {}
  <2>0. F \in SUBSET SUBSET S
    OBVIOUS
  <2>1. PICK T \in F : \A U \in F : ~(U \subseteq T /\ U # T)
    <3> HIDE DEF F
    <3> QED BY <1>2, <2>0, SmallestSubset
  <2>2. IsFiniteSet(T) /\ T \in SUBSET S
    BY FS_Subset
  <2>3. ASSUME NEW y \in T PROVE Good(T \ {y})
    BY <2>1
  <2>4. CASE T = {}
    BY <2>2, <2>4, SumRec DEF Sum
  <2>5. CASE T # {}
    <3>1. PICK x \in T : Sum(T) = f[x] + Sum(T \ {x})
      BY <2>2, <2>5, SumRec DEF Sum
    <3>2. Sum(T \ {x}) \in Int /\ f[x] \in Int
      BY <2>2, <2>3
    <3>3. ASSUME NEW y \in T, y # x PROVE Sum(T) = f[y] + Sum(T \ {y})
      <4>1. Sum(T \ {x}) = f[y] + Sum((T \ {x}) \ {y})
        BY <2>3, <3>3
      <4>2. Sum(T \ {y}) = f[x] + Sum((T \ {y}) \ {x})
        BY <2>3, <3>3
      <4>3. (T \ {x}) \ {y} = (T \ {y}) \ {x}
        OBVIOUS
      <4>4. Sum((T \ {x}) \ {y}) \in Int
        <5>1. (T \ {x}) \ {y} \notin F
          BY <2>1
        <5> QED BY <2>2, <5>1
      <4>5. f[y] \in Int
        BY <2>2
      <4> DEFINE a == f[x]
                 b == f[y]
                 rest == Sum((T \ {x}) \ {y})
      <4>6. Sum(T) = a + (b + rest) /\ Sum(T \ {y}) = a + rest
        BY <3>1, <4>1, <4>2, <4>3
      <4>7. a \in Int /\ b \in Int /\ rest \in Int
        BY <3>2, <4>4, <4>5
      <4> HIDE DEF a, b, rest
      <4>8. a + (b + rest) = b + (a + rest)
        BY ONLY <4>7
      <4> QED BY <4>6, <4>8 DEF b
    <3>4. Sum(T) \in Int
      BY <3>1, <3>2
    <3>5. Good(T)
      BY <3>1, <3>3, <3>4
    <3> QED BY <3>5
  <2> QED BY <2>4, <2>5
<1> QED BY <1>1, <1>2

\* Equal terms have equal sums.
LEMMA SumSame ==
  ASSUME NEW S, IsFiniteSet(S), NEW f, NEW g, \A x \in S : f[x] \in Int /\ g[x] = f[x]
  PROVE  SumFunctionOnSet(g, S) = SumFunctionOnSet(f, S)
<1> DEFINE F == {T \in SUBSET S : SumFunctionOnSet(g, T) # SumFunctionOnSet(f, T)}
<1>1. CASE F = {}
  BY <1>1
<1>2. CASE F # {}
  <2>0. F \in SUBSET SUBSET S
    OBVIOUS
  <2>1. PICK T \in F : \A U \in F : ~(U \subseteq T /\ U # T)
    <3> HIDE DEF F
    <3> QED BY <1>2, <2>0, SmallestSubset
  <2>2. IsFiniteSet(T) /\ T \in SUBSET S
    BY FS_Subset
  <2>3. CASE T = {}
    BY <2>2, <2>3, SumRec
  <2>4. CASE T # {}
    <3>1. PICK y : y \in T
      BY <2>4
    <3>2. SumFunctionOnSet(f, T) = f[y] + SumFunctionOnSet(f, T \ {y})
      BY <2>2, <3>1, SumRemove
    <3>3. SumFunctionOnSet(g, T) = g[y] + SumFunctionOnSet(g, T \ {y})
      BY <2>2, <3>1, SumRemove
    <3>4. T \ {y} \notin F
      BY <2>1, <3>1
    <3> QED BY <2>2, <3>1, <3>2, <3>3, <3>4
  <2> QED BY <2>3, <2>4
<1> QED BY <1>1, <1>2


LEMMA SumInt ==
  ASSUME NEW m \in Moves
  PROVE  /\ SumOf(m) = SumFunctionOnSet(m, Warehouses)
         /\ SumOf(m) \in Int
<1>1. SumOf(m) = SumFunctionOnSet(m, Warehouses)
  <2>1. DOMAIN m = Warehouses
    BY DEF Moves
  <2> QED BY <2>1 DEF SumOf, FoldFunction, SumFunctionOnSet
<1>2. \A w \in Warehouses : m[w] \in Int
  BY DEF Moves
<1>3. SumFunctionOnSet(m, Warehouses) \in Int
  BY <1>2, FinitelyManyWarehouses, SumRemove
<1> QED BY <1>1, <1>3

\* Nothing anywhere adds up to nothing.
LEMMA SumZero ==
  ASSUME NEW S, IsFiniteSet(S), NEW f, \A x \in S : f[x] = 0
  PROVE  SumFunctionOnSet(f, S) = 0
<1> DEFINE F == {T \in SUBSET S : SumFunctionOnSet(f, T) # 0}
<1>1. CASE F = {}
  BY <1>1
<1>2. CASE F # {}
  <2>0. F \in SUBSET SUBSET S
    OBVIOUS
  <2>1. PICK T \in F : \A U \in F : ~(U \subseteq T /\ U # T)
    <3> HIDE DEF F
    <3> QED BY <1>2, <2>0, SmallestSubset
  <2>2. IsFiniteSet(T) /\ T \in SUBSET S
    BY FS_Subset
  <2>3. CASE T = {}
    BY <2>2, <2>3, SumRec
  <2>4. CASE T # {}
    <3>1. PICK y \in T : SumFunctionOnSet(f, T) = f[y] + SumFunctionOnSet(f, T \ {y})
      BY <2>2, <2>4, SumRec
    <3>2. T \ {y} \notin F
      BY <2>1, <3>1
    <3> QED BY <2>2, <3>1, <3>2
  <2> QED BY <2>3, <2>4
<1> QED BY <1>1, <1>2

\* Sums add.
LEMMA SumPlus ==
  ASSUME NEW S, IsFiniteSet(S), NEW f, NEW g, NEW h,
         \A x \in S : f[x] \in Int /\ g[x] \in Int /\ h[x] = f[x] + g[x]
  PROVE  SumFunctionOnSet(h, S) = SumFunctionOnSet(f, S) + SumFunctionOnSet(g, S)
<1> DEFINE F == {T \in SUBSET S : SumFunctionOnSet(h, T)
                                    # SumFunctionOnSet(f, T) + SumFunctionOnSet(g, T)}
<1>1. CASE F = {}
  BY <1>1
<1>2. CASE F # {}
  <2>0. F \in SUBSET SUBSET S
    OBVIOUS
  <2>1. PICK T \in F : \A U \in F : ~(U \subseteq T /\ U # T)
    <3> HIDE DEF F
    <3> QED BY <1>2, <2>0, SmallestSubset
  <2>2. IsFiniteSet(T) /\ T \in SUBSET S
    BY FS_Subset
  <2>3. CASE T = {}
    BY <2>2, <2>3, SumRec
  <2>4. CASE T # {}
    <3>1. PICK y : y \in T
      BY <2>4
    <3> DEFINE R == T \ {y}
    <3>2. IsFiniteSet(R) /\ R \in SUBSET S
      BY <2>2, FS_Subset
    <3>3. /\ SumFunctionOnSet(f, T) = f[y] + SumFunctionOnSet(f, R)
          /\ SumFunctionOnSet(f, R) \in Int
      BY <2>2, <3>1, <3>2, SumRemove
    <3>4. /\ SumFunctionOnSet(g, T) = g[y] + SumFunctionOnSet(g, R)
          /\ SumFunctionOnSet(g, R) \in Int
      BY <2>2, <3>1, <3>2, SumRemove
    <3>5. SumFunctionOnSet(h, T) = h[y] + SumFunctionOnSet(h, R)
      BY <2>2, <3>1, SumRemove
    <3>6. SumFunctionOnSet(h, R) = SumFunctionOnSet(f, R) + SumFunctionOnSet(g, R)
      BY <2>1, <3>1, <3>2
    <3>7. f[y] \in Int /\ g[y] \in Int /\ h[y] = f[y] + g[y]
      BY <2>2, <3>1
    <3>8. SumFunctionOnSet(h, T) = SumFunctionOnSet(f, T) + SumFunctionOnSet(g, T)
      <4> HIDE DEF R, F
      <4> QED BY <3>3, <3>4, <3>5, <3>6, <3>7
    <3> QED BY <3>8
  <2> QED BY <2>3, <2>4
<1> QED BY <1>1, <1>2

LEMMA SumAdd ==
  ASSUME NEW f \in Moves, NEW g \in Moves, NEW m \in Moves,
         \A w \in Warehouses : m[w] = f[w] + g[w]
  PROVE  SumOf(m) = SumOf(f) + SumOf(g)
<1>1. \A w \in Warehouses : f[w] \in Int /\ g[w] \in Int /\ m[w] = f[w] + g[w]
  BY DEF Moves
<1>2. SumFunctionOnSet(m, Warehouses)
        = SumFunctionOnSet(f, Warehouses) + SumFunctionOnSet(g, Warehouses)
  BY <1>1, FinitelyManyWarehouses, SumPlus
<1> QED BY <1>2, SumInt

\* Units moved in one warehouse.
LEMMA SumBy ==
  ASSUME NEW w \in Warehouses, NEW d \in Int
  PROVE  SumOf(By(w, d)) = d /\ By(w, d) \in Moves /\ By(w, d)[w] = d
<1> DEFINE m == By(w, d)
           R == Warehouses \ {w}
<1>1. m \in Moves /\ m[w] = d /\ \A x \in R : m[x] = 0
  BY DEF By, Still, Moves
<1>2. SumOf(m) = SumFunctionOnSet(m, Warehouses) /\ \A x \in Warehouses : m[x] \in Int
  BY <1>1, SumInt DEF Moves
<1> HIDE DEF m
<1>3. SumFunctionOnSet(m, Warehouses) = m[w] + SumFunctionOnSet(m, R)
  BY <1>2, FinitelyManyWarehouses, SumRemove
<1>4. IsFiniteSet(R)
  BY FinitelyManyWarehouses, FS_Subset
<1>5. SumFunctionOnSet(m, R) = 0
  BY <1>1, <1>4, SumZero
<1> HIDE DEF R
<1>6. SumOf(m) = d
  BY <1>1, <1>2, <1>3, <1>5
<1> QED BY <1>1, <1>6 DEF m

\* What leaves one warehouse arrives in the other.
LEMMA SumTransfer ==
  ASSUME NEW from \in Warehouses, NEW to \in Warehouses \ {from}, NEW q \in Int
  PROVE  /\ [By(from, -q) EXCEPT ![to] = q] \in Moves
         /\ SumOf([By(from, -q) EXCEPT ![to] = q]) = 0
<1> DEFINE f == By(from, -q)
           g == By(to, q)
           m == [f EXCEPT ![to] = q]
<1>1. /\ f \in Moves /\ SumOf(f) = -q
      /\ g \in Moves /\ SumOf(g) = q
  BY SumBy
<1>2. m \in Moves /\ \A w \in Warehouses : m[w] = f[w] + g[w]
  BY DEF By, Still, Moves
<1> HIDE DEF f, g, m
<1>3. SumOf(m) = SumOf(f) + SumOf(g)
  BY <1>1, <1>2, SumAdd
<1>4. SumOf(m) = 0
  BY <1>1, <1>3
<1> QED BY <1>2, <1>4 DEF m, f

LEMMA SumStill == SumOf(Still) = 0 /\ Still \in Moves
<1>1. Still \in Moves /\ \A w \in Warehouses : Still[w] = 0
  BY DEF Still, Moves
<1>2. SumFunctionOnSet(Still, Warehouses) = 0
  BY <1>1, FinitelyManyWarehouses, SumZero
<1> QED BY <1>1, <1>2, SumInt

LEMMA SumNegated ==
  ASSUME NEW m \in Moves, SumOf(m) = 0
  PROVE  SumOf(Negated(m)) = 0
<1>1. Negated(m) \in Moves /\ \A w \in Warehouses : Still[w] = m[w] + Negated(m)[w]
  BY DEF Negated, Still, Moves
<1>2. SumOf(Still) = SumOf(m) + SumOf(Negated(m))
  BY <1>1, SumStill, SumAdd
<1> QED BY <1>1, <1>2, SumStill, SumInt

-----------------------------------------------------------------------------
(***************************************************************************)
(* What each kind of request carries. This much holds however many         *)
(* requests overlap: a request keeps what it was made with.                *)
(***************************************************************************)
Shape(r) ==
  /\ r.op \in {"adjust", "undoAdjust"} => \E w \in Warehouses : r.moves[w] # 0
  /\ r.op \in {"transfer", "undoTransfer"} => ~r.abs /\ SumOf(r.moves) = 0
  /\ r.op = "deliver" =>
       r.doc \in Notes /\ ~r.abs /\ r.moves = By(Wh[r.doc], -Qty[r.doc])
  /\ r.op = "undeliver" => r.doc \in Notes /\ r.moves = By(Wh[r.doc], Qty[r.doc])
  /\ r.op \in {"cancelNote", "removeNote"} => r.doc \in Notes /\ r.moves = Still
  /\ r.op \in {"recount", "cancelCount", "removeCount"} => r.doc \in Counts /\ r.moves = Still
  /\ r.op \in {"complete", "uncomplete"} => r.doc \in Counts
  /\ r.op = "reserve" =>
       r.doc \in Sales /\ ~r.abs /\ r.moves = By(Wh[r.doc], -Qty[r.doc])
  /\ r.op = "release" => r.doc \in Sales /\ r.moves = By(Wh[r.doc], Qty[r.doc])
Shapes ==
  /\ \A h \in Handlers : Shape(req[h])
  /\ \A k \in DOMAIN adjusts : \E w \in Warehouses : adjusts[k].moves[w] # 0
  /\ \A k \in DOMAIN transfers : SumOf(transfers[k].moves) = 0

\* What the request read of its document, as long as nobody else changes it.
Fresh(r) ==
  /\ r.op \in {"deliver", "cancelNote", "removeNote"} => note[r.doc] = "DRAFT"
  /\ r.op = "undeliver" => note[r.doc] = "DELIVERED"
  /\ r.op = "undoAdjust" => r.row \in DOMAIN adjusts /\ adjusts[r.row].undone = 0
  /\ r.op = "undoTransfer" => r.row \in DOMAIN transfers /\ transfers[r.row].undone = 0
  /\ r.op \in {"recount", "complete"} => count[r.doc].status = "DRAFT"
  /\ r.op \in {"cancelCount", "removeCount"} => count[r.doc].status \in {"DRAFT", "CANCELLED"}
  /\ r.op = "removeCount" => ~count[r.doc].completedAt
  /\ r.op = "uncomplete" => count[r.doc].status = "COMPLETED" /\ count[r.doc].revRows = 0
  /\ r.op = "complete" =>
       r.moves = By(Wh[r.doc], count[r.doc].counted - count[r.doc].system)
  /\ r.op = "uncomplete" =>
       r.moves = By(Wh[r.doc], count[r.doc].system - count[r.doc].counted)

LEMMA CheckQuiet ==
  ASSUME NEW h \in Handlers, Check(h)
  PROVE  UNCHANGED <<level, total, booked, agg, note, noteOut, count, adjusts, transfers>>
BY DEF Check, AdjustStock, ReverseLastAdjust, TransferStock, ReverseLastTransfer,
   Deliver, CancelNote, RemoveNote, UpdateLines, Complete, CancelCount,
   ReverseCompleted, RemoveCount, ReserveStockOut, ReleaseStockIn, Checked, documents

\* Every request is made with what its kind carries, from a document in the
\* state its kind asks for.
LEMMA CheckShape ==
  ASSUME IInv, Shapes, NEW h \in Handlers, Check(h)
  PROVE  \E r : Serve(h, r) /\ r.pc = "ready" /\ Shape(r) /\ Fresh(r)
<1> DEFINE Goal == \E r : Serve(h, r) /\ r.pc = "ready" /\ Shape(r) /\ Fresh(r)
<1> USE StockConstants
<1>1. CASE AdjustStock(h)
  <2>1. PICK w \in Warehouses :
          \/ \E q \in Amounts, listed \in BOOLEAN :
               \E r \in {Adding("adjust", None, By(w, q), FALSE),
                        Adding("adjust", None, By(w, -q), TRUE)} :
                 Serve(h, [r EXCEPT !.listed = listed])
          \/ \E q \in Amounts \cup {0} :
               /\ q # level[w]
               /\ Serve(h, [Setting("adjust", None, w, level[w], q) EXCEPT !.listed = TRUE])
    BY <1>1 DEF AdjustStock
  <2>2. ASSUME NEW q \in Amounts, NEW listed \in BOOLEAN,
               NEW r \in {Adding("adjust", None, By(w, q), FALSE),
                          Adding("adjust", None, By(w, -q), TRUE)},
               Serve(h, [r EXCEPT !.listed = listed])
        PROVE  Goal
    <3>1. q \in Nat \ {0}
      OBVIOUS
    <3>2. By(w, q)[w] # 0 /\ By(w, -q)[w] # 0
      BY <3>1, SumBy
    <3> DEFINE x == [r EXCEPT !.listed = listed]
    <3>3. x.pc = "ready" /\ x.op = "adjust" /\ x.moves[w] # 0
      BY <3>2 DEF Adding
    <3> HIDE DEF x
    <3>4. Shape(x) /\ Fresh(x)
      BY <3>3 DEF Shape, Fresh
    <3> QED BY <2>2, <3>3, <3>4 DEF x
  <2>3. ASSUME NEW q \in Amounts \cup {0}, q # level[w],
               Serve(h, [Setting("adjust", None, w, level[w], q) EXCEPT !.listed = TRUE])
        PROVE  Goal
    <3>1. q \in Int /\ level[w] \in Int
      BY QuantityIs DEF IInv, LevelOK
    <3>2. By(w, q - level[w])[w] = q - level[w]
      BY <3>1, SumBy
    <3> DEFINE x == [Setting("adjust", None, w, level[w], q) EXCEPT !.listed = TRUE]
    <3>3. x.pc = "ready" /\ x.op = "adjust" /\ x.moves = By(w, q - level[w])
      BY DEF Setting
    <3>4. x.moves[w] # 0
      BY <2>3, <3>1, <3>2, <3>3
    <3> HIDE DEF x
    <3>5. Shape(x) /\ Fresh(x)
      BY <3>3, <3>4 DEF Shape, Fresh
    <3> QED BY <2>3, <3>3, <3>5 DEF x
  <2> QED BY <2>1, <2>2, <2>3
<1>2. CASE ReverseLastAdjust(h)
  <2>1. PICK k \in DOMAIN adjusts :
          /\ adjusts[k].undone = 0
          /\ Serve(h, [Adding("undoAdjust", None, Negated(adjusts[k].moves),
                           ~adjusts[k].abs /\ \E w \in Warehouses : adjusts[k].moves[w] > 0)
                      EXCEPT !.row = k, !.abs = adjusts[k].abs,
                             !.to = IF adjusts[k].abs THEN adjusts[k].was ELSE 0])
    BY <1>2 DEF ReverseLastAdjust
  <2>2. PICK w \in Warehouses : adjusts[k].moves[w] # 0
    BY DEF Shapes
  <2>3. Negated(adjusts[k].moves)[w] # 0
    <3>1. adjusts[k] \in AdjustRow
      BY DEF IInv, RowsOK
    <3>2. adjusts[k].moves[w] \in Int
      BY <3>1 DEF AdjustRow, Moves
    <3> QED BY <2>2, <3>2 DEF Negated
  <2> DEFINE x == [Adding("undoAdjust", None, Negated(adjusts[k].moves),
                           ~adjusts[k].abs /\ \E v \in Warehouses : adjusts[k].moves[v] > 0)
                      EXCEPT !.row = k, !.abs = adjusts[k].abs,
                             !.to = IF adjusts[k].abs THEN adjusts[k].was ELSE 0]
  <2>4. x.pc = "ready" /\ x.op = "undoAdjust" /\ x.moves = Negated(adjusts[k].moves) /\ x.row = k
    BY DEF Adding
  <2>5. Serve(h, x)
    BY <2>1
  <2> HIDE DEF x
  <2>6. Shape(x) /\ Fresh(x)
    BY <2>1, <2>3, <2>4 DEF Shape, Fresh
  <2> QED BY <2>4, <2>5, <2>6
<1>3. CASE TransferStock(h)
  <2>1. PICK from \in Warehouses, q \in Amounts : \E to \in Warehouses \ {from} :
          Serve(h, Adding("transfer", None, [By(from, -q) EXCEPT ![to] = q], TRUE))
    BY <1>3 DEF TransferStock
  <2>0. PICK to \in Warehouses \ {from} :
          Serve(h, Adding("transfer", None, [By(from, -q) EXCEPT ![to] = q], TRUE))
    BY <2>1
  <2>2. q \in Int
    OBVIOUS
  <2>3. SumOf([By(from, -q) EXCEPT ![to] = q]) = 0
    BY <2>2, SumTransfer
  <2> DEFINE x == Adding("transfer", None, [By(from, -q) EXCEPT ![to] = q], TRUE)
  <2>4. x.pc = "ready" /\ x.op = "transfer" /\ ~x.abs /\ SumOf(x.moves) = 0
    BY <2>3 DEF Adding
  <2> HIDE DEF x
  <2>5. Shape(x) /\ Fresh(x)
    BY <2>4 DEF Shape, Fresh
  <2> QED BY <2>0, <2>4, <2>5 DEF x
<1>4. CASE ReverseLastTransfer(h)
  <2> DEFINE k == Len(transfers)
             x == [Adding("undoTransfer", None, Negated(transfers[k].moves), TRUE) EXCEPT !.row = k]
  <2>1. Serve(h, x) /\ transfers # << >> /\ transfers[k].undone = 0
    BY <1>4 DEF ReverseLastTransfer
  <2>2. k \in DOMAIN transfers /\ transfers[k] \in TransferRow
    BY <2>1 DEF IInv, RowsOK
  <2>3. SumOf(Negated(transfers[k].moves)) = 0
    BY <2>2, SumNegated DEF Shapes, TransferRow
  <2>4. /\ x.pc = "ready" /\ x.op = "undoTransfer" /\ ~x.abs /\ x.row = k
        /\ x.moves = Negated(transfers[k].moves)
    BY DEF Adding
  <2> HIDE DEF x, k
  <2>5. Shape(x) /\ Fresh(x)
    BY <2>1, <2>2, <2>3, <2>4 DEF Shape, Fresh
  <2> QED BY <2>1, <2>4, <2>5
<1>5. ASSUME NEW n \in Notes, Deliver(h, n) \/ CancelNote(h, n) \/ RemoveNote(h, n)
      PROVE  Goal
  <2>1. ASSUME NEW op \in {"deliver", "undeliver", "cancelNote", "removeNote"}, NEW m,
               NEW guarded, Serve(h, Adding(op, n, m, guarded)),
               op = "deliver" => m = By(Wh[n], -Qty[n]) /\ note[n] = "DRAFT",
               op = "undeliver" => m = By(Wh[n], Qty[n]) /\ note[n] = "DELIVERED",
               op \in {"cancelNote", "removeNote"} => m = Still /\ note[n] = "DRAFT"
        PROVE  Goal
    <3> DEFINE x == Adding(op, n, m, guarded)
    <3>1. x.pc = "ready" /\ x.op = op /\ ~x.abs /\ x.doc = n /\ x.moves = m
      BY DEF Adding
    <3> HIDE DEF x
    <3>2. Shape(x) /\ Fresh(x)
      BY <2>1, <3>1 DEF Shape, Fresh
    <3> QED BY <2>1, <3>1, <3>2 DEF x
  <2>2. CASE Deliver(h, n)
    BY <2>1, <2>2 DEF Deliver
  <2>3. CASE CancelNote(h, n)
    BY <2>1, <2>3 DEF CancelNote
  <2>4. CASE RemoveNote(h, n)
    BY <2>1, <2>4 DEF RemoveNote
  <2> QED BY <1>5, <2>2, <2>3, <2>4
<1>6. ASSUME NEW c \in Counts,
             \/ UpdateLines(h, c) \/ Complete(h, c) \/ CancelCount(h, c)
             \/ ReverseCompleted(h, c) \/ RemoveCount(h, c)
      PROVE  Goal
  <2>1. ASSUME NEW x, x.pc = "ready", Serve(h, x), x.doc = c,
               x.op \in {"recount", "cancelCount", "removeCount"}, x.moves = Still,
               x.op = "recount" => count[c].status = "DRAFT",
               count[c].status \in {"DRAFT", "CANCELLED"},
               x.op = "removeCount" => ~count[c].completedAt
        PROVE  Goal
    BY <2>1 DEF Shape, Fresh
  <2>2. CASE UpdateLines(h, c)
    <3>1. PICK q : Serve(h, [Adding("recount", c, Still, FALSE) EXCEPT !.to = q])
                   /\ count[c].status = "DRAFT"
      BY <2>2 DEF UpdateLines
    <3> DEFINE x == [Adding("recount", c, Still, FALSE) EXCEPT !.to = q]
    <3>2. x.pc = "ready" /\ x.op = "recount" /\ x.doc = c /\ x.moves = Still
      BY DEF Adding
    <3>3. Serve(h, x)
      BY <3>1
    <3> HIDE DEF x
    <3> QED BY <2>1, <3>1, <3>2, <3>3
  <2>3. CASE CancelCount(h, c)
    <3> DEFINE x == Adding("cancelCount", c, Still, FALSE)
    <3>1. Serve(h, x) /\ count[c].status \in {"DRAFT", "CANCELLED"}
      BY <2>3 DEF CancelCount
    <3>2. x.pc = "ready" /\ x.op = "cancelCount" /\ x.doc = c /\ x.moves = Still
      BY DEF Adding
    <3> HIDE DEF x
    <3> QED BY <2>1, <3>1, <3>2
  <2>4. CASE RemoveCount(h, c)
    <3> DEFINE x == Adding("removeCount", c, Still, FALSE)
    <3>1. /\ Serve(h, x) /\ count[c].status \in {"DRAFT", "CANCELLED"}
          /\ ~count[c].completedAt
      BY <2>4 DEF RemoveCount
    <3>2. x.pc = "ready" /\ x.op = "removeCount" /\ x.doc = c /\ x.moves = Still
      BY DEF Adding
    <3> HIDE DEF x
    <3> QED BY <2>1, <3>1, <3>2
  <2>5. CASE Complete(h, c)
    <3> DEFINE x == Setting("complete", c, Wh[c], count[c].system, count[c].counted)
    <3>1. Serve(h, x) /\ count[c].status = "DRAFT"
      BY <2>5 DEF Complete
    <3>2. /\ x.pc = "ready" /\ x.op = "complete" /\ x.doc = c
          /\ x.moves = By(Wh[c], count[c].counted - count[c].system)
      BY DEF Setting
    <3> HIDE DEF x
    <3>3. Shape(x) /\ Fresh(x)
      BY <3>1, <3>2 DEF Shape, Fresh
    <3> QED BY <3>1, <3>2, <3>3
  <2>6. CASE ReverseCompleted(h, c)
    <3> DEFINE x == Setting("uncomplete", c, Wh[c], count[c].counted, count[c].system)
    <3>1. Serve(h, x) /\ count[c].status = "COMPLETED" /\ count[c].revRows = 0
      BY <2>6 DEF ReverseCompleted
    <3>2. /\ x.pc = "ready" /\ x.op = "uncomplete" /\ x.doc = c
          /\ x.moves = By(Wh[c], count[c].system - count[c].counted)
      BY DEF Setting
    <3> HIDE DEF x
    <3>3. Shape(x) /\ Fresh(x)
      BY <3>1, <3>2 DEF Shape, Fresh
    <3> QED BY <3>1, <3>2, <3>3
  <2> QED BY <1>6, <2>2, <2>3, <2>4, <2>5, <2>6
<1>7. ASSUME NEW s \in Sales, ReserveStockOut(h, s) \/ ReleaseStockIn(h, s)
      PROVE  Goal
  <2>1. ASSUME NEW op \in {"reserve", "release"}, NEW m, NEW guarded,
               Serve(h, Adding(op, s, m, guarded)),
               op = "reserve" => m = By(Wh[s], -Qty[s]),
               op = "release" => m = By(Wh[s], Qty[s])
        PROVE  Goal
    <3> DEFINE x == Adding(op, s, m, guarded)
    <3>1. x.pc = "ready" /\ x.op = op /\ ~x.abs /\ x.doc = s /\ x.moves = m
      BY DEF Adding
    <3> HIDE DEF x
    <3>2. Shape(x) /\ Fresh(x)
      BY <2>1, <3>1 DEF Shape, Fresh
    <3> QED BY <2>1, <3>1, <3>2 DEF x
  <2>2. CASE ReserveStockOut(h, s)
    BY <2>1, <2>2 DEF ReserveStockOut
  <2>3. CASE ReleaseStockIn(h, s)
    BY <2>1, <2>3 DEF ReleaseStockIn
  <2> QED BY <1>7, <2>2, <2>3
<1> QED BY <1>1, <1>2, <1>3, <1>4, <1>5, <1>6, <1>7 DEF Check

\* The logs keep the shape of what was committed.
LEMMA CommitLogs ==
  ASSUME IInv, Shapes, NEW h \in Handlers, Commit(h)
  PROVE  /\ \A k \in DOMAIN adjusts' : \E w \in Warehouses : adjusts'[k].moves[w] # 0
         /\ \A k \in DOMAIN transfers' : SumOf(transfers'[k].moves) = 0
<1> USE DEF Shapes
<1>0. adjusts \in Seq(AdjustRow) /\ transfers \in Seq(TransferRow) /\ Shape(req[h])
  BY DEF IInv, RowsOK
<1>1. CASE UNCHANGED <<adjusts, transfers>>
  BY <1>1
<1>2. CASE CommitAdjust(h)
  <2>1. PICK a : adjusts' = Append(adjusts, a) /\ a.moves = req[h].moves /\ transfers' = transfers
    BY <1>2 DEF CommitAdjust
  <2>2. \E w \in Warehouses : a.moves[w] # 0
    BY <1>0, <1>2, <2>1 DEF CommitAdjust, Committing, Shape
  <2>3. \A k \in DOMAIN adjusts' : \/ adjusts'[k] = a
                                   \/ k \in DOMAIN adjusts /\ adjusts'[k] = adjusts[k]
    <3>1. /\ Len(adjusts) \in Nat
          /\ DOMAIN adjusts = 1..Len(adjusts) /\ DOMAIN adjusts' = 1..(Len(adjusts) + 1)
          /\ \A k \in 1..Len(adjusts) : adjusts'[k] = adjusts[k]
          /\ adjusts'[Len(adjusts) + 1] = a
      BY <1>0, <2>1
    <3>2. ASSUME NEW k \in DOMAIN adjusts', k # Len(adjusts) + 1 PROVE k \in 1..Len(adjusts)
      BY <3>1, <3>2
    <3> QED BY <3>1, <3>2
  <2> QED BY <2>1, <2>2, <2>3
<1>3. CASE CommitTransfer(h)
  <2>1. PICK a : transfers' = Append(transfers, a) /\ a.moves = req[h].moves /\ adjusts' = adjusts
    BY <1>3 DEF CommitTransfer
  <2>2. SumOf(a.moves) = 0
    BY <1>0, <1>3, <2>1 DEF CommitTransfer, Committing, Shape
  <2>3. \A k \in DOMAIN transfers' : \/ transfers'[k] = a
                                     \/ k \in DOMAIN transfers /\ transfers'[k] = transfers[k]
    <3>1. /\ Len(transfers) \in Nat
          /\ DOMAIN transfers = 1..Len(transfers) /\ DOMAIN transfers' = 1..(Len(transfers) + 1)
          /\ \A k \in 1..Len(transfers) : transfers'[k] = transfers[k]
          /\ transfers'[Len(transfers) + 1] = a
      BY <1>0, <2>1
    <3>2. ASSUME NEW k \in DOMAIN transfers', k # Len(transfers) + 1 PROVE k \in 1..Len(transfers)
      BY <3>1, <3>2
    <3> QED BY <3>1, <3>2
  <2> QED BY <2>1, <2>2, <2>3
<1>4. CASE CommitReverseAdjust(h)
  <2>1. adjusts' = [adjusts EXCEPT ![req[h].row].undone = @ + 1] /\ transfers' = transfers
    BY <1>4 DEF CommitReverseAdjust
  <2>2. DOMAIN adjusts' = DOMAIN adjusts /\ \A k \in DOMAIN adjusts : adjusts'[k].moves = adjusts[k].moves
    <3>1. \A k \in DOMAIN adjusts : adjusts[k] \in AdjustRow
      BY <1>0
    <3>2. \A a \in AdjustRow : \A n : [a EXCEPT !.undone = n].moves = a.moves
      BY DEF AdjustRow
    <3> QED BY <2>1, <3>1, <3>2
  <2> QED BY <2>1, <2>2
<1>5. CASE CommitReverseTransfer(h)
  <2>1. transfers' = [transfers EXCEPT ![req[h].row].undone = @ + 1] /\ adjusts' = adjusts
    BY <1>5 DEF CommitReverseTransfer
  <2>2. DOMAIN transfers' = DOMAIN transfers
        /\ \A k \in DOMAIN transfers : transfers'[k].moves = transfers[k].moves
    <3>1. \A k \in DOMAIN transfers : transfers[k] \in TransferRow
      BY <1>0
    <3>2. \A a \in TransferRow : \A n : [a EXCEPT !.undone = n].moves = a.moves
      BY DEF TransferRow
    <3> QED BY <2>1, <3>1, <3>2
  <2> QED BY <2>1, <2>2
<1> QED BY <1>1, <1>2, <1>3, <1>4, <1>5 DEF Commit, CommitDeliver, CommitUndeliver,
        CommitCancelDraft, CommitRemoveNote, FileNote, CommitUpdateLines, CommitComplete,
        CommitCancelCount, CommitReverseCompleted, CommitRemoveCount, FileCount,
        CommitReserve, CommitRelease

LEMMA IdleShape == Shape(Idle) /\ Fresh(Idle)
BY DEF Idle, Shape, Fresh

LEMMA NextShapes ==
  ASSUME IInv, Shapes, [Next]_vars
  PROVE  Shapes'
<1> USE DEF Shapes
<1>1. ASSUME NEW h \in Handlers, NEW r, Shape(r), req' = [req EXCEPT ![h] = r],
             UNCHANGED <<adjusts, transfers>>
      PROVE  Shapes'
  <2>1. req \in [Handlers -> Requests]
    BY DEF IInv, RequestsOK
  <2>2. \A g \in Handlers : req'[g] = IF g = h THEN r ELSE req[g]
    BY <1>1, <2>1
  <2> QED BY <1>1, <2>2 DEF Shape
<1>2. CASE UNCHANGED <<req, adjusts, transfers>>
  BY <1>2
<1>3. ASSUME NEW h \in Handlers, Check(h) PROVE Shapes'
  BY <1>1, <1>3, CheckShape, CheckQuiet DEF Serve
<1>4. ASSUME NEW h \in Handlers, WriteLevels(h) PROVE Shapes'
  <2> DEFINE r == [req[h] EXCEPT !.pc = "open"]
  <2>1. req[h] \in Requests
    BY DEF IInv, RequestsOK
  <2>2. /\ r.op = req[h].op /\ r.doc = req[h].doc /\ r.moves = req[h].moves
        /\ r.abs = req[h].abs
    BY <2>1 DEF Requests
  <2>3. req' = [req EXCEPT ![h] = r] /\ UNCHANGED <<adjusts, transfers>>
    BY <1>4 DEF WriteLevels, documents
  <2> HIDE DEF r
  <2>4. Shape(r)
    BY <2>2 DEF Shape
  <2> QED BY <1>1, <2>3, <2>4
<1>5. ASSUME NEW h \in Handlers, Fail(h) PROVE Shapes'
  BY <1>1, <1>5, IdleShape DEF Fail, Finish, documents
<1>6. ASSUME NEW h \in Handlers, Commit(h) PROVE Shapes'
  <2>1. req' = [req EXCEPT ![h] = Idle]
    BY <1>6, CommitFiles DEF Post, Finish
  <2>2. \A g \in Handlers : Shape(req'[g])
    <3>1. req \in [Handlers -> Requests]
      BY DEF IInv, RequestsOK
    <3> QED BY <2>1, <3>1, IdleShape
  <2> QED BY <1>6, <2>2, CommitLogs DEF Shape
<1> QED BY <1>2, <1>3, <1>4, <1>5, <1>6 DEF Next, CreateNote, CreateCount, vars

-----------------------------------------------------------------------------
\* The sum a transaction took over the rows it changes is the one its commit
\* shows.
Summed == \A h \in Handlers :
  req[h].pc = "open" /\ Touched(h) # {} => agg[h] = SumOf(After(h))
SumInv == IInv /\ Shapes /\ agg \in [Handlers -> Int] /\ Summed /\ TotalIsSum

\* What matters is that at most one transaction changes a row that another
\* one's sum is over: one request at a time, or one warehouse.
OneAtATime == (\A g, h \in Handlers : g = h) \/ (\A v, w \in Warehouses : v = w)

LEMMA LevelMoves == ASSUME IInv PROVE level \in Moves
BY QuantityIs DEF IInv, LevelOK, Moves

LEMMA AfterMoves ==
  ASSUME IInv, NEW h \in Handlers
  PROVE  After(h) \in Moves
<1>1. req[h].to \in Int /\ \A w \in Warehouses : level[w] \in Int /\ req[h].moves[w] \in Int
  BY QuantityIs DEF IInv, LevelOK, RequestsOK, RequestOK, Requests, Moves
<1> QED BY <1>1 DEF After, Moves

\* What a transaction that adds leaves of the sum.
LEMMA AddedSum ==
  ASSUME IInv, NEW h \in Handlers, ~req[h].abs
  PROVE  SumOf(After(h)) = SumOf(level) + SumOf(req[h].moves)
<1>1. req[h].moves \in Moves /\ level \in Moves /\ After(h) \in Moves
  BY LevelMoves, AfterMoves DEF IInv, RequestsOK, RequestOK, Requests
<1>2. \A w \in Warehouses : After(h)[w] = level[w] + req[h].moves[w]
  BY <1>1 DEF After, Touched, Moves
<1> QED BY <1>1, <1>2, SumAdd

LEMMA UntouchedSame ==
  ASSUME IInv, NEW h \in Handlers, Touched(h) = {}
  PROVE  After(h) = level
<1>1. level \in Moves
  BY LevelMoves
<1>2. \A w \in Warehouses : After(h)[w] = level[w]
  BY DEF After
<1> QED BY <1>1, <1>2 DEF After, Moves

\* The total each commit stores is the sum of the levels it shows.
LEMMA CommitSums ==
  ASSUME SumInv, NEW h \in Handlers, Commit(h)
  PROVE  total' = SumOf(After(h))
<1> USE DEF SumInv
<1>1. req[h].pc = "open" /\ Shape(req[h]) /\ total = SumOf(level) /\ total \in Int
      /\ (Touched(h) # {} => agg[h] = SumOf(After(h)))
  <2>1. SumOf(level) \in Int
    BY LevelMoves, SumInt
  <2> QED BY <2>1, CommitFiles DEF Shapes, Summed, TotalIsSum
<1>2. Touched(h) = {} => SumOf(After(h)) = total
  BY <1>1, UntouchedSame
<1>3. ASSUME \E w \in Warehouses : req[h].moves[w] # 0 PROVE Touched(h) # {}
  BY <1>3 DEF Touched
<1>4. CASE CommitAdjust(h) \/ CommitReverseAdjust(h)
  BY <1>1, <1>3, <1>4 DEF CommitAdjust, CommitReverseAdjust, Committing, Shape
<1>5. CASE CommitTransfer(h) \/ CommitReverseTransfer(h)
  <2>1. ~req[h].abs /\ SumOf(req[h].moves) = 0 /\ total' = total
    BY <1>1, <1>5 DEF CommitTransfer, CommitReverseTransfer, Committing, Shape
  <2>2. SumOf(After(h)) = SumOf(level) + SumOf(req[h].moves)
    BY <2>1, AddedSum
  <2> QED BY <1>1, <2>1, <2>2
<1>6. ASSUME NEW d \in Notes \cup Sales, NEW n \in Int, n # 0,
             req[h].moves = By(Wh[d], n)
      PROVE  Touched(h) # {}
  <2>1. Wh[d] \in Warehouses
    BY StockConstants
  <2>2. req[h].moves[Wh[d]] # 0
    BY <1>6, <2>1, SumBy
  <2> QED BY <1>3, <2>1, <2>2
<1>q. \A d \in Notes \cup Sales : Qty[d] \in Int /\ -Qty[d] \in Int /\ Qty[d] # 0 /\ -Qty[d] # 0
  <2>1. \A n \in Nat \ {0} : n \in Int /\ -n \in Int /\ n # 0 /\ -n # 0
    OBVIOUS
  <2> QED BY <2>1, StockConstants
<1>7. CASE CommitDeliver(h) \/ CommitUndeliver(h) \/ CommitRelease(h)
  BY <1>1, <1>6, <1>7, <1>q DEF CommitDeliver, CommitUndeliver, CommitRelease, Committing, Shape
<1>8. CASE \/ CommitCancelDraft(h) \/ CommitRemoveNote(h) \/ CommitUpdateLines(h)
           \/ CommitCancelCount(h) \/ CommitRemoveCount(h)
  <2>1. req[h].moves = Still /\ total' = total
    BY <1>1, <1>8 DEF CommitCancelDraft, CommitRemoveNote, CommitUpdateLines,
       CommitCancelCount, CommitRemoveCount, Committing, Shape
  <2>2. Touched(h) = {}
    BY <2>1 DEF Touched, Still
  <2> QED BY <1>2, <2>1, <2>2
<1>9. CASE CommitComplete(h) \/ CommitReverseCompleted(h)
  BY <1>1, <1>2, <1>9 DEF CommitComplete, CommitReverseCompleted, Recounted
<1>10. CASE CommitReserve(h)
  <2> DEFINE d == req[h].doc
  <2>1. /\ d \in Sales /\ ~req[h].abs /\ req[h].moves = By(Wh[d], -Qty[d])
        /\ total' = total - Qty[d]
    BY <1>1, <1>10 DEF CommitReserve, Committing, Shape
  <2>2. Wh[d] \in Warehouses
    BY <2>1, StockConstants
  <2>3. SumOf(req[h].moves) = -Qty[d]
    BY <1>q, <2>1, <2>2, SumBy
  <2>4. SumOf(After(h)) = SumOf(level) + SumOf(req[h].moves)
    BY <2>1, AddedSum
  <2> QED BY <1>1, <1>q, <2>1, <2>3, <2>4
<1> QED BY <1>4, <1>5, <1>7, <1>8, <1>9, <1>10 DEF Commit

LEMMA NextSumInv ==
  ASSUME SumInv, OneAtATime, [Next]_vars
  PROVE  SumInv'
<1> USE DEF SumInv
<1>1. IInv' /\ Shapes'
  BY NextIInv, NextShapes
<1>2. req \in [Handlers -> Requests]
  BY DEF IInv, RequestsOK

\* A request that opens nothing leaves the sums of those that have.
<1>3. ASSUME NEW h \in Handlers, NEW r, r.pc # "open", req' = [req EXCEPT ![h] = r],
             UNCHANGED <<level, total>>, agg' \in [Handlers -> Int],
             \A g \in Handlers \ {h} : agg'[g] = agg[g]
      PROVE  SumInv'
  <2>1. ASSUME NEW g \in Handlers, req'[g].pc = "open", Touched(g)' # {}
        PROVE  agg'[g] = SumOf(After(g)')
    <3>1. g # h /\ req'[g] = req[g]
      BY <1>2, <1>3, <2>1
    <3>2. Touched(g)' = Touched(g) /\ After(g)' = After(g)
      BY <1>3, <3>1 DEF Touched, After
    <3> QED BY <1>3, <2>1, <3>1, <3>2 DEF Summed
  <2>2. Summed'
    BY <2>1 DEF Summed
  <2> QED BY <1>1, <1>3, <2>2 DEF TotalIsSum
<1>4. CASE UNCHANGED <<level, total, req, agg>>
  BY <1>1, <1>4 DEF Summed, TotalIsSum, Touched, After
<1>5. ASSUME NEW h \in Handlers, Check(h) PROVE SumInv'
  <2>1. PICK r : Serve(h, r) /\ r.pc = "ready"
    BY <1>5, CheckShape
  <2>2. UNCHANGED <<level, total, agg>>
    BY <1>5, CheckQuiet
  <2> QED BY <1>3, <2>1, <2>2 DEF Serve
<1>6. ASSUME NEW h \in Handlers, Fail(h) PROVE SumInv'
  <2>1. /\ req' = [req EXCEPT ![h] = Idle] /\ agg' = [agg EXCEPT ![h] = 0]
        /\ UNCHANGED <<level, total>>
    BY <1>6 DEF Fail, Finish
  <2>2. Idle.pc # "open" /\ agg' \in [Handlers -> Int] /\ \A g \in Handlers \ {h} : agg'[g] = agg[g]
    BY <2>1 DEF Idle
  <2> QED BY <1>3, <2>1, <2>2
<1>7. ASSUME NEW h \in Handlers, WriteLevels(h) PROVE SumInv'
  <2>1. /\ req' = [req EXCEPT ![h].pc = "open"] /\ agg' = [agg EXCEPT ![h] = SumOf(After(h))]
        /\ UNCHANGED <<level, total>>
    BY <1>7 DEF WriteLevels
  <2>2. SumOf(After(h)) \in Int
    BY AfterMoves, SumInt
  <2>3. ASSUME NEW g \in Handlers, req'[g].pc = "open", Touched(g)' # {}
        PROVE  agg'[g] = SumOf(After(g)')
    <3>1. /\ req'[g].moves = req[g].moves /\ req'[g].abs = req[g].abs /\ req'[g].to = req[g].to
          /\ g # h => req'[g] = req[g]
      BY <1>2, <2>1 DEF Requests
    <3>2. Touched(g)' = Touched(g) /\ After(g)' = After(g)
      BY <2>1, <3>1 DEF Touched, After
    <3>3. CASE g = h
      BY <2>1, <3>2, <3>3
    <3>4. CASE g # h
      BY <2>1, <2>3, <3>1, <3>2, <3>4 DEF Summed
    <3> QED BY <3>3, <3>4
  <2>4. Summed'
    BY <2>3 DEF Summed
  <2> QED BY <1>1, <2>1, <2>2, <2>4 DEF TotalIsSum
<1>8. ASSUME NEW h \in Handlers, Commit(h) PROVE SumInv'
  <2>1. /\ req[h].pc = "open" /\ level' = After(h)
        /\ req' = [req EXCEPT ![h] = Idle] /\ agg' = [agg EXCEPT ![h] = 0]
    BY <1>8, CommitFiles DEF Post, Finish
  <2>2. total' = SumOf(level')
    BY <1>8, <2>1, CommitSums
  <2>3. ASSUME NEW g \in Handlers, req'[g].pc = "open", Touched(g)' # {}
        PROVE  agg'[g] = SumOf(After(g)')
    <3>1. g # h /\ req'[g] = req[g] /\ agg'[g] = agg[g]
      BY <1>2, <2>1, <2>3 DEF Idle
    <3>2. Touched(g)' = Touched(g) /\ Touched(g) # {}
      BY <2>3, <3>1 DEF Touched
    <3>3. Locked(g) \cap Locked(h) = {} /\ Locked(g) = Touched(g) /\ Locked(h) = Touched(h)
      BY <2>1, <2>3, <3>1 DEF IInv, Exclusive, Locked
    <3>4. Touched(h) = {}
      BY <3>1, <3>2, <3>3 DEF OneAtATime, Touched
    <3>5. level' = level
      BY <2>1, <3>4, UntouchedSame
    <3>6. After(g)' = After(g)
      BY <3>1, <3>2, <3>5 DEF After
    <3> QED BY <2>3, <3>1, <3>2, <3>6 DEF Summed
  <2>4. Summed'
    BY <2>3 DEF Summed
  <2> QED BY <1>1, <2>1, <2>2, <2>4 DEF TotalIsSum
<1> QED BY <1>4, <1>5, <1>6, <1>7, <1>8 DEF Next, CreateNote, CreateCount, vars

\* The total sales are checked against is the sum over the warehouses when one
\* request works at a time, and with one warehouse however many overlap.
THEOREM TotalFollowsRows ==
  ASSUME OneAtATime
  PROVE  Spec => []TotalIsSum
<1>1. Init => SumInv
  <2> SUFFICES ASSUME Init PROVE SumInv
    OBVIOUS
  <2>1. Shapes
    BY IdleShape DEF Init, Shapes
  <2>2. Summed
    BY DEF Init, Summed, Idle
  <2> QED BY <2>1, <2>2, InitIInv DEF Init, SumInv, TotalIsSum
<1>2. SumInv /\ [Next]_vars => SumInv'
  BY NextSumInv
<1>3. SumInv => TotalIsSum
  BY DEF SumInv
<1> QED BY <1>1, <1>2, <1>3, PTL DEF Spec

-----------------------------------------------------------------------------
\* The documents when one request works at a time.
CountsOK == \A c \in Counts :
  count[c].status \in {"absent", "DRAFT"} => ~count[c].completedAt /\ count[c].revRows = 0
DocInv ==
  /\ IInv /\ Shapes
  /\ note \in [Notes -> {"absent", "DRAFT", "DELIVERED", "CANCELLED", "removed"}]
  /\ noteOut \in [Notes -> Int]
  /\ \A h \in Handlers : Fresh(req[h])
  /\ CountsOK /\ NoteMovesStock /\ UndoneOnce /\ CompletedIsReversed

Alone == \A g, h \in Handlers : g = h

LEMMA FreshSame ==
  ASSUME NEW r, Fresh(r), UNCHANGED <<note, count, adjusts, transfers>>
  PROVE  Fresh(r)'
BY DEF Fresh

\* Filing a note by the request that read it.
LEMMA NoteFiled ==
  ASSUME DocInv, NEW h \in Handlers, req[h].pc = "open",
         NEW status \in {"DELIVERED", "CANCELLED", "removed"},
         FileNote(h, status), NEW n \in Notes, n = req[h].doc,
         LET out == req[h].moves[Wh[n]] IN
         \/ note[n] = "DRAFT" /\ status = "DELIVERED" /\ out = -Qty[n]
         \/ note[n] = "DELIVERED" /\ status = "CANCELLED" /\ out = Qty[n]
         \/ note[n] = "DRAFT" /\ status # "DELIVERED" /\ out = 0
  PROVE  /\ note' \in [Notes -> {"absent", "DRAFT", "DELIVERED", "CANCELLED", "removed"}]
         /\ noteOut' \in [Notes -> Int] /\ NoteMovesStock'
         /\ UNCHANGED <<count, adjusts, transfers>>
<1> USE DEF DocInv
<1>1. Qty[n] \in Nat \ {0} /\ Wh[n] \in Warehouses
  BY StockConstants
<1>2. req[h].moves[Wh[n]] \in Int
  BY <1>1 DEF IInv, RequestsOK, RequestOK, Requests, Moves
<1>3. /\ note' = [note EXCEPT ![n] = status]
      /\ noteOut' = [noteOut EXCEPT ![n] = noteOut[n] - req[h].moves[Wh[n]]]
      /\ UNCHANGED <<count, adjusts, transfers>>
  BY DEF FileNote
<1>4. noteOut[n] = IF note[n] = "DELIVERED" THEN Qty[n] ELSE 0
  BY DEF NoteMovesStock
<1>5. noteOut'[n] = IF status = "DELIVERED" THEN Qty[n] ELSE 0
  BY <1>1, <1>2, <1>3, <1>4
<1>6. noteOut' \in [Notes -> Int]
  BY <1>2, <1>3
<1>7. NoteMovesStock'
  BY <1>3, <1>5 DEF NoteMovesStock
<1> QED BY <1>3, <1>6, <1>7

\* Filing a count by the request that read it.
LEMMA CountFiled ==
  ASSUME DocInv, NEW h \in Handlers, NEW c \in Counts, c = req[h].doc,
         NEW row \in CountRow, FileCount(h, row),
         row.status \in {"absent", "DRAFT"} => ~row.completedAt /\ row.revRows = 0,
         row.completedAt =>
           \/ row.status = "COMPLETED" /\ row.revRows = 0
           \/ /\ row.status = "CANCELLED"
              /\ row.revRows = IF row.counted = row.system THEN 0 ELSE 1
  PROVE  /\ CountsOK' /\ CompletedIsReversed'
         /\ UNCHANGED <<note, noteOut, adjusts, transfers>>
<1>1. /\ \A d \in Counts : count'[d] = IF d = c THEN row ELSE count[d]
      /\ UNCHANGED <<note, noteOut, adjusts, transfers>>
  BY DEF FileCount, DocInv, IInv, RowsOK
<1> QED BY <1>1 DEF DocInv, CountsOK, CompletedIsReversed

\* Every commit leaves the documents as they should be.
LEMMA CommitDocs ==
  ASSUME DocInv, NEW h \in Handlers, Commit(h)
  PROVE  /\ note' \in [Notes -> {"absent", "DRAFT", "DELIVERED", "CANCELLED", "removed"}]
         /\ noteOut' \in [Notes -> Int]
         /\ CountsOK' /\ NoteMovesStock' /\ UndoneOnce' /\ CompletedIsReversed'
<1> DEFINE r == req[h]
<1> USE DEF DocInv
<1>1. r \in Requests /\ r.pc = "open" /\ Shape(r) /\ Fresh(r) /\ RowsOK /\ RowsOK'
  BY CommitFiles DEF Shapes, IInv, RequestsOK, RequestOK
<1>2. ASSUME UNCHANGED <<note, noteOut>> PROVE NoteMovesStock'
  BY <1>2 DEF NoteMovesStock
<1>3. ASSUME UNCHANGED <<adjusts, transfers>> PROVE UndoneOnce'
  BY <1>3 DEF UndoneOnce
<1>4. ASSUME UNCHANGED count PROVE CountsOK' /\ CompletedIsReversed'
  BY <1>4 DEF CountsOK, CompletedIsReversed
<1>5. \A w \in Warehouses : Still[w] = 0
  BY DEF Still
<1>6. CASE CommitAdjust(h)
  <2>1. PICK a : adjusts' = Append(adjusts, a) /\ a.undone = 0 /\ transfers' = transfers
    BY <1>6 DEF CommitAdjust
  <2>2. \A k \in DOMAIN adjusts' : adjusts'[k] = a \/ (k \in DOMAIN adjusts /\ adjusts'[k] = adjusts[k])
    <3>0. adjusts \in Seq(AdjustRow)
      BY <1>1 DEF RowsOK
    <3>1. /\ Len(adjusts) \in Nat
          /\ DOMAIN adjusts = 1..Len(adjusts) /\ DOMAIN adjusts' = 1..(Len(adjusts) + 1)
          /\ \A k \in 1..Len(adjusts) : adjusts'[k] = adjusts[k]
          /\ adjusts'[Len(adjusts) + 1] = a
      BY <2>1, <3>0
    <3>2. ASSUME NEW k \in DOMAIN adjusts', k # Len(adjusts) + 1 PROVE k \in 1..Len(adjusts)
      BY <3>1, <3>2
    <3> QED BY <3>1, <3>2
  <2>3. UndoneOnce'
    BY <2>1, <2>2 DEF UndoneOnce
  <2> QED BY <1>2, <1>4, <1>6, <2>3 DEF CommitAdjust
<1>7. CASE CommitReverseAdjust(h)
  <2>1. /\ adjusts' = [adjusts EXCEPT ![r.row].undone = @ + 1] /\ transfers' = transfers
        /\ r.row \in DOMAIN adjusts /\ adjusts[r.row].undone = 0
    BY <1>1, <1>7 DEF CommitReverseAdjust, Committing, Fresh
  <2>2. \A k \in DOMAIN adjusts : adjusts[k] \in AdjustRow
    BY <1>1 DEF RowsOK
  <2>3. \A a \in AdjustRow : [a EXCEPT !.undone = a.undone + 1].undone = a.undone + 1
    BY DEF AdjustRow
  <2>4. DOMAIN adjusts' = DOMAIN adjusts
        /\ \A k \in DOMAIN adjusts : adjusts'[k].undone = IF k = r.row THEN 1 ELSE adjusts[k].undone
    BY <2>1, <2>2, <2>3
  <2>5. UndoneOnce'
    BY <2>1, <2>4 DEF UndoneOnce
  <2> QED BY <1>2, <1>4, <1>7, <2>5 DEF CommitReverseAdjust
<1>8. CASE CommitTransfer(h)
  <2>1. PICK a : transfers' = Append(transfers, a) /\ a.undone = 0 /\ adjusts' = adjusts
    BY <1>8 DEF CommitTransfer
  <2>2. \A k \in DOMAIN transfers' :
          transfers'[k] = a \/ (k \in DOMAIN transfers /\ transfers'[k] = transfers[k])
    <3>0. transfers \in Seq(TransferRow)
      BY <1>1 DEF RowsOK
    <3>1. /\ Len(transfers) \in Nat
          /\ DOMAIN transfers = 1..Len(transfers) /\ DOMAIN transfers' = 1..(Len(transfers) + 1)
          /\ \A k \in 1..Len(transfers) : transfers'[k] = transfers[k]
          /\ transfers'[Len(transfers) + 1] = a
      BY <2>1, <3>0
    <3>2. ASSUME NEW k \in DOMAIN transfers', k # Len(transfers) + 1 PROVE k \in 1..Len(transfers)
      BY <3>1, <3>2
    <3> QED BY <3>1, <3>2
  <2>3. UndoneOnce'
    BY <2>1, <2>2 DEF UndoneOnce
  <2> QED BY <1>2, <1>4, <1>8, <2>3 DEF CommitTransfer
<1>9. CASE CommitReverseTransfer(h)
  <2>1. /\ transfers' = [transfers EXCEPT ![r.row].undone = @ + 1] /\ adjusts' = adjusts
        /\ r.row \in DOMAIN transfers /\ transfers[r.row].undone = 0
    BY <1>1, <1>9 DEF CommitReverseTransfer, Committing, Fresh
  <2>2. \A k \in DOMAIN transfers : transfers[k] \in TransferRow
    BY <1>1 DEF RowsOK
  <2>3. \A a \in TransferRow : [a EXCEPT !.undone = a.undone + 1].undone = a.undone + 1
    BY DEF TransferRow
  <2>4. DOMAIN transfers' = DOMAIN transfers
        /\ \A k \in DOMAIN transfers :
             transfers'[k].undone = IF k = r.row THEN 1 ELSE transfers[k].undone
    BY <2>1, <2>2, <2>3
  <2>5. UndoneOnce'
    BY <2>1, <2>4 DEF UndoneOnce
  <2> QED BY <1>2, <1>4, <1>9, <2>5 DEF CommitReverseTransfer
<1>10. ASSUME CommitDeliver(h) \/ CommitUndeliver(h) \/ CommitCancelDraft(h) \/ CommitRemoveNote(h)
       PROVE  /\ note' \in [Notes -> {"absent", "DRAFT", "DELIVERED", "CANCELLED", "removed"}]
              /\ noteOut' \in [Notes -> Int] /\ NoteMovesStock'
              /\ UNCHANGED <<count, adjusts, transfers>>
  <2> DEFINE n == r.doc
             out == r.moves[Wh[n]]
  <2>1. n \in Notes /\ Qty[n] \in Int /\ -Qty[n] \in Int /\ Wh[n] \in Warehouses
    <3>1. n \in Notes
      BY <1>1, <1>10 DEF CommitDeliver, CommitUndeliver, CommitCancelDraft, CommitRemoveNote,
         Committing, Shape
    <3>2. \A q \in Nat : q \in Int /\ -q \in Int
      OBVIOUS
    <3> QED BY <3>1, <3>2, StockConstants
  <2>2. CASE CommitDeliver(h)
    <3>1. note[n] = "DRAFT" /\ out = -Qty[n] /\ FileNote(h, "DELIVERED")
      BY <1>1, <2>1, <2>2, SumBy DEF CommitDeliver, Committing, Shape, Fresh
    <3> QED BY <1>1, <2>1, <3>1, NoteFiled
  <2>3. CASE CommitUndeliver(h)
    <3>1. note[n] = "DELIVERED" /\ out = Qty[n] /\ FileNote(h, "CANCELLED")
      BY <1>1, <2>1, <2>3, SumBy DEF CommitUndeliver, Committing, Shape, Fresh
    <3> QED BY <1>1, <2>1, <3>1, NoteFiled
  <2>4. CASE CommitCancelDraft(h)
    <3>1. note[n] = "DRAFT" /\ out = 0 /\ FileNote(h, "CANCELLED")
      BY <1>1, <1>5, <2>1, <2>4 DEF CommitCancelDraft, Committing, Shape, Fresh
    <3> QED BY <1>1, <2>1, <3>1, NoteFiled
  <2>5. CASE CommitRemoveNote(h)
    <3>1. note[n] = "DRAFT" /\ out = 0 /\ FileNote(h, "removed")
      BY <1>1, <1>5, <2>1, <2>5 DEF CommitRemoveNote, Committing, Shape, Fresh
    <3> QED BY <1>1, <2>1, <3>1, NoteFiled
  <2> QED BY <1>10, <2>2, <2>3, <2>4, <2>5
<1>11. ASSUME \/ CommitUpdateLines(h) \/ CommitComplete(h) \/ CommitCancelCount(h)
              \/ CommitReverseCompleted(h) \/ CommitRemoveCount(h)
       PROVE  CountsOK' /\ CompletedIsReversed' /\ UNCHANGED <<note, noteOut, adjusts, transfers>>
  <2> DEFINE c == r.doc
             row == count[c]
  <2>1. c \in Counts
    BY <1>1, <1>11 DEF CommitUpdateLines, CommitComplete, CommitCancelCount,
       CommitReverseCompleted, CommitRemoveCount, Committing, Shape
  <2>2. row \in CountRow /\ row = RowOf(h) /\ r.to \in Int
    BY <1>1, <2>1 DEF RowsOK, RowOf, Requests
  <2>3. /\ row.status \in {"absent", "DRAFT"} => ~row.completedAt /\ row.revRows = 0
        /\ row.completedAt =>
             \/ row.status = "COMPLETED" /\ row.revRows = 0
             \/ /\ row.status = "CANCELLED"
                /\ row.revRows = IF row.counted = row.system THEN 0 ELSE 1
    BY <2>1 DEF CountsOK, CompletedIsReversed
  <2>4. CASE CommitUpdateLines(h)
    <3> DEFINE new == [row EXCEPT !.counted = r.to]
    <3>1. FileCount(h, new) /\ row.status = "DRAFT"
      BY <1>1, <2>2, <2>4 DEF CommitUpdateLines, Committing, Fresh
    <3>2. /\ new \in CountRow /\ new.status = row.status /\ new.completedAt = row.completedAt
          /\ new.revRows = row.revRows
      BY <2>2 DEF CountRow
    <3> HIDE DEF new
    <3> QED BY <2>1, <2>3, <3>1, <3>2, CountFiled
  <2>5. CASE CommitComplete(h)
    <3> DEFINE new == [row EXCEPT !.status = "COMPLETED", !.completedAt = TRUE]
    <3>1. FileCount(h, new) /\ row.status = "DRAFT"
      BY <1>1, <2>2, <2>5 DEF CommitComplete, Committing, Fresh
    <3>2. new \in CountRow /\ new.status = "COMPLETED" /\ new.revRows = row.revRows
      BY <2>2 DEF CountRow, CountStatus
    <3> HIDE DEF new
    <3> QED BY <2>1, <2>3, <3>1, <3>2, CountFiled
  <2>6. CASE CommitCancelCount(h)
    <3> DEFINE new == [row EXCEPT !.status = "CANCELLED"]
    <3>1. FileCount(h, new) /\ row.status \in {"DRAFT", "CANCELLED"}
      BY <1>1, <2>2, <2>6 DEF CommitCancelCount, Committing, Fresh
    <3>2. /\ new \in CountRow /\ new.status = "CANCELLED" /\ new.completedAt = row.completedAt
          /\ new.revRows = row.revRows /\ new.counted = row.counted /\ new.system = row.system
      BY <2>2 DEF CountRow, CountStatus
    <3> HIDE DEF new
    <3> QED BY <2>1, <2>3, <3>1, <3>2, CountFiled
  <2>7. CASE CommitReverseCompleted(h)
    <3> DEFINE rows == IF Touched(h) = {} THEN row.revRows ELSE row.revRows + 1
               new == [row EXCEPT !.status = "CANCELLED", !.revRows = rows]
    <3>1. /\ FileCount(h, new) /\ row.status = "COMPLETED" /\ row.revRows = 0
          /\ r.moves = By(Wh[c], row.system - row.counted)
      BY <1>1, <2>2, <2>7 DEF CommitReverseCompleted, Committing, Fresh
    <3>2. rows = IF row.counted = row.system THEN 0 ELSE 1
      <4>1. row.system \in Int /\ row.counted \in Int /\ Wh[c] \in Warehouses
        BY <2>1, <2>2, StockConstants DEF CountRow
      <4>2. \A w \in Warehouses : r.moves[w] = IF w = Wh[c] THEN row.system - row.counted ELSE 0
        BY <3>1, <4>1 DEF By, Still
      <4>3. Touched(h) = {} <=> row.system = row.counted
        BY <4>1, <4>2 DEF Touched
      <4> QED BY <3>1, <4>3
    <3> HIDE DEF rows
    <3>3. rows \in Nat
      BY <3>2
    <3>4. /\ new \in CountRow /\ new.status = "CANCELLED" /\ new.revRows = rows
          /\ new.counted = row.counted /\ new.system = row.system
      BY <2>2, <3>3 DEF CountRow, CountStatus
    <3> HIDE DEF new
    <3> QED BY <2>1, <3>1, <3>2, <3>4, CountFiled
  <2>8. CASE CommitRemoveCount(h)
    <3> DEFINE new == [row EXCEPT !.status = "removed"]
    <3>1. FileCount(h, new) /\ ~row.completedAt
      BY <1>1, <2>2, <2>8 DEF CommitRemoveCount, Committing, Fresh
    <3>2. new \in CountRow /\ new.status = "removed" /\ new.completedAt = row.completedAt
      BY <2>2 DEF CountRow, CountStatus
    <3> HIDE DEF new
    <3> QED BY <2>1, <3>1, <3>2, CountFiled
  <2> QED BY <1>11, <2>4, <2>5, <2>6, <2>7, <2>8
<1>12. CASE CommitReserve(h) \/ CommitRelease(h)
  BY <1>2, <1>3, <1>4, <1>12 DEF CommitReserve, CommitRelease
<1> QED BY <1>2, <1>3, <1>4, <1>6, <1>7, <1>8, <1>9, <1>10, <1>11, <1>12 DEF Commit

LEMMA NextDocInv ==
  ASSUME DocInv, Alone, [Next]_vars
  PROVE  DocInv'
<1> USE DEF DocInv
<1>1. IInv' /\ Shapes' /\ req \in [Handlers -> Requests]
  BY NextIInv, NextShapes DEF IInv, RequestsOK
<1>2. ASSUME UNCHANGED <<note, noteOut, count, adjusts, transfers>>,
             \A g \in Handlers : Fresh(req'[g])
      PROVE  DocInv'
  <2>1. \A g \in Handlers : Fresh(req[g])'
    BY <1>2 DEF Fresh
  <2> QED BY <1>1, <1>2, <2>1 DEF CountsOK, NoteMovesStock, UndoneOnce, CompletedIsReversed
<1>3. ASSUME NEW h \in Handlers, Check(h) PROVE DocInv'
  <2>1. PICK r : Serve(h, r) /\ Fresh(r)
    BY <1>3, CheckShape
  <2>2. \A g \in Handlers : Fresh(req'[g])
    BY <1>1, <2>1 DEF Serve
  <2> QED BY <1>2, <1>3, <2>2, CheckQuiet
<1>4. ASSUME NEW h \in Handlers, WriteLevels(h) PROVE DocInv'
  <2>1. req' = [req EXCEPT ![h].pc = "open"] /\ UNCHANGED documents
    BY <1>4 DEF WriteLevels
  <2>2. ASSUME NEW g \in Handlers PROVE Fresh(req'[g])
    <3>1. /\ req'[g].op = req[g].op /\ req'[g].doc = req[g].doc
          /\ req'[g].row = req[g].row /\ req'[g].moves = req[g].moves
      BY <1>1, <2>1 DEF Requests
    <3>2. Fresh(req[g])
      OBVIOUS
    <3> QED BY <3>1, <3>2 DEF Fresh
  <2> QED BY <1>2, <2>1, <2>2 DEF documents
<1>5. ASSUME NEW h \in Handlers, Fail(h) PROVE DocInv'
  <2>1. req' = [req EXCEPT ![h] = Idle] /\ UNCHANGED documents
    BY <1>5 DEF Fail, Finish
  <2>2. \A g \in Handlers : Fresh(req'[g])
    BY <1>1, <2>1, IdleShape
  <2> QED BY <1>2, <2>1, <2>2 DEF documents
<1>6. ASSUME NEW h \in Handlers, Commit(h) PROVE DocInv'
  <2>1. req' = [req EXCEPT ![h] = Idle]
    BY <1>6, CommitFiles DEF Post, Finish
  <2>2. ASSUME NEW g \in Handlers PROVE Fresh(req[g])'
    <3>1. g = h
      BY DEF Alone
    <3>2. req'[g] = Idle
      BY <1>1, <2>1, <3>1
    <3> QED BY <3>2 DEF Fresh, Idle
  <2> QED BY <1>1, <1>6, <2>2, CommitDocs

\* A document that appears is not the one being worked on.
<1>7. ASSUME NEW n \in Notes, CreateNote(n) PROVE DocInv'
  <2>1. /\ note[n] = "absent" /\ note' = [note EXCEPT ![n] = "DRAFT"]
        /\ UNCHANGED <<noteOut, count, adjusts, transfers, req>>
    BY <1>7 DEF CreateNote
  <2>2. note' \in [Notes -> {"absent", "DRAFT", "DELIVERED", "CANCELLED", "removed"}]
        /\ NoteMovesStock'
    BY <2>1 DEF NoteMovesStock
  <2>3. ASSUME NEW g \in Handlers PROVE Fresh(req[g])'
    <3>1. Fresh(req[g]) /\ Shape(req[g]) /\ req'[g] = req[g]
      BY <2>1 DEF Shapes
    <3>2. note[req[g].doc] \in {"DRAFT", "DELIVERED"} => note'[req[g].doc] = note[req[g].doc]
      BY <2>1
    <3> QED BY <2>1, <3>1, <3>2 DEF Fresh
  <2> QED BY <1>1, <2>1, <2>2, <2>3 DEF CountsOK, UndoneOnce, CompletedIsReversed
<1>8. ASSUME NEW c \in Counts, CreateCount(c) PROVE DocInv'
  <2> DEFINE row == [status |-> "DRAFT", system |-> level[Wh[c]],
                     counted |-> level[Wh[c]], completedAt |-> FALSE, revRows |-> 0]
  <2>1. count' = [count EXCEPT ![c] = row] /\ ~row.completedAt /\ row.revRows = 0
    BY <1>8 DEF CreateCount
  <2> HIDE DEF row
  <2>2. count[c].status = "absent" /\ UNCHANGED <<note, noteOut, adjusts, transfers, req>>
    BY <1>8 DEF CreateCount
  <2>3. \A d \in Counts : count'[d] = IF d = c THEN row ELSE count[d]
    BY <2>1 DEF IInv, RowsOK
  <2>4. CountsOK' /\ CompletedIsReversed'
    BY <2>1, <2>3 DEF CountsOK, CompletedIsReversed
  <2>5. ASSUME NEW g \in Handlers PROVE Fresh(req[g])'
    <3>1. Fresh(req[g]) /\ req'[g] = req[g]
      BY <2>2
    <3>2. count[req[g].doc].status \in {"DRAFT", "COMPLETED", "CANCELLED"}
            => count'[req[g].doc] = count[req[g].doc]
      BY <2>1, <2>2
    <3> QED BY <2>2, <3>1, <3>2 DEF Fresh
  <2> QED BY <1>1, <2>2, <2>4, <2>5 DEF NoteMovesStock, UndoneOnce
<1>9. CASE UNCHANGED vars
  BY <1>2, <1>9 DEF vars
<1> QED BY <1>3, <1>4, <1>5, <1>6, <1>7, <1>8, <1>9 DEF Next

LEMMA AlwaysDocInv ==
  ASSUME Alone
  PROVE  Spec => []DocInv
<1>1. Init => DocInv
  <2> SUFFICES ASSUME Init PROVE DocInv
    OBVIOUS
  <2>1. Shapes /\ \A h \in Handlers : Fresh(req[h])
    BY IdleShape DEF Init, Shapes
  <2>2. CountsOK /\ NoteMovesStock /\ UndoneOnce /\ CompletedIsReversed
    BY DEF Init, CountsOK, NoteMovesStock, UndoneOnce, CompletedIsReversed
  <2> QED BY <2>1, <2>2, InitIInv DEF Init, DocInv
<1>2. DocInv /\ [Next]_vars => DocInv'
  BY NextDocInv
<1> QED BY <1>1, <1>2, PTL DEF Spec

\* Requests one at a time, failing anywhere: a delivery note has taken its
\* quantity out of stock exactly while it is DELIVERED.
THEOREM DeliveredIsTaken ==
  ASSUME Alone
  PROVE  Spec => []NoteMovesStock
<1>1. DocInv => NoteMovesStock
  BY DEF DocInv
<1> QED BY <1>1, AlwaysDocInv, PTL

\* Requests one at a time: nothing is reversed twice.
THEOREM ReversedOnce ==
  ASSUME Alone
  PROVE  Spec => []UndoneOnce
<1>1. DocInv => UndoneOnce
  BY DEF DocInv
<1> QED BY <1>1, AlwaysDocInv, PTL

\* Requests one at a time: a count that was completed leaves that state by one
\* reversal and stays.
THEOREM CountReversedOnce ==
  ASSUME Alone
  PROVE  Spec => []CompletedIsReversed
<1>1. DocInv => CompletedIsReversed
  BY DEF DocInv
<1> QED BY <1>1, AlwaysDocInv, PTL
=============================================================================
