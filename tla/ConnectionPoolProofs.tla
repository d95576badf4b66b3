------------------------- MODULE ConnectionPoolProofs -------------------------
(* Safety of ConnectionPool for any number of requests, any size of the pool and any *)
(* warehouses: what it takes to bring the API to a standstill, and to build a cycle   *)
(* of row locks.                                                                     *)
EXTENDS ConnectionPool, FiniteSetTheorems, SequenceTheorems, TLAPS

-----------------------------------------------------------------------------
(* The handlers *)

LEMMA RankingShape ==
  ASSUME NEW q \in Rankings
  PROVE  /\ q \in Seq(Warehouses) /\ Len(q) \in Nat
         /\ \A i \in 1 .. Len(q) : q[i] \in Warehouses
         /\ \A i, j \in 1 .. Len(q) : q[i] = q[j] => i = j
         /\ Len(q) = 0 <=> q = <<>>
  <1>1. PICK n \in 0 .. Cardinality(Warehouses) :
          /\ q \in [1 .. n -> Warehouses]
          /\ \A i, j \in 1 .. n : q[i] = q[j] => i = j
    BY DEF Rankings
  <1>2. n \in Nat /\ q \in Seq(Warehouses) /\ Len(q) = n
    BY <1>1
  <1> QED BY <1>1, <1>2, EmptySeq

(* The place of a warehouse in a ranking, 0 when it has none. *)
Place(Q, w) ==
  IF \E i \in 1 .. Len(Q) : Q[i] = w THEN CHOOSE i \in 1 .. Len(Q) : Q[i] = w ELSE 0

LEMMA PlaceFacts ==
  ASSUME NEW Q \in Rankings
  PROVE  /\ \A w : Place(Q, w) \in 0 .. Len(Q)
         /\ \A i \in 1 .. Len(Q) : Place(Q, Q[i]) = i
  <1>1. \A w : (\E i \in 1 .. Len(Q) : Q[i] = w) =>
                 Place(Q, w) \in 1 .. Len(Q) /\ Q[Place(Q, w)] = w
    BY DEF Place
  <1>2. \A w : ~(\E i \in 1 .. Len(Q) : Q[i] = w) => Place(Q, w) = 0
    BY DEF Place
  <1>3. Len(Q) \in Nat /\ \A i, j \in 1 .. Len(Q) : Q[i] = Q[j] => i = j
    BY RankingShape
  <1>4. \A w : Place(Q, w) \in 0 .. Len(Q)
    BY <1>1, <1>2, <1>3
  <1>5. \A i \in 1 .. Len(Q) : Place(Q, Q[i]) = i
    BY <1>1, <1>3
  <1> QED BY <1>4, <1>5

(* The order in which most handlers lock rows, the warehouses as in the ranking Q. *)
Rank(Q, lock) ==
  CASE lock.table = "shop" -> 0
    [] lock.table = "warehouse" -> 1 + Place(Q, lock.of)
    [] lock.table = "inventory" -> Len(Q) + 2 + Place(Q, lock.of)
    [] lock.table = "product" -> Len(Q) + Len(Q) + 3
    [] OTHER -> Len(Q) + Len(Q) + 4

(* A foreign key to the product blocks nothing but the product's removal. *)
Light(lock) == lock.table = "product" /\ lock.mode = KeyShare

(* A handler begins its transaction with its first statement and does the rest in it;
   only an operator's inventory update queries meanwhile. *)
WellFormed(k, steps) ==
  /\ Len(steps) \in Nat /\ Len(steps) >= 2
  /\ \A i \in 1 .. Len(steps) :
       /\ steps[i].op \in {"query", "begin", "read", "lock"}
       /\ steps[i].mode \in 0 .. 4
       /\ steps[i].op = "begin" <=> i = 1
       /\ steps[i].op = "query" <=> i = 3 /\ k = "updateInventory"
       /\ steps[i].op = "read" <=> i = 4 /\ k = "createOrder"
       /\ steps[i].table = "product" /\ steps[i].mode = Update => k = "archiveProduct"

Ascending(Q, steps) ==
  \A i, j \in 1 .. Len(steps) :
    i < j /\ steps[i].op = "lock" /\ steps[j].op = "lock" /\ ~Light(steps[i]) =>
      Rank(Q, steps[i]) < Rank(Q, steps[j])

LEMMA Modes == KeyShare = 1 /\ Share = 2 /\ NoKeyUpdate = 3 /\ Update = 4
  BY DEF KeyShare, Share, NoKeyUpdate, Update

LEMMA EachFacts ==
  ASSUME NEW mode, NEW table, NEW W, NEW ws \in Seq(W), NEW T,
         \A w \in W : Lock(mode, table, w) \in T
  PROVE  /\ Each(mode, table, ws) \in Seq(T)
         /\ Len(Each(mode, table, ws)) = Len(ws)
         /\ \A i \in 1 .. Len(ws) : Each(mode, table, ws)[i] = Lock(mode, table, ws[i])
  <1>1. Len(ws) \in Nat /\ \A i \in 1 .. Len(ws) : ws[i] \in W
    OBVIOUS
  <1> DEFINE e == [i \in 1 .. Len(ws) |-> Lock(mode, table, ws[i])]
  <1>2. e \in [1 .. Len(ws) -> T] /\ \A i \in 1 .. Len(ws) : e[i] = Lock(mode, table, ws[i])
    BY <1>1, Zenon
  <1>3. Each(mode, table, ws) = e
    BY DEF Each
  <1> HIDE DEF e
  <1>4. e \in Seq(T) /\ Len(e) = Len(ws)
    BY <1>1, <1>2
  <1> QED BY <1>2, <1>3, <1>4

(* The statements of the creation of an order whose allocation saw the warehouses ws
   and looked into the first n. *)
LEMMA CreateOrderShape ==
  ASSUME NEW ws \in Rankings, NEW n \in 0 .. Len(ws), NEW s, s = CreateOrderSteps(ws, n)
  PROVE  /\ Len(s) = 4 + Len(ws) + n + (IF n = 0 THEN 0 ELSE 1)
         /\ s[1] = Begin /\ s[2] = Shop(KeyShare) /\ s[3] = Product(KeyShare) /\ s[4] = Read
         /\ \A i \in 1 .. Len(ws) : s[4 + i] = Lock(Update, "warehouse", ws[i])
         /\ \A i \in 1 .. n : s[4 + Len(ws) + i] = Lock(Update, "inventory", ws[i])
         /\ n > 0 => s[4 + Len(ws) + n + 1] = Product(NoKeyUpdate)
  <1> DEFINE u == NoWarehouse
             a == Begin
             b == Shop(KeyShare)
             c == Product(KeyShare)
             d == Read
             F == <<a, b, c, d>>
             W == Each(Update, "warehouse", ws)
             v == SubSeq(ws, 1, n)
             I == Each(Update, "inventory", v)
             e == IF n = 0 THEN <<>> ELSE <<u>>
             P == Each(NoKeyUpdate, "product", e)
             T == {a, b, c, d, Lock(NoKeyUpdate, "product", u)}
                    \cup {Lock(Update, "warehouse", w) : w \in Warehouses}
                    \cup {Lock(Update, "inventory", w) : w \in Warehouses}
             N == Len(ws)
             p == IF n = 0 THEN 0 ELSE 1
  <1>1. ws \in Seq(Warehouses) /\ N \in Nat
    BY RankingShape
  <1>2. n \in Nat /\ n <= N
    BY <1>1
  <1>3. v \in Seq(Warehouses) /\ Len(v) = n /\ \A i \in 1 .. n : v[i] = ws[i]
    BY <1>1, <1>2
  <1>5. s = ((F \o W) \o I) \o P
    BY DEF CreateOrderSteps
  <1>6. /\ a \in T /\ b \in T /\ c \in T /\ d \in T
        /\ \A w \in Warehouses : Lock(Update, "warehouse", w) \in T
        /\ \A w \in Warehouses : Lock(Update, "inventory", w) \in T
        /\ \A w \in {u} : Lock(NoKeyUpdate, "product", w) \in T
    BY Zenon
  <1>7. Lock(NoKeyUpdate, "product", u) = Product(NoKeyUpdate)
    BY DEF Product
  <1>8. N = Len(ws) /\ a = Begin /\ b = Shop(KeyShare) /\ c = Product(KeyShare) /\ d = Read
    OBVIOUS
  <1>9. p \in Nat /\ (n = 0 => p = 0) /\ (n > 0 => p = 1)
    BY <1>2
  <1> HIDE DEF T, u
  <1>4. e \in Seq({u}) /\ Len(e) = p /\ (n > 0 => e[1] = u)
    <2>1. CASE n = 0
      BY <2>1
    <2>2. CASE n # 0
      BY <2>2
    <2> QED BY <2>1, <2>2
  <1> HIDE DEF e, v, a, b, c, d
  <1>10. F \in Seq(T) /\ Len(F) = 4 /\ F[1] = a /\ F[2] = b /\ F[3] = c /\ F[4] = d
    <2>1. a \in T /\ b \in T /\ c \in T /\ d \in T
      BY <1>6
    <2> QED BY <2>1
  <1>11. W \in Seq(T) /\ Len(W) = N /\ \A i \in 1 .. N : W[i] = Lock(Update, "warehouse", ws[i])
    BY <1>1, <1>6, EachFacts
  <1>12. I \in Seq(T) /\ Len(I) = n /\ \A i \in 1 .. n : I[i] = Lock(Update, "inventory", ws[i])
    <2>1. /\ I \in Seq(T) /\ Len(I) = Len(v)
          /\ \A i \in 1 .. Len(v) : I[i] = Lock(Update, "inventory", v[i])
      BY <1>3, <1>6, EachFacts
    <2> HIDE DEF I
    <2> QED BY <1>3, <2>1
  <1>13. P \in Seq(T) /\ Len(P) = p /\ (n > 0 => P[1] = Lock(NoKeyUpdate, "product", u))
    <2>1. /\ P \in Seq(T) /\ Len(P) = Len(e)
          /\ \A i \in 1 .. Len(e) : P[i] = Lock(NoKeyUpdate, "product", e[i])
      BY <1>4, <1>6, EachFacts
    <2>2. n > 0 => 1 \in 1 .. p
      BY <1>9
    <2> HIDE DEF P, p
    <2> QED BY <1>4, <2>1, <2>2
  <1> HIDE DEF F, W, I, P, N, p
  <1> DEFINE FW == F \o W
             FWI == FW \o I
  <1>14. /\ FW \in Seq(T) /\ Len(FW) = 4 + N
         /\ \A i \in 1 .. 4 : FW[i] = F[i]
         /\ \A i \in 1 .. N : FW[4 + i] = W[i]
    <2>1. F \in Seq(T) /\ W \in Seq(T)
      BY <1>10, <1>11
    <2>2. /\ F \o W \in Seq(T) /\ Len(F \o W) = Len(F) + Len(W)
          /\ \A i \in 1 .. Len(F) : (F \o W)[i] = F[i]
          /\ \A i \in 1 .. Len(W) : (F \o W)[Len(F) + i] = W[i]
      BY <2>1
    <2>3. /\ FW \in Seq(T) /\ Len(FW) = Len(F) + Len(W)
          /\ \A i \in 1 .. Len(F) : FW[i] = F[i]
          /\ \A i \in 1 .. Len(W) : FW[Len(F) + i] = W[i]
      BY <2>2, Zenon
    <2> HIDE DEF FW
    <2> QED BY <1>10, <1>11, <2>3
  <1>15. s = FWI \o P
    BY <1>5
  <1> HIDE DEF FW
  <1>16. /\ FWI \in Seq(T) /\ Len(FWI) = 4 + N + n
         /\ \A i \in 1 .. 4 + N : FWI[i] = FW[i]
         /\ \A i \in 1 .. n : FWI[4 + N + i] = I[i]
    <2>1. FW \in Seq(T) /\ I \in Seq(T)
      BY <1>12, <1>14
    <2>2. /\ FW \o I \in Seq(T) /\ Len(FW \o I) = Len(FW) + Len(I)
          /\ \A i \in 1 .. Len(FW) : (FW \o I)[i] = FW[i]
          /\ \A i \in 1 .. Len(I) : (FW \o I)[Len(FW) + i] = I[i]
      BY <2>1
    <2>3. /\ FWI \in Seq(T) /\ Len(FWI) = Len(FW) + Len(I)
          /\ \A i \in 1 .. Len(FW) : FWI[i] = FW[i]
          /\ \A i \in 1 .. Len(I) : FWI[Len(FW) + i] = I[i]
      BY <2>2, Zenon
    <2> HIDE DEF FWI
    <2> QED BY <1>12, <1>14, <2>3
  <1> HIDE DEF FWI
  <1>17. /\ Len(s) = 4 + N + n + p
         /\ \A i \in 1 .. 4 + N + n : s[i] = FWI[i]
         /\ n > 0 => s[4 + N + n + 1] = P[1]
    <2>1. /\ Len(s) = Len(FWI) + Len(P)
          /\ \A i \in 1 .. Len(FWI) : s[i] = FWI[i]
          /\ \A i \in 1 .. Len(P) : s[Len(FWI) + i] = P[i]
      BY <1>13, <1>15, <1>16
    <2> QED BY <1>2, <1>9, <1>13, <1>16, <2>1
  <1>18. N \in Nat
    BY <1>1, <1>8
  <1>19. \A i \in 1 .. 4 : s[i] = F[i]
    BY <1>2, <1>14, <1>16, <1>17, <1>18
  <1>20. \A i \in 1 .. N : s[4 + i] = W[i]
    BY <1>2, <1>14, <1>16, <1>17, <1>18
  <1>21. \A i \in 1 .. n : s[4 + N + i] = I[i]
    BY <1>2, <1>16, <1>17, <1>18
  <1>22. n > 0 => s[4 + N + n + 1] = Product(NoKeyUpdate)
    BY <1>7, <1>13, <1>17
  <1>23. s[1] = Begin /\ s[2] = Shop(KeyShare) /\ s[3] = Product(KeyShare) /\ s[4] = Read
    BY <1>8, <1>10, <1>19
  <1>24. \A i \in 1 .. N : s[4 + i] = Lock(Update, "warehouse", ws[i])
    BY <1>11, <1>20
  <1>25. \A i \in 1 .. n : s[4 + N + i] = Lock(Update, "inventory", ws[i])
    BY <1>12, <1>21
  <1>26. Len(s) = 4 + N + n + p
    BY <1>17
  <1> QED BY <1>22, <1>23, <1>24, <1>25, <1>26, Zenon DEF N, p

LEMMA CreateProductShape ==
  ASSUME NEW ws \in Rankings, NEW s, s = CreateProductSteps(ws)
  PROVE  /\ Len(s) = 2 + Len(ws) /\ s[1] = Begin /\ s[2] = Shop(KeyShare)
         /\ \A i \in 1 .. Len(ws) : s[2 + i] = Lock(KeyShare, "warehouse", ws[i])
  <1> DEFINE a == Begin
             b == Shop(KeyShare)
             F == <<a, b>>
             W == Each(KeyShare, "warehouse", ws)
             T == {a, b} \cup {Lock(KeyShare, "warehouse", w) : w \in Warehouses}
  <1>1. ws \in Seq(Warehouses) /\ Len(ws) \in Nat
    BY RankingShape
  <1>2. a \in T /\ b \in T /\ \A w \in Warehouses : Lock(KeyShare, "warehouse", w) \in T
    BY Zenon
  <1>3. s = F \o W
    BY DEF CreateProductSteps
  <1>4. a = Begin /\ b = Shop(KeyShare)
    OBVIOUS
  <1> HIDE DEF T, a, b
  <1>5. F \in Seq(T) /\ Len(F) = 2 /\ F[1] = a /\ F[2] = b
    BY <1>2
  <1>6. W \in Seq(T) /\ Len(W) = Len(ws)
        /\ \A i \in 1 .. Len(ws) : W[i] = Lock(KeyShare, "warehouse", ws[i])
    BY <1>1, <1>2, EachFacts
  <1> HIDE DEF F, W
  <1>7. /\ Len(s) = Len(F) + Len(W)
        /\ \A i \in 1 .. Len(F) : s[i] = F[i]
        /\ \A i \in 1 .. Len(W) : s[Len(F) + i] = W[i]
    <2>1. F \in Seq(T) /\ W \in Seq(T)
      BY <1>5, <1>6
    <2>2. /\ F \o W \in Seq(T) /\ Len(F \o W) = Len(F) + Len(W)
          /\ \A i \in 1 .. Len(F) : (F \o W)[i] = F[i]
          /\ \A i \in 1 .. Len(W) : (F \o W)[Len(F) + i] = W[i]
      BY <2>1
    <2> QED BY <1>3, <2>2, Zenon
  <1>8. s[1] = a /\ s[2] = b
    BY <1>5, <1>7
  <1>9. Len(s) = 2 + Len(ws) /\ \A i \in 1 .. Len(ws) : s[2 + i] = W[i]
    BY <1>5, <1>6, <1>7
  <1> QED BY <1>4, <1>6, <1>8, <1>9

(* What the proofs use of a statement. *)
Is(x, o, m, t, w) == x.op = o /\ x.mode = m /\ x.table = t /\ x.of = w

Inverted(k, ws) ==
  \/ k \in {"ship", "failPayment", "updateProduct", "archiveProduct"}
  \/ k = "createProduct" /\ Len(ws) > 1

(* Each handler is well formed, and locks rows in ascending order unless it inverts
   them: the creation of an order in the ranking its allocation saw. *)
Regular(k, ws, s) ==
  /\ WellFormed(k, s)
  /\ ~Inverted(k, ws) =>
       \A Q \in Rankings : (k = "createOrder" => ws = <<>> \/ ws = Q) => Ascending(Q, s)

LEMMA LockIs ==
  ASSUME NEW m, NEW t, NEW w
  PROVE  Is(Lock(m, t, w), "lock", m, t, w)
  BY DEF Is, Lock

LEMMA HandlerIsRegular ==
  ASSUME NEW k \in Kinds, NEW ws \in Rankings, NEW n \in 0 .. Len(ws),
         k # "createOrder" => ws \in Arrivals(k)
  PROVE  Regular(k, ws, Handler(k, ws, n))
  <1> DEFINE s == Handler(k, ws, n)
             w == ws[1]
  <1>0. /\ \A v : Is(Lock(Update, "warehouse", v), "lock", 4, "warehouse", v)
        /\ \A v : Is(Lock(Update, "inventory", v), "lock", 4, "inventory", v)
        /\ \A v : Is(Lock(KeyShare, "warehouse", v), "lock", 1, "warehouse", v)
    BY LockIs, Modes
  <1>1. \A Q \in Rankings : /\ Len(Q) \in Nat
                            /\ \A v : Place(Q, v) \in Nat /\ Place(Q, v) <= Len(Q)
    BY RankingShape, PlaceFacts
  <1>2. CASE k = "cancel"
    <2>1. /\ Len(s) = 4 /\ Is(s[1], "begin", 0, "none", NoWarehouse)
          /\ Is(s[2], "lock", 4, "shop", NoWarehouse) /\ Is(s[3], "lock", 3, "inventory", w)
          /\ Is(s[4], "lock", 3, "product", NoWarehouse)
      BY <1>2 DEF Handler, CancelSteps, Begin, Query, Statement, Shop, Product, Lock, Is,
                   KeyShare, Share, NoKeyUpdate, Update
    <2> HIDE DEF s, w
    <2>2. WellFormed(k, s)
      BY <1>2, <2>1, Modes DEF WellFormed, Is
    <2>3. ASSUME NEW Q \in Rankings
          PROVE  Ascending(Q, s)
      BY <1>1, <2>1, Modes DEF Ascending, Rank, Light, Is
    <2> QED BY <2>2, <2>3 DEF Regular, s
  <1>3. CASE k = "failPayment"
    <2>1. /\ Len(s) = 4 /\ Is(s[1], "begin", 0, "none", NoWarehouse)
          /\ Is(s[2], "lock", 3, "inventory", w) /\ Is(s[3], "lock", 3, "product", NoWarehouse)
          /\ Is(s[4], "lock", 1, "shop", NoWarehouse)
      BY <1>3 DEF Handler, FailPaymentSteps, Begin, Query, Statement, Shop, Product, Lock, Is,
                   KeyShare, Share, NoKeyUpdate, Update
    <2> HIDE DEF s, w
    <2>2. WellFormed(k, s)
      BY <1>3, <2>1, Modes DEF WellFormed, Is
    <2> QED BY <1>3, <2>2 DEF Regular, Inverted, s
  <1>4. CASE k = "ship"
    <2>1. /\ Len(s) = 3 /\ Is(s[1], "begin", 0, "none", NoWarehouse)
          /\ Is(s[2], "lock", 3, "inventory", w) /\ Is(s[3], "lock", 4, "shop", NoWarehouse)
      BY <1>4 DEF Handler, ShipSteps, Begin, Query, Statement, Shop, Product, Lock, Is,
                   KeyShare, Share, NoKeyUpdate, Update
    <2> HIDE DEF s, w
    <2>2. WellFormed(k, s)
      BY <1>4, <2>1, Modes DEF WellFormed, Is
    <2> QED BY <1>4, <2>2 DEF Regular, Inverted, s
  <1>5. CASE k = "createDefaultProduct"
    <2>1. /\ Len(s) = 3 /\ Is(s[1], "begin", 0, "none", NoWarehouse)
          /\ Is(s[2], "lock", 1, "shop", NoWarehouse) /\ Is(s[3], "lock", 3, "warehouse", w)
      BY <1>5 DEF Handler, CreateDefaultProductSteps, Begin, Query, Statement, Shop, Product, Lock, Is,
                   KeyShare, Share, NoKeyUpdate, Update
    <2> HIDE DEF s, w
    <2>2. WellFormed(k, s)
      BY <1>5, <2>1, Modes DEF WellFormed, Is
    <2>3. ASSUME NEW Q \in Rankings
          PROVE  Ascending(Q, s)
      BY <1>1, <2>1, Modes DEF Ascending, Rank, Light, Is
    <2> QED BY <2>2, <2>3 DEF Regular, s
  <1>6. CASE k = "updateProduct"
    <2>1. /\ Len(s) = 3 /\ Is(s[1], "begin", 0, "none", NoWarehouse)
          /\ Is(s[2], "lock", 3, "product", NoWarehouse) /\ Is(s[3], "lock", 1, "shop", NoWarehouse)
      BY <1>6 DEF Handler, UpdateProductSteps, Begin, Query, Statement, Shop, Product, Lock, Is,
                   KeyShare, Share, NoKeyUpdate, Update
    <2> HIDE DEF s, w
    <2>2. WellFormed(k, s)
      BY <1>6, <2>1, Modes DEF WellFormed, Is
    <2> QED BY <1>6, <2>2 DEF Regular, Inverted, s
  <1>7. CASE k = "archiveProduct"
    <2>1. /\ Len(s) = 3 /\ Is(s[1], "begin", 0, "none", NoWarehouse)
          /\ Is(s[2], "lock", 4, "product", NoWarehouse) /\ Is(s[3], "lock", 1, "shop", NoWarehouse)
      BY <1>7 DEF Handler, ArchiveProductSteps, Begin, Query, Statement, Shop, Product, Lock, Is,
                   KeyShare, Share, NoKeyUpdate, Update
    <2> HIDE DEF s, w
    <2>2. WellFormed(k, s)
      BY <1>7, <2>1, Modes DEF WellFormed, Is
    <2> QED BY <1>7, <2>2 DEF Regular, Inverted, s
  <1>8. CASE k = "updateInventory"
    <2>1. /\ Len(s) = 5 /\ Is(s[1], "begin", 0, "none", NoWarehouse)
          /\ Is(s[2], "lock", 4, "warehouse", w) /\ Is(s[3], "query", 0, "none", NoWarehouse)
          /\ Is(s[4], "lock", 4, "inventory", w) /\ Is(s[5], "lock", 3, "product", NoWarehouse)
      BY <1>8 DEF Handler, UpdateInventorySteps, Begin, Query, Statement, Shop, Product, Lock, Is,
                   KeyShare, Share, NoKeyUpdate, Update
    <2> HIDE DEF s, w
    <2>2. WellFormed(k, s)
      BY <1>8, <2>1, Modes DEF WellFormed, Is
    <2>3. ASSUME NEW Q \in Rankings
          PROVE  Ascending(Q, s)
      BY <1>1, <2>1, Modes DEF Ascending, Rank, Light, Is
    <2> QED BY <2>2, <2>3 DEF Regular, s
  <1>9. CASE k = "adminUpdateInventory"
    <2>1. /\ Len(s) = 4 /\ Is(s[1], "begin", 0, "none", NoWarehouse)
          /\ Is(s[2], "lock", 4, "warehouse", w) /\ Is(s[3], "lock", 4, "inventory", w)
          /\ Is(s[4], "lock", 3, "product", NoWarehouse)
      BY <1>9 DEF Handler, AdminUpdateInventorySteps, Begin, Query, Statement, Shop, Product, Lock, Is,
                   KeyShare, Share, NoKeyUpdate, Update
    <2> HIDE DEF s, w
    <2>2. WellFormed(k, s)
      BY <1>9, <2>1, Modes DEF WellFormed, Is
    <2>3. ASSUME NEW Q \in Rankings
          PROVE  Ascending(Q, s)
      BY <1>1, <2>1, Modes DEF Ascending, Rank, Light, Is
    <2> QED BY <2>2, <2>3 DEF Regular, s
  <1>10. CASE k = "updateWarehouse"
    <2>1. /\ Len(s) = 2 /\ Is(s[1], "begin", 0, "none", NoWarehouse)
          /\ Is(s[2], "lock", 3, "warehouse", w)
      BY <1>10 DEF Handler, UpdateWarehouseSteps, Begin, Query, Statement, Shop, Product, Lock, Is,
                   KeyShare, Share, NoKeyUpdate, Update
    <2> HIDE DEF s, w
    <2>2. WellFormed(k, s)
      BY <1>10, <2>1, Modes DEF WellFormed, Is
    <2>3. ASSUME NEW Q \in Rankings
          PROVE  Ascending(Q, s)
      BY <1>1, <2>1, Modes DEF Ascending, Rank, Light, Is
    <2> QED BY <2>2, <2>3 DEF Regular, s
  <1>11. CASE k = "recodeWarehouse"
    <2>1. /\ Len(s) = 2 /\ Is(s[1], "begin", 0, "none", NoWarehouse)
          /\ Is(s[2], "lock", 4, "warehouse", w)
      BY <1>11 DEF Handler, RecodeWarehouseSteps, Begin, Query, Statement, Shop, Product, Lock, Is,
                   KeyShare, Share, NoKeyUpdate, Update
    <2> HIDE DEF s, w
    <2>2. WellFormed(k, s)
      BY <1>11, <2>1, Modes DEF WellFormed, Is
    <2>3. ASSUME NEW Q \in Rankings
          PROVE  Ascending(Q, s)
      BY <1>1, <2>1, Modes DEF Ascending, Rank, Light, Is
    <2> QED BY <2>2, <2>3 DEF Regular, s
  <1>12. CASE k = "retryDelivery"
    <2>1. /\ Len(s) = 2 /\ Is(s[1], "begin", 0, "none", NoWarehouse)
          /\ Is(s[2], "lock", 2, "webhook", NoWarehouse)
      BY <1>12 DEF Handler, RetryDeliverySteps, Begin, Query, Statement, Shop, Product, Lock, Is,
                   KeyShare, Share, NoKeyUpdate, Update
    <2> HIDE DEF s, w
    <2>2. WellFormed(k, s)
      BY <1>12, <2>1, Modes DEF WellFormed, Is
    <2>3. ASSUME NEW Q \in Rankings
          PROVE  Ascending(Q, s)
      BY <1>1, <2>1, Modes DEF Ascending, Rank, Light, Is
    <2> QED BY <2>2, <2>3 DEF Regular, s
  <1>13. CASE k = "createOrder"
    <2> DEFINE N == Len(ws)
               p == IF n = 0 THEN 0 ELSE 1
               InWarehouses(i) == i >= 5 /\ i <= 4 + N
               InInventory(i) == i >= 5 + N /\ i <= 4 + N + n
    <2>1. N \in Nat /\ n \in Nat /\ n <= N /\ p \in Nat /\ p <= 1 /\ (n = 0 => p = 0)
      BY RankingShape
    <2>2. s = CreateOrderSteps(ws, n)
      BY <1>13 DEF Handler
    <2> HIDE DEF s
    <2>3. /\ Len(s) = 4 + N + n + p
          /\ s[1] = Begin /\ s[2] = Shop(KeyShare) /\ s[3] = Product(KeyShare) /\ s[4] = Read
          /\ \A i \in 1 .. N : s[4 + i] = Lock(Update, "warehouse", ws[i])
          /\ \A i \in 1 .. n : s[4 + N + i] = Lock(Update, "inventory", ws[i])
          /\ n > 0 => s[4 + N + n + 1] = Product(NoKeyUpdate)
      BY <2>2, CreateOrderShape
    <2> HIDE DEF N, p
    <2>4. /\ Is(s[1], "begin", 0, "none", NoWarehouse) /\ Is(s[4], "read", 0, "none", NoWarehouse)
          /\ Is(s[2], "lock", 1, "shop", NoWarehouse) /\ Is(s[3], "lock", 1, "product", NoWarehouse)
      BY <2>3 DEF Begin, Read, Statement, Shop, Product, Lock, KeyShare, Is
    <2>5. \A i \in 1 .. Len(s) : InWarehouses(i) => Is(s[i], "lock", 4, "warehouse", ws[i - 4])
      <3>1. \A j \in 1 .. N : Is(s[4 + j], "lock", 4, "warehouse", ws[j])
        BY <2>3, <1>0, Zenon
      <3>2. \A i \in 1 .. Len(s) : InWarehouses(i) => i - 4 \in 1 .. N /\ 4 + (i - 4) = i
        BY <2>1, <2>3
      <3> QED BY <3>1, <3>2
    <2>6. \A i \in 1 .. Len(s) : InInventory(i) => Is(s[i], "lock", 4, "inventory", ws[i - (4 + N)])
      <3>1. \A j \in 1 .. n : Is(s[4 + N + j], "lock", 4, "inventory", ws[j])
        BY <2>3, <1>0, Zenon
      <3>2. \A i \in 1 .. Len(s) :
              InInventory(i) => i - (4 + N) \in 1 .. n /\ 4 + N + (i - (4 + N)) = i
        BY <2>1, <2>3
      <3> QED BY <3>1, <3>2
    <2>7. \A i \in 1 .. Len(s) : i > 4 + N + n => Is(s[i], "lock", 3, "product", NoWarehouse)
      <3>1. Is(Product(NoKeyUpdate), "lock", 3, "product", NoWarehouse)
        BY DEF Product, Lock, Is, NoKeyUpdate
      <3>2. \A i \in 1 .. Len(s) : i > 4 + N + n => n > 0 /\ i = 4 + N + n + 1
        BY <2>1, <2>3
      <3> QED BY <2>3, <3>1, <3>2
    <2>8. /\ Len(s) \in Nat /\ Len(s) >= 4
          /\ \A i \in 1 .. Len(s) :
               i = 1 \/ i = 2 \/ i = 3 \/ i = 4 \/ InWarehouses(i) \/ InInventory(i) \/ i > 4 + N + n
      BY <2>1, <2>3
    <2>9. WellFormed(k, s)
      BY <1>13, <2>1, <2>4, <2>5, <2>6, <2>7, <2>8, Modes DEF WellFormed, Is
    <2>10. ASSUME NEW Q \in Rankings, ws = <<>> \/ ws = Q
           PROVE  Ascending(Q, s)
      <3> DEFINE L == Len(Q)
      <3>1. L \in Nat /\ (N = 0 \/ N = L)
        BY <1>1, <2>10 DEF N
      <3>2. \A i \in 1 .. Len(s) : InWarehouses(i) => Place(Q, ws[i - 4]) = i - 4
        <4>1. \A i \in 1 .. Len(s) : InWarehouses(i) => i - 4 \in 1 .. N /\ N # 0
          BY <2>1, <2>3
        <4>2. N # 0 => ws = Q
          BY <2>10 DEF N
        <4>3. \A j \in 1 .. N : N # 0 => Place(Q, ws[j]) = j
          BY <4>2, PlaceFacts DEF N
        <4> QED BY <4>1, <4>3
      <3>3. \A i \in 1 .. Len(s) : InInventory(i) => Place(Q, ws[i - (4 + N)]) = i - (4 + N)
        <4>1. \A i \in 1 .. Len(s) : InInventory(i) => i - (4 + N) \in 1 .. N /\ N # 0
          BY <2>1, <2>3
        <4>2. N # 0 => ws = Q
          BY <2>10 DEF N
        <4>3. \A j \in 1 .. N : N # 0 => Place(Q, ws[j]) = j
          BY <4>2, PlaceFacts DEF N
        <4> QED BY <4>1, <4>3
      <3> HIDE DEF L
      <3>4. /\ Rank(Q, s[2]) = 0 /\ ~Light(s[2])
            /\ Rank(Q, s[3]) = L + L + 3 /\ Light(s[3])
            /\ s[1].op # "lock" /\ s[4].op # "lock"
        BY <2>4, Modes DEF Rank, Light, Is, L
      <3>5. \A i \in 1 .. Len(s) : InWarehouses(i) => Rank(Q, s[i]) = 1 + (i - 4)
        <4>1. \A i \in 1 .. Len(s) :
                InWarehouses(i) => s[i].table = "warehouse" /\ s[i].of = ws[i - 4]
          BY <2>5 DEF Is
        <4> QED BY <3>2, <4>1 DEF Rank
      <3>6. \A i \in 1 .. Len(s) : InInventory(i) => Rank(Q, s[i]) = L + 2 + (i - (4 + N))
        <4>1. \A i \in 1 .. Len(s) :
                InInventory(i) => s[i].table = "inventory" /\ s[i].of = ws[i - (4 + N)]
          BY <2>6 DEF Is
        <4> QED BY <3>3, <4>1 DEF Rank, L
      <3>7. \A i \in 1 .. Len(s) : i > 4 + N + n => Rank(Q, s[i]) = L + L + 3
        BY <2>7 DEF Rank, Is, L
      <3>8. \A i \in 1 .. Len(s) : i > 4 + N + n => N = L
        BY <2>1, <2>3, <3>1
      <3>9. ASSUME NEW i \in 1 .. Len(s), NEW j \in 1 .. Len(s), i < j,
                   s[i].op = "lock", s[j].op = "lock", ~Light(s[i])
            PROVE  Rank(Q, s[i]) < Rank(Q, s[j])
        <4>1. i # 1 /\ i # 3 /\ i # 4 /\ j # 1 /\ j # 4
          BY <3>4, <3>9
        <4>2. CASE i = 2
          BY <2>1, <2>8, <3>1, <3>4, <3>5, <3>6, <3>7, <3>9, <4>1, <4>2
        <4>3. CASE InWarehouses(i)
          BY <2>1, <2>8, <3>1, <3>5, <3>6, <3>7, <3>8, <3>9, <4>1, <4>3
        <4>4. CASE InInventory(i)
          BY <2>1, <2>8, <3>1, <3>5, <3>6, <3>7, <3>8, <3>9, <4>1, <4>4
        <4>5. CASE i > 4 + N + n
          BY <2>1, <2>3, <3>9, <4>5
        <4> QED BY <2>8, <4>1, <4>2, <4>3, <4>4, <4>5
      <3> QED BY <3>9 DEF Ascending
    <2> QED BY <1>13, <2>9, <2>10 DEF Regular, s
  <1>14. CASE k = "createProduct"
    <2> DEFINE N == Len(ws)
    <2>1. N \in Nat
      BY RankingShape
    <2>2. s = CreateProductSteps(ws)
      BY <1>14 DEF Handler
    <2> HIDE DEF s
    <2>3. /\ Len(s) = 2 + N /\ s[1] = Begin /\ s[2] = Shop(KeyShare)
          /\ \A i \in 1 .. N : s[2 + i] = Lock(KeyShare, "warehouse", ws[i])
      BY <2>2, CreateProductShape
    <2> HIDE DEF N
    <2>4. /\ Is(s[1], "begin", 0, "none", NoWarehouse)
          /\ Is(s[2], "lock", 1, "shop", NoWarehouse)
      BY <2>3 DEF Begin, Statement, Shop, Lock, KeyShare, Is
    <2>5. \A i \in 1 .. Len(s) : i > 2 => Is(s[i], "lock", 1, "warehouse", ws[i - 2])
      <3>1. \A j \in 1 .. N : Is(s[2 + j], "lock", 1, "warehouse", ws[j])
        BY <2>3, <1>0, Zenon
      <3>2. \A i \in 1 .. Len(s) : i > 2 => i - 2 \in 1 .. N /\ 2 + (i - 2) = i
        BY <2>1, <2>3
      <3> QED BY <3>1, <3>2
    <2>6. WellFormed(k, s)
      BY <1>14, <2>1, <2>3, <2>4, <2>5, Modes DEF WellFormed, Is
    <2>7. ASSUME NEW Q \in Rankings, N <= 1
          PROVE  Ascending(Q, s)
      <3>1. \A i \in 1 .. Len(s) : i = 1 \/ i = 2 \/ i = 3
        BY <2>1, <2>3, <2>7
      <3>2. Rank(Q, s[2]) = 0 /\ s[1].op # "lock"
        BY <2>4 DEF Rank, Is
      <3>3. 3 \in 1 .. Len(s) => Rank(Q, s[3]) > 0
        <4>1. 3 \in 1 .. Len(s) => s[3].table = "warehouse"
          BY <2>5 DEF Is
        <4> QED BY <1>1, <4>1 DEF Rank
      <3> QED BY <3>1, <3>2, <3>3 DEF Ascending
    <2>8. ~Inverted(k, ws) => N <= 1
      BY <1>14, <2>1 DEF Inverted, N
    <2> QED BY <2>6, <2>7, <2>8 DEF Regular, s
  <1> QED BY <1>2, <1>3, <1>4, <1>5, <1>6, <1>7, <1>8, <1>9, <1>10, <1>11, <1>12, <1>13, <1>14
          DEF Kinds, PlaceKinds

(* What the statements a request has behind it mean, for every request. *)
LEMMA RequestShape ==
  ASSUME TypeOK, NEW r \in Requests
  PROVE  /\ kind[r] \in Kinds /\ warehouses[r] \in Rankings
         /\ at[r] \in Nat /\ at[r] >= 1
         /\ Regular(kind[r], warehouses[r], Steps(r))
         /\ WellFormed(kind[r], Steps(r))
  <1>1. /\ kind[r] \in Kinds /\ warehouses[r] \in Rankings /\ at[r] \in Nat /\ at[r] >= 1
        /\ kind[r] # "createOrder" => warehouses[r] \in Arrivals(kind[r])
        /\ tried[r] \in Nat /\ tried[r] <= Len(warehouses[r])
    BY DEF TypeOK
  <1>2. tried[r] \in 0 .. Len(warehouses[r])
    BY <1>1, RankingShape
  <1>3. Regular(kind[r], warehouses[r], Steps(r))
    BY <1>1, <1>2, HandlerIsRegular DEF Steps
  <1> QED BY <1>1, <1>3 DEF Regular

-----------------------------------------------------------------------------
(* Cycles of row locks *)

(* Among finitely many with a rank, some are above none. *)
LEMMA NoEndlessAscent ==
  ASSUME NEW S \in SUBSET Requests, NEW f, \A s \in S : f[s] \in Int,
         \A s \in S : \E t \in S : f[s] < f[t]
  PROVE  S = {}
  <1> SUFFICES ASSUME S # {} PROVE FALSE
    OBVIOUS
  <1> DEFINE Above(s) == {t \in S : f[s] < f[t]}
             F == {Above(s) : s \in S}
  <1>1. IsWellFoundedOn(StrictSubsetOrdering(Requests), SUBSET Requests)
    BY PoolAssumption, FS_StrictSubsetOrderingWellFounded, FS_FiniteSubsetsOfFinite
  <1>2. F \subseteq SUBSET Requests /\ F # {}
    OBVIOUS
  <1> HIDE DEF F
  <1>3. PICK U \in F : \A V \in F : <<V, U>> \notin StrictSubsetOrdering(Requests)
    BY <1>1, <1>2, WFMin
  <1>4. PICK s \in S : U = Above(s)
    BY DEF F
  <1>5. PICK t \in S : f[s] < f[t]
    OBVIOUS
  <1>6. Above(t) \in F
    BY DEF F
  <1>7. Above(t) \subseteq U /\ t \in U /\ t \notin Above(t)
    BY <1>4, <1>5
  <1>8. <<Above(t), U>> \in StrictSubsetOrdering(Requests)
    BY <1>4, <1>7 DEF StrictSubsetOrdering
  <1> QED BY <1>3, <1>6, <1>8

(* What one request waits for is below what a request it waits for waits for, where
   both take the rows in ascending order. *)
LEMMA WaitsAscend ==
  ASSUME TypeOK, NEW Q \in Rankings, NEW s \in Requests, NEW t \in Requests,
         Blocks(t, s), Blocked(t), Ascending(Q, Steps(t)), kind[s] # "archiveProduct"
  PROVE  Rank(Q, Step(s)) < Rank(Q, Step(t))
  <1> DEFINE a == Steps(t)
             x == Step(s)
  <1>1. PICK m \in {KeyShare, Share, NoKeyUpdate, Update} :
          Conflict(m, x.mode) /\ Holds(t, Lock(m, x.table, x.of))
    BY DEF Blocks
  <1>2. PICK i \in 1 .. at[t] - 1 : a[i] = Lock(m, x.table, x.of)
    BY <1>1 DEF Holds
  <1>3. ~AtEnd(t) /\ Step(t).op = "lock" /\ ~AtEnd(s) /\ x.op = "lock"
    BY DEF Blocked, Blocks
  <1>4. /\ at[t] \in Nat /\ Len(a) \in Nat /\ at[t] <= Len(a)
        /\ at[s] \in 1 .. Len(Steps(s)) /\ WellFormed(kind[s], Steps(s))
    BY <1>3, RequestShape DEF AtEnd, WellFormed
  <1>5. i \in 1 .. Len(a) /\ at[t] \in 1 .. Len(a) /\ i < at[t]
    BY <1>4
  <1>6. a[i].op = "lock" /\ a[i].mode = m /\ a[i].table = x.table /\ a[i].of = x.of
    BY <1>2 DEF Lock
  <1>7. x.mode \in 0 .. 4 /\ (x.table = "product" => x.mode # Update)
    BY <1>4 DEF WellFormed, Step
  <1>8. ~Light(a[i])
    BY <1>1, <1>6, <1>7, Modes DEF Light, Conflict
  <1>9. Rank(Q, a[i]) < Rank(Q, a[at[t]])
    BY <1>3, <1>5, <1>6, <1>8 DEF Ascending, Step
  <1>10. Rank(Q, a[i]) = Rank(Q, x)
    BY <1>6 DEF Rank
  <1> QED BY <1>9, <1>10 DEF Step

(* Row locks are taken in one order, the warehouses in that of a ranking, except by a
   shipment, a failed payment, a product's update or removal and a new product
   stocked in several warehouses.  So a cycle of waiting requests, however many there
   are and whatever rows they wait for, has one of these in it, or two allocations
   that saw different rankings (the lock statements of the handlers). *)
LEMMA OrderedLocksDoNotCycle == TypeOK => CycleNeedsInversion
  <1> SUFFICES ASSUME TypeOK, NEW S \in SUBSET {r \in Requests : Blocked(r)}, Cycle(S),
                      \A s \in S : ~Inverts(s), \A s, t \in S : ~Disagree(s, t)
               PROVE  S = {}
    BY DEF CycleNeedsInversion
  <1>1. S \in SUBSET Requests /\ \A s \in S : Blocked(s) /\ \E t \in S : Blocks(t, s)
    BY DEF Cycle
  <1>2. \A s \in S : warehouses[s] \in Rankings
    BY <1>1, RequestShape
  <1>3. PICK Q \in Rankings :
          \A s \in S : kind[s] = "createOrder" => warehouses[s] = <<>> \/ warehouses[s] = Q
    <2>1. CASE \E s \in S : kind[s] = "createOrder" /\ warehouses[s] # <<>>
      <3>1. PICK s \in S : kind[s] = "createOrder" /\ warehouses[s] # <<>>
        BY <2>1
      <3> QED BY <1>2, <3>1 DEF Disagree
    <2>2. CASE ~ \E s \in S : kind[s] = "createOrder" /\ warehouses[s] # <<>>
      <3>1. ranking \in Rankings
        BY DEF TypeOK
      <3> QED BY <2>2, <3>1
    <2> QED BY <2>1, <2>2
  <1>4. \A s \in S : Ascending(Q, Steps(s)) /\ kind[s] # "archiveProduct"
    <2>1. \A s \in S : ~Inverted(kind[s], warehouses[s]) /\ kind[s] # "archiveProduct"
      BY DEF Inverts, Inverted
    <2> QED BY <1>1, <1>3, <2>1, RequestShape DEF Regular
  <1> DEFINE f == [s \in S |-> Rank(Q, Step(s))]
  <1>5. \A s \in S : f[s] \in Int
    <2>1. \A v : Place(Q, v) \in Nat /\ Len(Q) \in Nat
      BY PlaceFacts, RankingShape
    <2> QED BY <2>1 DEF Rank
  <1>6. \A s \in S : \E t \in S : f[s] < f[t]
    BY <1>1, <1>4, WaitsAscend
  <1> HIDE DEF f
  <1> QED BY <1>1, <1>5, <1>6, NoEndlessAscent

(* Where every request of a set waits for another of it, some wait in a circle. *)
LEMMA MutualWaitsCycle ==
  ASSUME NEW T \in SUBSET Requests, T # {},
         \A r \in T : Open(r) /\ \E s \in T : Blocks(s, r)
  PROVE  \E r \in T : InCycle(r)
  <1> DEFINE Stuck(U) == \A r \in U : \E s \in U : Blocks(s, r)
             F == {U \in SUBSET T : U # {} /\ Stuck(U)}
  <1>1. IsWellFoundedOn(StrictSubsetOrdering(Requests), SUBSET Requests)
    BY PoolAssumption, FS_StrictSubsetOrderingWellFounded, FS_FiniteSubsetsOfFinite
  <1>2. F \subseteq SUBSET Requests /\ F # {}
    <2>1. T \in F
      OBVIOUS
    <2> QED BY <2>1
  <1> HIDE DEF F
  <1>3. PICK U \in F : \A V \in F : <<V, U>> \notin StrictSubsetOrdering(Requests)
    BY <1>1, <1>2, WFMin
  <1>4. U \in SUBSET T /\ U # {} /\ Stuck(U)
    BY DEF F
  <1>5. ASSUME NEW s \in U, \A t \in U : ~Blocks(s, t)
        PROVE  FALSE
    <2> DEFINE V == U \ {s}
    <2>1. \A r \in U : \E q \in V : Blocks(q, r)
      BY <1>4, <1>5
    <2>2. V # {}
      BY <2>1
    <2>3. V \in F
      BY <1>4, <2>1, <2>2 DEF F
    <2>4. <<V, U>> \in StrictSubsetOrdering(Requests)
      BY <1>4 DEF StrictSubsetOrdering
    <2> QED BY <1>3, <2>3, <2>4
  <1>6. PICK r \in U : TRUE
    BY <1>4
  <1>7. U \in SUBSET {s \in Requests : Blocked(s)}
    BY <1>4 DEF Blocked
  <1>8. Cycle(U)
    BY <1>4, <1>5 DEF Cycle
  <1>9. InCycle(r)
    BY <1>6, <1>7, <1>8 DEF InCycle
  <1> QED BY <1>4, <1>9

-----------------------------------------------------------------------------
(* The inductive invariant *)

(* A query runs on a connection of its own only at a query statement of a request
   that goes on. *)
QueryingFits ==
  \A r \in Requests :
    querying[r] => outcome[r] = "open" /\ ~AtEnd(r) /\ Step(r).op = "query"

Inv == TypeOK /\ QueryingFits

Transactions == {r \in Requests : InTransaction(r)}
Queries == {r \in Requests : querying[r]}

(* A transaction is open from the second statement to the end of its handler. *)
LEMMA TransactionShape ==
  ASSUME NEW steps, NEW k, WellFormed(k, steps), NEW a \in Nat \ {0}
  PROVE  (\E i \in 1 .. a - 1 : steps[i].op = "begin") <=> a > 1
  <1>1. steps[1].op = "begin"
    BY DEF WellFormed
  <1> QED BY <1>1

LEMMA InUseParts ==
  /\ InUse = Cardinality(Transactions) + Cardinality(Queries)
  /\ IsFiniteSet(Transactions) /\ Cardinality(Transactions) \in Nat
  /\ IsFiniteSet(Queries) /\ Cardinality(Queries) \in Nat
  <1>1. Transactions \in SUBSET Requests /\ Queries \in SUBSET Requests
    BY DEF Transactions, Queries
  <1>2. IsFiniteSet(Transactions) /\ IsFiniteSet(Queries)
    BY <1>1, PoolAssumption, FS_Subset
  <1> QED BY <1>2, FS_CardinalityType DEF InUse, Transactions, Queries

LEMMA OneMoreOrLess ==
  ASSUME NEW S, IsFiniteSet(S), NEW x
  PROVE  /\ Cardinality(S) \in Nat
         /\ Cardinality(S \cup {x}) <= Cardinality(S) + 1
         /\ Cardinality(S \ {x}) <= Cardinality(S)
  <1>1. Cardinality(S) \in Nat
    BY FS_CardinalityType
  <1>2. Cardinality(S \cup {x}) = IF x \in S THEN Cardinality(S) ELSE Cardinality(S) + 1
    BY FS_AddElement
  <1>3. Cardinality(S \ {x}) = IF x \in S THEN Cardinality(S) - 1 ELSE Cardinality(S)
    BY FS_RemoveElement
  <1> QED BY <1>1, <1>2, <1>3

(* Every variable keeps its range: an allocation sees a ranking, and a change of a
   warehouse leaves one. *)
Shaped ==
  /\ poolSize \in PoolSizes
  /\ ranking \in Rankings
  /\ kind \in [Requests -> Kinds]
  /\ warehouses \in [Requests -> Rankings]
  /\ \A r \in Requests :
       /\ kind[r] # "createOrder" => warehouses[r] \in Arrivals(kind[r])
       /\ tried[r] <= Len(warehouses[r])
  /\ tried \in [Requests -> Nat]
  /\ at \in [Requests -> Nat \ {0}]
  /\ querying \in [Requests -> BOOLEAN]
  /\ outcome \in [Requests -> {"open", "done", "aborted"}]

LEMMA StepKeepsShape ==
  ASSUME TypeOK, NEW r \in Requests, RequestStep(r)
  PROVE  Shaped'
  <1>1. Shaped
    BY DEF TypeOK, Shaped
  <1>2. /\ poolSize' = poolSize /\ kind' = kind
        /\ at' \in {at, [at EXCEPT ![r] = at[r] + 1]}
        /\ querying' \in {querying, [querying EXCEPT ![r] = TRUE], [querying EXCEPT ![r] = FALSE]}
        /\ outcome' \in {outcome, [outcome EXCEPT ![r] = "done"], [outcome EXCEPT ![r] = "aborted"]}
    BY DEF RequestStep, BeginTransaction, StartQuery, EndQuery, LockRow, LookUpWarehouses,
           CommitTransaction, DeadlockDetected, Advance
  <1>3. ranking' \in Rankings
    <2>1. ranking' = ranking \/ ranking' \in Rankings
      BY DEF RequestStep, BeginTransaction, StartQuery, EndQuery, LockRow, LookUpWarehouses,
             CommitTransaction, DeadlockDetected
    <2> QED BY <1>1, <2>1 DEF Shaped
  <1>4. /\ warehouses' \in [Requests -> Rankings]
        /\ tried' \in [Requests -> Nat]
        /\ \A s \in Requests :
             /\ kind[s] # "createOrder" => warehouses'[s] \in Arrivals(kind[s])
             /\ tried'[s] <= Len(warehouses'[s])
    <2>1. CASE LookUpWarehouses(r)
      <3>1. /\ Step(r).op = "read" /\ ~AtEnd(r) /\ warehouses' = [warehouses EXCEPT ![r] = ranking]
        BY <2>1 DEF LookUpWarehouses, Waits
      <3>2. PICK n \in 0 .. Len(ranking) : tried' = [tried EXCEPT ![r] = n]
        BY <2>1, Zenon DEF LookUpWarehouses
      <3>3. ranking \in Rankings /\ Len(ranking) \in Nat
        BY <1>1, RankingShape DEF Shaped
      <3>4. kind[r] = "createOrder"
        <4>1. WellFormed(kind[r], Steps(r)) /\ at[r] \in Nat /\ at[r] >= 1
          BY RequestShape
        <4> QED BY <3>1, <4>1 DEF WellFormed, Step, AtEnd
      <3> QED BY <1>1, <3>1, <3>2, <3>3, <3>4 DEF Shaped
    <2>2. CASE ~LookUpWarehouses(r)
      <3>1. warehouses' = warehouses /\ tried' = tried
        BY <2>2 DEF RequestStep, BeginTransaction, StartQuery, EndQuery, LockRow,
                    CommitTransaction, DeadlockDetected
      <3> QED BY <1>1, <3>1 DEF Shaped
    <2> QED BY <2>1, <2>2
  <1>5. at' \in [Requests -> Nat \ {0}]
    BY <1>1, <1>2 DEF Shaped
  <1>6. querying' \in [Requests -> BOOLEAN]
    BY <1>1, <1>2 DEF Shaped
  <1>7. outcome' \in [Requests -> {"open", "done", "aborted"}]
    BY <1>1, <1>2 DEF Shaped
  <1> QED BY <1>1, <1>2, <1>3, <1>4, <1>5, <1>6, <1>7 DEF Shaped

(* No connection is taken while none is free, and none is held beyond a handler. *)
LEMMA StepKeepsInv ==
  ASSUME Inv, NEW r \in Requests, RequestStep(r)
  PROVE  Inv'
  <1> DEFINE T == Cardinality(Transactions)
             Q == Cardinality(Queries)
  <1>1. /\ TypeOK /\ InUse <= poolSize /\ poolSize \in Nat /\ poolSize >= 1
        /\ T \in Nat /\ Q \in Nat /\ InUse = T + Q
        /\ IsFiniteSet(Transactions) /\ IsFiniteSet(Queries)
    BY PoolAssumption, InUseParts DEF Inv, TypeOK
  <1>2. \A s \in Requests :
          /\ at[s] \in Nat /\ at[s] >= 1
          /\ WellFormed(kind[s], Steps(s))
          /\ InTransaction(s) <=> outcome[s] = "open" /\ at[s] > 1
    <2> SUFFICES ASSUME NEW s \in Requests
                 PROVE  /\ at[s] \in Nat /\ at[s] >= 1
                        /\ WellFormed(kind[s], Steps(s))
                        /\ InTransaction(s) <=> outcome[s] = "open" /\ at[s] > 1
      OBVIOUS
    <2>1. at[s] \in Nat \ {0} /\ WellFormed(kind[s], Steps(s))
      BY <1>1, RequestShape DEF TypeOK
    <2> QED BY <2>1, TransactionShape DEF InTransaction, Open
  <1>3. QueryingFits
    BY DEF Inv
  <1>4. Shaped'
    BY <1>1, StepKeepsShape
  <1>5. /\ poolSize' = poolSize /\ kind' = kind
        /\ at \in [Requests -> Nat \ {0}] /\ querying \in [Requests -> BOOLEAN]
        /\ outcome \in [Requests -> {"open", "done", "aborted"}]
        /\ warehouses \in [Requests -> Rankings] /\ tried \in [Requests -> Nat]
    BY <1>1 DEF RequestStep, BeginTransaction, StartQuery, EndQuery, LockRow, LookUpWarehouses,
                CommitTransaction, DeadlockDetected, TypeOK
  <1>6. \A s \in Requests : InTransaction(s)' <=> outcome'[s] = "open" /\ at'[s] > 1
    <2> SUFFICES ASSUME NEW s \in Requests
                 PROVE  InTransaction(s)' <=> outcome'[s] = "open" /\ at'[s] > 1
      OBVIOUS
    <2>1. /\ kind'[s] \in Kinds /\ warehouses'[s] \in Rankings /\ at'[s] \in Nat \ {0}
          /\ kind'[s] # "createOrder" => warehouses'[s] \in Arrivals(kind'[s])
          /\ tried'[s] \in Nat /\ tried'[s] <= Len(warehouses'[s])
      BY <1>4 DEF Shaped
    <2>2. tried'[s] \in 0 .. Len(warehouses'[s])
      BY <2>1, RankingShape
    <2> DEFINE h == Handler(kind'[s], warehouses'[s], tried'[s])
    <2>3. WellFormed(kind'[s], h)
      BY <2>1, <2>2, HandlerIsRegular DEF Regular
    <2>4. InTransaction(s)' <=> outcome'[s] = "open" /\ \E i \in 1 .. at'[s] - 1 : h[i].op = "begin"
      BY DEF InTransaction, Open, Steps
    <2> HIDE DEF h
    <2> QED BY <2>1, <2>3, <2>4, TransactionShape
  <1>7. InUse' = T' + Q' /\ T' \in Nat /\ Q' \in Nat
    <2>1. Transactions' \in SUBSET Requests /\ Queries' \in SUBSET Requests
      BY DEF Transactions, Queries
    <2>2. IsFiniteSet(Transactions') /\ IsFiniteSet(Queries')
      BY <2>1, PoolAssumption, FS_Subset
    <2> QED BY <2>2, FS_CardinalityType DEF InUse, Transactions, Queries
  <1>8. ASSUME T' + Q' <= T + Q \/ (FreeConnection /\ T' + Q' <= T + Q + 1)
        PROVE  TypeOK'
    <2>1. InUse' <= poolSize'
      BY <1>1, <1>5, <1>7, <1>8 DEF FreeConnection
    <2> QED BY <1>4, <2>1 DEF Shaped, TypeOK
  <1>9. \A s \in Requests : s # r =>
          /\ Steps(s)' = Steps(s) /\ at'[s] = at[s] /\ querying'[s] = querying[s]
          /\ outcome'[s] = outcome[s]
    <2> SUFFICES ASSUME NEW s \in Requests, s # r
                 PROVE  /\ Steps(s)' = Steps(s) /\ at'[s] = at[s] /\ querying'[s] = querying[s]
                        /\ outcome'[s] = outcome[s]
      OBVIOUS
    <2>1. warehouses'[s] = warehouses[s] /\ tried'[s] = tried[s]
      <3>1. CASE LookUpWarehouses(r)
        <4>1. PICK n \in 0 .. Len(ranking) : tried' = [tried EXCEPT ![r] = n]
          BY <3>1, Zenon DEF LookUpWarehouses
        <4>2. warehouses' = [warehouses EXCEPT ![r] = ranking]
          BY <3>1 DEF LookUpWarehouses
        <4> QED BY <1>5, <4>1, <4>2
      <3>2. CASE ~LookUpWarehouses(r)
        BY <3>2 DEF RequestStep, BeginTransaction, StartQuery, EndQuery, LockRow,
                    CommitTransaction, DeadlockDetected
      <3> QED BY <3>1, <3>2
    <2>2. at'[s] = at[s] /\ querying'[s] = querying[s] /\ outcome'[s] = outcome[s]
      BY <1>5 DEF RequestStep, BeginTransaction, StartQuery, EndQuery, LockRow, LookUpWarehouses,
                  CommitTransaction, DeadlockDetected, Advance
    <2> QED BY <1>5, <2>1, <2>2 DEF Steps
  <1>10. ASSUME ~querying'[r]
         PROVE  QueryingFits'
    BY <1>3, <1>9, <1>10 DEF QueryingFits, AtEnd, Step
  <1>11. CASE BeginTransaction(r)
    <2>1. /\ outcome[r] = "open" /\ Step(r).op = "begin" /\ ~AtEnd(r) /\ ~querying[r] /\ FreeConnection
          /\ at' = [at EXCEPT ![r] = at[r] + 1] /\ querying' = querying /\ outcome' = outcome
      BY <1>11 DEF BeginTransaction, Waits, Advance
    <2>2. Transactions' = Transactions \cup {r} /\ Queries' = Queries
      BY <1>2, <1>5, <1>6, <1>9, <2>1 DEF Transactions, Queries
    <2>3. T' <= T + 1 /\ Q' = Q
      BY <1>1, <2>2, OneMoreOrLess
    <2>4. TypeOK'
      BY <1>1, <1>7, <1>8, <2>1, <2>3
    <2> QED BY <1>10, <2>1, <2>4 DEF Inv
  <1>12. CASE StartQuery(r)
    <2>1. /\ outcome[r] = "open" /\ Step(r).op = "query" /\ ~AtEnd(r) /\ FreeConnection
          /\ querying' = [querying EXCEPT ![r] = TRUE] /\ at' = at /\ outcome' = outcome
          /\ warehouses' = warehouses /\ tried' = tried
      BY <1>12 DEF StartQuery, Waits
    <2>2. Transactions' = Transactions /\ Queries' = Queries \cup {r}
      BY <1>2, <1>5, <1>6, <2>1 DEF Transactions, Queries
    <2>3. T' = T /\ Q' <= Q + 1
      BY <1>1, <2>2, OneMoreOrLess
    <2>4. TypeOK'
      BY <1>1, <1>7, <1>8, <2>1, <2>3
    <2>5. Steps(r)' = Steps(r)
      BY <1>5, <2>1 DEF Steps
    <2>6. QueryingFits'
      BY <1>3, <1>9, <2>1, <2>5 DEF QueryingFits, AtEnd, Step
    <2> QED BY <2>4, <2>6 DEF Inv
  <1>13. CASE EndQuery(r)
    <2>1. /\ outcome[r] = "open" /\ Step(r).op = "query" /\ ~AtEnd(r)
          /\ querying' = [querying EXCEPT ![r] = FALSE]
          /\ at' = [at EXCEPT ![r] = at[r] + 1] /\ outcome' = outcome
      BY <1>3, <1>13 DEF EndQuery, Advance, QueryingFits
    <2>2. at[r] # 1
      BY <1>2, <2>1 DEF WellFormed, Step, AtEnd
    <2>3. Transactions' = Transactions /\ Queries' = Queries \ {r}
      BY <1>2, <1>5, <1>6, <2>1, <2>2 DEF Transactions, Queries
    <2>4. T' = T /\ Q' <= Q
      BY <1>1, <2>3, OneMoreOrLess
    <2>5. TypeOK'
      BY <1>1, <1>7, <1>8, <2>4
    <2>6. ~querying'[r]
      BY <1>5, <2>1
    <2> QED BY <1>10, <2>5, <2>6 DEF Inv
  <1>14. CASE LockRow(r) \/ LookUpWarehouses(r)
    <2>1. /\ outcome[r] = "open" /\ Step(r).op # "begin" /\ ~AtEnd(r) /\ ~querying[r]
          /\ at' = [at EXCEPT ![r] = at[r] + 1] /\ querying' = querying /\ outcome' = outcome
      BY <1>14 DEF LockRow, LookUpWarehouses, Waits, Advance
    <2>2. at[r] # 1
      BY <1>2, <2>1 DEF WellFormed, Step, AtEnd
    <2>3. Transactions' = Transactions /\ Queries' = Queries
      BY <1>2, <1>5, <1>6, <2>1, <2>2 DEF Transactions, Queries
    <2>4. TypeOK'
      BY <1>1, <1>7, <1>8, <2>3
    <2> QED BY <1>10, <2>1, <2>4 DEF Inv
  <1>15. CASE CommitTransaction(r) \/ DeadlockDetected(r)
    <2>1. AtEnd(r) \/ Step(r).op = "lock"
      <3>1. CASE CommitTransaction(r)
        BY <3>1 DEF CommitTransaction
      <3>2. CASE DeadlockDetected(r)
        BY <3>2 DEF DeadlockDetected, InCycle, Blocked, Blocks
      <3> QED BY <1>15, <3>1, <3>2
    <2>2. ~querying[r] /\ at' = at /\ querying' = querying /\ outcome'[r] # "open"
      BY <1>3, <1>5, <1>15, <2>1 DEF CommitTransaction, DeadlockDetected, QueryingFits
    <2>3. Transactions' = Transactions \ {r} /\ Queries' = Queries
      BY <1>2, <1>6, <1>9, <2>2 DEF Transactions, Queries
    <2>4. T' <= T /\ Q' = Q
      BY <1>1, <2>3, OneMoreOrLess
    <2>5. TypeOK'
      BY <1>1, <1>7, <1>8, <2>4
    <2> QED BY <1>10, <2>2, <2>5 DEF Inv
  <1> QED BY <1>11, <1>12, <1>13, <1>14, <1>15 DEF RequestStep

LEMMA InitInv == Init => Inv
  <1> SUFFICES ASSUME Init PROVE Inv
    OBVIOUS
  <1>1. \A r \in Requests : ~InTransaction(r) /\ ~querying[r]
    BY DEF Init, InTransaction
  <1>2. Transactions = {} /\ Queries = {}
    BY <1>1 DEF Transactions, Queries
  <1>3. InUse <= poolSize
    BY <1>2, InUseParts, FS_EmptySet, PoolAssumption DEF Init
  <1>4. /\ warehouses \in [Requests -> Rankings] /\ tried = [r \in Requests |-> 0]
        /\ \A r \in Requests : warehouses[r] \in Arrivals(kind[r])
    BY DEF Init
  <1>5. \A r \in Requests : tried[r] <= Len(warehouses[r])
    BY <1>4, RankingShape
  <1>6. Shaped
    BY <1>4, <1>5, PoolAssumption DEF Shaped, Init
  <1> QED BY <1>1, <1>3, <1>6 DEF Inv, TypeOK, Shaped, QueryingFits

LEMMA InvHolds == Spec => []Inv
  <1>1. Inv /\ [Next]_vars => Inv'
    <2>1. Inv /\ Next => Inv'
      BY StepKeepsInv DEF Next
    <2>2. Inv /\ UNCHANGED vars => Inv'
      BY DEF vars, Inv, TypeOK, QueryingFits, InUse, InTransaction, Open, AtEnd, Step, Steps
    <2> QED BY <2>1, <2>2
  <1> QED BY <1>1, InitInv, PTL DEF Spec

(* The pool never hands out more connections than it has, and every request stays
   at a statement of its handler (pgxpool's MaxConns). *)
THEOREM PoolTypeCorrect == Spec => []TypeOK
  BY InvHolds, PTL DEF Inv

(* No cycle of row locks without a shipment, a failed payment, a product's update or
   removal, a new product stocked in several warehouses, or two allocations that saw
   different rankings, for any number of requests and warehouses. *)
THEOREM CyclesNeedInversion == Spec => []CycleNeedsInversion
  BY PoolTypeCorrect, OrderedLocksDoNotCycle, PTL

-----------------------------------------------------------------------------
(* The standstill *)

LEMMA WedgeIsInventoryUpdate == Inv => WedgeNeedsInventoryUpdate
  <1> SUFFICES ASSUME Inv, Wedged
               PROVE  /\ InUse = poolSize
                      /\ \E r \in Requests : /\ kind[r] = "updateInventory"
                                             /\ InTransaction(r) /\ Step(r).op = "query"
    BY DEF WedgeNeedsInventoryUpdate
  <1> DEFINE Left == {r \in Requests : outcome[r] = "open"}
             Locking == {r \in Left : Step(r).op = "lock"}
             Authorizing(r) == InTransaction(r) /\ Step(r).op = "query"
  <1>1. TypeOK /\ QueryingFits /\ Left # {} /\ \A r \in Left : ~CanStep(r)
    BY DEF Inv, Wedged
  <1>2. \A r \in Left : /\ ~querying[r] /\ ~AtEnd(r) /\ Step(r).op # "read"
                        /\ (Step(r).op \in {"query", "begin"} => ~FreeConnection)
    BY <1>1 DEF CanStep
  <1>3. \A r \in Left : /\ at[r] \in 1 .. Len(Steps(r)) /\ WellFormed(kind[r], Steps(r))
                        /\ InTransaction(r) <=> at[r] > 1
    <2> SUFFICES ASSUME NEW r \in Left
                 PROVE  /\ at[r] \in 1 .. Len(Steps(r)) /\ WellFormed(kind[r], Steps(r))
                        /\ InTransaction(r) <=> at[r] > 1
      OBVIOUS
    <2>1. at[r] \in Nat \ {0} /\ WellFormed(kind[r], Steps(r))
      BY <1>1, RequestShape DEF TypeOK
    <2>2. InTransaction(r) <=> at[r] > 1
      BY <2>1, TransactionShape DEF InTransaction, Open
    <2> QED BY <1>2, <2>1, <2>2 DEF AtEnd, WellFormed
  <1>4. \A r \in Left : Step(r).op \in {"query", "begin", "lock"}
    BY <1>2, <1>3 DEF Step, WellFormed
  <1>5. ASSUME NEW r \in Left, InTransaction(r), ~Authorizing(r)
        PROVE  r \in Locking
    BY <1>3, <1>4, <1>5 DEF Step, WellFormed
  <1>6. \A r \in Locking : ~InCycle(r) /\ \E s \in Requests : Blocks(s, r)
    BY <1>1 DEF CanStep, Blocked
  <1>7. \E r \in Left : Authorizing(r)
    <2> SUFFICES ASSUME \A r \in Left : ~Authorizing(r)
                 PROVE  FALSE
      OBVIOUS
    <2>1. \A r \in Locking : Open(r) /\ \E s \in Locking : Blocks(s, r)
      <3> SUFFICES ASSUME NEW r \in Locking
                   PROVE  Open(r) /\ \E s \in Locking : Blocks(s, r)
        OBVIOUS
      <3>1. PICK s \in Requests : Blocks(s, r)
        BY <1>6
      <3>2. Open(s) /\ \E i \in 1 .. at[s] - 1 : TRUE
        BY <3>1 DEF Blocks, Holds
      <3>3. s \in Left
        BY <3>2 DEF Open
      <3>4. InTransaction(s)
        BY <1>3, <3>2, <3>3
      <3> QED BY <1>5, <3>1, <3>3, <3>4 DEF Open
    <2>2. Locking = {}
      <3> SUFFICES ASSUME Locking # {} PROVE FALSE
        OBVIOUS
      <3>1. Locking \in SUBSET Requests
        OBVIOUS
      <3> HIDE DEF Locking
      <3> QED BY <1>6, <2>1, <3>1, MutualWaitsCycle
    <2>3. ~FreeConnection
      BY <1>1, <1>2, <1>4, <2>2
    <2>4. InUse > 0
      BY <1>1, <2>3, InUseParts, PoolAssumption DEF FreeConnection, TypeOK
    <2>5. Transactions # {} \/ Queries # {}
      BY <2>4, InUseParts, FS_EmptySet
    <2>6. Queries = {}
      BY <1>1, <1>2 DEF Queries, QueryingFits
    <2>7. PICK r \in Requests : InTransaction(r)
      BY <2>5, <2>6 DEF Transactions
    <2>8. r \in Left
      BY <2>7 DEF InTransaction, Open
    <2> QED BY <1>5, <2>2, <2>7, <2>8
  <1>8. PICK r \in Left : Authorizing(r)
    BY <1>7
  <1>9. kind[r] = "updateInventory"
    BY <1>3, <1>8 DEF Step, WellFormed
  <1>10. InUse = poolSize
    BY <1>1, <1>2, <1>8, InUseParts, PoolAssumption DEF FreeConnection, TypeOK
  <1> QED BY <1>8, <1>9, <1>10

(* Only an operator's inventory update, waiting inside its transaction for the
   connection of its own authorization, can bring the API to a standstill,
   whatever the size of the pool and however many requests of whatever kinds
   compete for it. *)
THEOREM WedgesNeedInventoryUpdate == Spec => []WedgeNeedsInventoryUpdate
  BY InvHolds, WedgeIsInventoryUpdate, PTL
=============================================================================
