------------------------- MODULE CreateRateLimit_proofs -------------------------
(***************************************************************************)
(* How far the race of the check with the insertions can exceed the limit, *)
(* for any number of users and handlers, any limit and any window.         *)
(*                                                                         *)
(* Take a window that is not over yet and has reached the limit.  A        *)
(* handler that takes its time now counts every row of it, and is turned   *)
(* away; so the only ones that can still add to the window are those that  *)
(* had taken their time before, and each of them adds one row and ends.    *)
(* The handler whose row reached the limit is not among them.              *)
(***************************************************************************)
EXTENDS CreateRateLimit, FiniteSetTheorems, SequenceTheorems, TLAPS

Handlers == Cardinality(Workers)

(* The rows of user u among c with a created_at from a to b. *)
Rows(c, u, a, b) == {i \in DOMAIN c : c[i].user = u /\ a <= c[i].at /\ c[i].at <= b}
CountIn(c, u, a, b) == Cardinality(Rows(c, u, a, b))

(* The handlers of user u that the limit does not stop any more: they will
   insert, or count too few rows. *)
Loose(c, r, u) ==
  {w \in Workers :
     /\ r[w].user = u
     /\ \/ r[w].at = "insert"
        \/ r[w].at = "count" /\ CountIn(c, u, r[w].end - Window, r[w].end) < Limit}

(* The window that ends at t: its rows, and, while it lasts and is full, also
   those that may still come. *)
Bounded(c, r, n, u, t) ==
  LET used == CountIn(c, u, t - Window, t) IN
  /\ used <= Limit + Handlers - 1
  /\ n <= t /\ used >= Limit => used + Cardinality(Loose(c, r, u)) <= Limit + Handlers - 1

(* Nothing is dated later than now. *)
Dated ==
  /\ \A i \in DOMAIN created : created[i].at <= now
  /\ \A w \in Workers : req[w].end <= now

RateInv ==
  /\ TypeOK /\ Dated
  /\ \A u \in Users, t \in Times : Bounded(created, req, now, u, t)

----------------------------------------------------------------------------
(* Facts about rows and handlers. *)

LEMMA TimesAreNumbers == Times \subseteq Int /\ Window \in Int /\ Limit \in Nat /\ Limit >= 1
BY RateLimitAssumption DEF Times

LEMMA RowFields ==
  ASSUME NEW c \in Seq(Row), NEW i \in DOMAIN c
  PROVE  c[i].user \in Users /\ c[i].at \in Times /\ c[i].at \in Int
<1>1. c[i] \in Row
  BY ElementOfSeq
<1>. QED BY <1>1, TimesAreNumbers DEF Row

LEMMA RowsFinite ==
  ASSUME NEW c \in Seq(Row), NEW u, NEW a, NEW b
  PROVE  IsFiniteSet(Rows(c, u, a, b)) /\ CountIn(c, u, a, b) \in Nat
<1>1. DOMAIN c = 1 .. Len(c) /\ Len(c) \in Nat
  OBVIOUS
<1>2. IsFiniteSet(1 .. Len(c))
  BY <1>1, FS_Interval
<1>3. Rows(c, u, a, b) \subseteq 1 .. Len(c)
  BY <1>1 DEF Rows
<1>4. IsFiniteSet(Rows(c, u, a, b))
  BY <1>2, <1>3, FS_Subset
<1>. QED BY <1>4, FS_CardinalityType DEF CountIn

LEMMA LooseFinite ==
  ASSUME NEW c, NEW r, NEW u
  PROVE  IsFiniteSet(Loose(c, r, u)) /\ Cardinality(Loose(c, r, u)) \in Nat
<1>1. IsFiniteSet(Loose(c, r, u))
  BY RateLimitAssumption, FS_Subset DEF Loose
<1>. QED BY <1>1, FS_CardinalityType

LEMMA HandlersNumber == IsFiniteSet(Workers) /\ Handlers \in Nat /\ (Workers # {} => Handlers >= 1)
<1>1. IsFiniteSet(Workers) /\ Handlers \in Nat
  BY RateLimitAssumption, FS_CardinalityType DEF Handlers
<1>2. Workers # {} => Handlers # 0
  BY <1>1, FS_EmptySet DEF Handlers
<1>. QED BY <1>1, <1>2

(* One row more: it counts in the windows of its user around its time. *)
LEMMA OneRowMore ==
  ASSUME NEW c \in Seq(Row), NEW row \in Row, NEW u, NEW a \in Int, NEW b \in Int
  PROVE  LET d == Append(c, row)
             new == row.user = u /\ a <= row.at /\ row.at <= b
         IN CountIn(d, u, a, b) = CountIn(c, u, a, b) + (IF new THEN 1 ELSE 0)
<1>1. PICK d : d = Append(c, row)
  OBVIOUS
<1>2. /\ DOMAIN d = (1 .. Len(c)) \cup {Len(c) + 1} /\ DOMAIN c = 1 .. Len(c) /\ Len(c) \in Nat
      /\ \A i \in 1 .. Len(c) : d[i] = c[i]
      /\ d[Len(c) + 1] = row
  BY <1>1
<1>3. Len(c) + 1 \notin Rows(c, u, a, b)
  BY <1>2 DEF Rows
<1>4. CASE row.user = u /\ a <= row.at /\ row.at <= b
  <2>1. Rows(d, u, a, b) = Rows(c, u, a, b) \cup {Len(c) + 1}
    BY <1>2, <1>4 DEF Rows
  <2>2. CountIn(d, u, a, b) = CountIn(c, u, a, b) + 1
    BY <1>3, <2>1, RowsFinite, FS_AddElement DEF CountIn
  <2>. QED BY <1>1, <1>4, <2>2
<1>5. CASE ~(row.user = u /\ a <= row.at /\ row.at <= b)
  <2>1. Rows(d, u, a, b) = Rows(c, u, a, b)
    BY <1>2, <1>5 DEF Rows
  <2>2. CountIn(d, u, a, b) = CountIn(c, u, a, b) + 0
    BY <2>1, RowsFinite DEF CountIn
  <2>. QED BY <1>1, <1>5, <2>2
<1>. QED BY <1>4, <1>5

(* The count of a handler that takes its time now has every row of a window
   that is not over. *)
LEMMA CountsAll ==
  ASSUME TypeOK, Dated, NEW u \in Users, NEW t \in Times, now <= t
  PROVE  CountIn(created, u, t - Window, t) <= CountIn(created, u, now - Window, now)
<1>1. /\ created \in Seq(Row) /\ now \in Int /\ t \in Int /\ Window \in Int
      /\ \A i \in DOMAIN created : created[i].at \in Int /\ created[i].at <= now
  BY TimesAreNumbers, RowFields DEF TypeOK, Dated
<1>2. Rows(created, u, t - Window, t) \subseteq Rows(created, u, now - Window, now)
  BY <1>1 DEF Rows
<1>. QED BY <1>1, <1>2, RowsFinite, FS_Subset DEF CountIn

(* A window to which nothing was added, and for which nobody is loose that was
   not before, stays bounded. *)
LEMMA StaysBounded ==
  ASSUME NEW c \in Seq(Row), NEW d, NEW r, NEW q, NEW n \in Int, NEW m \in Int, n <= m,
         NEW u, NEW t \in Int, Bounded(c, r, n, u, t),
         CountIn(d, u, t - Window, t) = CountIn(c, u, t - Window, t),
         m <= t /\ CountIn(c, u, t - Window, t) >= Limit => Loose(d, q, u) \subseteq Loose(c, r, u)
  PROVE  Bounded(d, q, m, u, t)
<1>. DEFINE used == CountIn(c, u, t - Window, t)
<1>1. used \in Nat /\ Limit \in Nat /\ Handlers \in Nat
  BY RowsFinite, TimesAreNumbers, HandlersNumber
<1>2. ASSUME m <= t, used >= Limit
      PROVE  used + Cardinality(Loose(d, q, u)) <= Limit + Handlers - 1
  <2>1. Cardinality(Loose(d, q, u)) <= Cardinality(Loose(c, r, u))
    BY <1>2, LooseFinite, FS_Subset
  <2>2. used + Cardinality(Loose(c, r, u)) <= Limit + Handlers - 1
    BY <1>2 DEF Bounded
  <2>3. Cardinality(Loose(d, q, u)) \in Nat /\ Cardinality(Loose(c, r, u)) \in Nat
    BY LooseFinite
  <2>. QED BY <1>1, <2>1, <2>2, <2>3
<1>. QED BY <1>2 DEF Bounded

----------------------------------------------------------------------------
(* The steps. *)

LEMMA RequestFields ==
  ASSUME TypeOK, NEW w \in Workers
  PROVE  /\ now \in Int /\ created \in Seq(Row)
         /\ req[w].at \in Labels /\ req[w].user \in Users \cup {0}
         /\ req[w].end \in Times /\ req[w].end \in Int
BY TimesAreNumbers DEF TypeOK

LEMMA RateInit == Init => RateInv
<1>. SUFFICES ASSUME Init PROVE RateInv
     OBVIOUS
<1>1. TypeOK
  <2>1. <<>> \in Seq(Row) /\ Len(<<>>) = 0
    OBVIOUS
  <2>. QED BY <2>1, RateLimitAssumption DEF Init, TypeOK, Resting, Labels, Times
<1>2. Dated
  BY DEF Init, Dated, Resting
<1>3. ASSUME NEW u \in Users, NEW t \in Times PROVE Bounded(created, req, now, u, t)
  <2>1. Rows(created, u, t - Window, t) = {}
    BY DEF Init, Rows
  <2>2. CountIn(created, u, t - Window, t) = 0
    BY <2>1, FS_EmptySet DEF CountIn
  <2>. QED BY <2>2, TimesAreNumbers, HandlersNumber DEF Bounded
<1>. QED BY <1>1, <1>2, <1>3 DEF RateInv

LEMMA TickKeeps == RateInv /\ Tick => RateInv'
<1>. SUFFICES ASSUME RateInv, Tick PROVE RateInv'
     OBVIOUS
<1>1. /\ now' = now + 1 /\ now' \in Times /\ created' = created /\ req' = req
      /\ now \in Int /\ TypeOK /\ Dated /\ created \in Seq(Row)
  BY RateLimitAssumption DEF RateInv, Tick, TypeOK, Times
<1>2. TypeOK'
  BY <1>1 DEF TypeOK
<1>3. Dated'
  <2>1. \A i \in DOMAIN created : created[i].at \in Int
    BY <1>1, RowFields
  <2>2. \A w \in Workers : req[w].end \in Int
    BY <1>1, RequestFields
  <2>. QED BY <1>1, <2>1, <2>2 DEF Dated
<1>4. ASSUME NEW u \in Users, NEW t \in Times PROVE Bounded(created', req', now', u, t)
  <2>1. t \in Int /\ now' \in Int /\ now <= now'
    BY <1>1, TimesAreNumbers
  <2>2. Bounded(created, req, now, u, t)
    BY DEF RateInv
  <2>3. Bounded(created, req, now', u, t)
    BY <1>1, <2>1, <2>2, StaysBounded
  <2>. QED BY <1>1, <2>3
<1>. QED BY <1>2, <1>3, <1>4 DEF RateInv

(* A step of handler w that inserts nothing, and makes it loose only if it was
   already or counts too few rows in what it has not asked for yet. *)
LEMMA HandlerKeeps ==
  ASSUME RateInv, NEW w \in Workers,
         UNCHANGED <<now, created>>, TypeOK', Dated',
         \A v \in Workers : v # w => req'[v] = req[v],
         \A u \in Users, t \in Times :
           (/\ now <= t /\ CountIn(created, u, t - Window, t) >= Limit
            /\ w \in Loose(created, req', u)) => w \in Loose(created, req, u)
  PROVE  RateInv'
<1>1. TypeOK /\ Dated /\ now \in Int /\ created \in Seq(Row) /\ now' = now /\ created' = created
  BY RequestFields DEF RateInv, TypeOK
<1>2. ASSUME NEW u \in Users, NEW t \in Times PROVE Bounded(created', req', now', u, t)
  <2>1. t \in Int /\ Bounded(created, req, now, u, t)
    BY TimesAreNumbers DEF RateInv
  <2>2. now <= t /\ CountIn(created, u, t - Window, t) >= Limit
          => Loose(created, req', u) \subseteq Loose(created, req, u)
    BY DEF Loose
  <2>3. Bounded(created, req', now, u, t)
    BY <1>1, <2>1, <2>2, StaysBounded
  <2>. QED BY <1>1, <2>3
<1>. QED BY <1>2 DEF RateInv

LEMMA BeginKeeps == ASSUME NEW w \in Workers, RateInv, Begin(w) PROVE RateInv'
<1>1. PICK u0 \in Users : req' = [req EXCEPT ![w] = [at |-> "count", user |-> u0, end |-> now]]
  BY DEF Begin
<1>2. /\ UNCHANGED <<now, created>> /\ TypeOK /\ Dated /\ now \in Times
      /\ req \in [Workers -> [at : Labels, user : Users \cup {0}, end : Times]]
  BY DEF Begin, RateInv, TypeOK
<1>3. /\ req' \in [Workers -> [at : Labels, user : Users \cup {0}, end : Times]]
      /\ req'[w] = [at |-> "count", user |-> u0, end |-> now]
      /\ \A v \in Workers : v # w => req'[v] = req[v]
  BY <1>1, <1>2 DEF Labels
<1>4. TypeOK'
  BY <1>2, <1>3 DEF TypeOK
<1>5. Dated'
  <2>1. \A v \in Workers : req'[v].end <= now
    BY <1>2, <1>3, TimesAreNumbers DEF Dated
  <2>. QED BY <1>2, <2>1 DEF Dated
<1>6. ASSUME NEW u \in Users, NEW t \in Times,
             now <= t, CountIn(created, u, t - Window, t) >= Limit
      PROVE  w \notin Loose(created, req', u)
  <2>1. CountIn(created, u, now - Window, now) >= Limit
    <3>1. CountIn(created, u, t - Window, t) <= CountIn(created, u, now - Window, now)
      BY <1>2, <1>6, CountsAll
    <3>2. /\ CountIn(created, u, t - Window, t) \in Nat
          /\ CountIn(created, u, now - Window, now) \in Nat
      BY <1>2, RowsFinite DEF TypeOK
    <3>. QED BY <1>6, <3>1, <3>2, TimesAreNumbers
  <2>2. CountIn(created, u, now - Window, now) \in Nat
    BY <1>2, RowsFinite DEF TypeOK
  <2>3. ~(CountIn(created, u, now - Window, now) < Limit)
    BY <2>1, <2>2, TimesAreNumbers
  <2>. QED BY <1>3, <2>3 DEF Loose
<1>. QED BY <1>2, <1>3, <1>4, <1>5, <1>6, HandlerKeeps

LEMMA RestKeeps ==
  ASSUME NEW w \in Workers, RateInv, UNCHANGED <<now, created>>,
         req' = [req EXCEPT ![w] = Resting]
  PROVE  RateInv'
<1>1. /\ TypeOK /\ Dated /\ now \in Times
      /\ req \in [Workers -> [at : Labels, user : Users \cup {0}, end : Times]]
      /\ Resting \in [at : Labels, user : Users \cup {0}, end : Times]
  BY RateLimitAssumption DEF RateInv, TypeOK, Resting, Labels, Times
<1>2. /\ req' \in [Workers -> [at : Labels, user : Users \cup {0}, end : Times]]
      /\ req'[w] = Resting
      /\ \A v \in Workers : v # w => req'[v] = req[v]
  BY <1>1
<1>3. TypeOK'
  <2>1. \A v \in Workers : req'[v].at # "idle" => req'[v].user \in Users
    BY <1>1, <1>2 DEF TypeOK, Resting
  <2>. QED BY <1>1, <1>2, <2>1 DEF TypeOK
<1>4. Dated'
  <2>1. \A v \in Workers : req'[v].end <= now
    BY <1>1, <1>2 DEF Dated, Resting, Times
  <2>. QED BY <1>1, <2>1 DEF Dated
<1>5. \A u \in Users : w \notin Loose(created, req', u)
  BY <1>2 DEF Loose, Resting
<1>. QED BY <1>2, <1>3, <1>4, <1>5, HandlerKeeps

(* Only a handler that was loose already gets past the check. *)
LEMMA CountKeeps == ASSUME NEW w \in Workers, RateInv, Count(w) PROVE RateInv'
<1>. DEFINE seen == CountIn(created, req[w].user, req[w].end - Window, req[w].end)
<1>1. /\ UNCHANGED <<now, created>> /\ TypeOK /\ Dated /\ created \in Seq(Row)
      /\ req \in [Workers -> [at : Labels, user : Users \cup {0}, end : Times]]
  BY DEF Count, RateInv, TypeOK
<1>2. /\ req[w].at = "count"
      /\ IF seen >= Limit
         THEN req' = [req EXCEPT ![w] = Resting] ELSE req' = [req EXCEPT ![w].at = "insert"]
  BY DEF Count, Used, CountIn, Rows
<1>3. seen \in Nat
  BY <1>1, RowsFinite
<1>4. CASE seen >= Limit
  BY <1>1, <1>2, <1>4, RestKeeps
<1>5. CASE ~(seen >= Limit)
  <2>1. PICK q : q = [req[w] EXCEPT !.at = "insert"]
    OBVIOUS
  <2>2. req[w] \in [at : Labels, user : Users \cup {0}, end : Times]
    BY <1>1
  <2>3. /\ q \in [at : Labels, user : Users \cup {0}, end : Times]
        /\ q.at = "insert" /\ q.user = req[w].user /\ q.end = req[w].end
    BY <2>1, <2>2 DEF Labels
  <2>4. req' = [req EXCEPT ![w] = q]
    BY <1>2, <1>5, <2>1
  <2>5. /\ req' \in [Workers -> [at : Labels, user : Users \cup {0}, end : Times]]
        /\ req'[w] = q /\ \A v \in Workers : v # w => req'[v] = req[v]
    BY <1>1, <2>3, <2>4
  <2>6. TypeOK'
    <3>1. \A v \in Workers : req'[v].at # "idle" => req'[v].user \in Users
      BY <1>1, <1>2, <2>3, <2>5 DEF TypeOK
    <3>. QED BY <1>1, <2>5, <3>1 DEF TypeOK
  <2>7. Dated'
    <3>1. \A v \in Workers : req'[v].end <= now
      BY <1>1, <2>3, <2>5 DEF Dated
    <3>. QED BY <1>1, <3>1 DEF Dated
  <2>8. seen < Limit
    BY <1>3, <1>5, TimesAreNumbers
  <2>9. \A u \in Users : w \in Loose(created, req', u) => w \in Loose(created, req, u)
    BY <1>2, <2>3, <2>5, <2>8 DEF Loose
  <2>. QED BY <1>1, <2>5, <2>6, <2>7, <2>9, HandlerKeeps
<1>. QED BY <1>4, <1>5

(* The row that a handler inserts takes the handler off those that may still
   insert one. *)
LEMMA InsertBounds ==
  ASSUME NEW w \in Workers, NEW u \in Users, NEW t \in Int, NEW n \in Int,
         NEW c \in Seq(Row), NEW row \in Row, NEW r, NEW q,
         Bounded(c, r, n, u, t), row.user = r[w].user, row.at = n, r[w].at = "insert", q[w].at = "idle",
         \A v \in Workers : v # w => q[v] = r[v],
         \A v \in Workers : r[v].end \in Int
  PROVE  Bounded(Append(c, row), q, n, u, t)
<1>. DEFINE new == row.user = u /\ t - Window <= row.at /\ row.at <= t
            used == CountIn(c, u, t - Window, t)
            before == Cardinality(Loose(c, r, u))
<1>1. PICK d : d = Append(c, row)
  OBVIOUS
<1>2. CountIn(d, u, t - Window, t) = used + (IF new THEN 1 ELSE 0)
  BY <1>1, OneRowMore, TimesAreNumbers
<1>3. \A v \in Workers : CountIn(d, u, r[v].end - Window, r[v].end)
                           >= CountIn(c, u, r[v].end - Window, r[v].end)
  <2>. SUFFICES ASSUME NEW v \in Workers
                PROVE  CountIn(d, u, r[v].end - Window, r[v].end)
                         >= CountIn(c, u, r[v].end - Window, r[v].end)
       OBVIOUS
  <2>1. PICK e \in Int : e = r[v].end
    OBVIOUS
  <2>2. e - Window \in Int /\ CountIn(c, u, e - Window, e) \in Nat
    BY RowsFinite, TimesAreNumbers
  <2>3. CountIn(d, u, e - Window, e) >= CountIn(c, u, e - Window, e)
    BY <1>1, <2>2, OneRowMore
  <2>. QED BY <2>1, <2>3
<1>4. Loose(d, q, u) \subseteq Loose(c, r, u) \ {w}
  <2>. SUFFICES ASSUME NEW v \in Loose(d, q, u) PROVE v \in Loose(c, r, u) \ {w}
       OBVIOUS
  <2>1. v \in Workers /\ v # w /\ q[v] = r[v] /\ r[v].user = u
    BY DEF Loose
  <2>2. CASE r[v].at = "insert"
    BY <2>1, <2>2 DEF Loose
  <2>3. CASE r[v].at = "count"
    <3>1. CountIn(d, u, r[v].end - Window, r[v].end) < Limit
      BY <2>1, <2>3 DEF Loose
    <3>2. /\ CountIn(c, u, r[v].end - Window, r[v].end) \in Nat
          /\ CountIn(d, u, r[v].end - Window, r[v].end) \in Nat
      BY <1>1, RowsFinite, AppendProperties
    <3>3. CountIn(c, u, r[v].end - Window, r[v].end) < Limit
      BY <1>3, <2>1, <3>1, <3>2, TimesAreNumbers
    <3>. QED BY <2>1, <2>3, <3>3 DEF Loose
  <2>. QED BY <2>1, <2>2, <2>3 DEF Loose
<1>5. /\ used \in Nat /\ Limit \in Nat /\ Limit >= 1 /\ Handlers \in Nat
      /\ before \in Nat /\ Cardinality(Loose(d, q, u)) \in Nat
  BY RowsFinite, TimesAreNumbers, HandlersNumber, LooseFinite
<1>6. CASE ~new
  <2>1. CountIn(d, u, t - Window, t) = used
    BY <1>2, <1>5, <1>6
  <2>2. Loose(d, q, u) \subseteq Loose(c, r, u)
    BY <1>4
  <2>3. Bounded(d, q, n, u, t)
    BY <2>1, <2>2, StaysBounded
  <2>. QED BY <1>1, <2>3
<1>7. CASE new /\ used >= Limit
  <2>1. CountIn(d, u, t - Window, t) = used + 1
    BY <1>2, <1>7
  <2>2. w \in Loose(c, r, u)
    BY <1>7 DEF Loose
  <2>3. Cardinality(Loose(d, q, u)) <= before - 1
    <3>1. IsFiniteSet(Loose(c, r, u) \ {w}) /\ Cardinality(Loose(c, r, u) \ {w}) = before - 1
      BY <2>2, LooseFinite, FS_RemoveElement
    <3>. QED BY <1>4, <3>1, FS_Subset
  <2>4. used + before <= Limit + Handlers - 1
    BY <1>7 DEF Bounded
  <2>. QED BY <1>1, <1>5, <2>1, <2>3, <2>4 DEF Bounded
<1>8. CASE new /\ ~(used >= Limit)
  <2>1. CountIn(d, u, t - Window, t) = used + 1 /\ used + 1 <= Limit
    BY <1>2, <1>5, <1>8
  <2>2. Cardinality(Loose(d, q, u)) <= Handlers - 1 /\ Handlers >= 1
    <3>1. IsFiniteSet(Workers \ {w}) /\ Cardinality(Workers \ {w}) = Handlers - 1
      BY HandlersNumber, FS_RemoveElement DEF Handlers
    <3>2. Loose(d, q, u) \subseteq Workers \ {w}
      BY <1>4 DEF Loose
    <3>. QED BY <3>1, <3>2, FS_Subset, HandlersNumber
  <2>. QED BY <1>1, <1>5, <2>1, <2>2 DEF Bounded
<1>. QED BY <1>6, <1>7, <1>8

LEMMA InsertKeeps == ASSUME NEW w \in Workers, RateInv, Insert(w) PROVE RateInv'
<1>1. PICK row : row = [user |-> req[w].user, at |-> now]
  OBVIOUS
<1>2. /\ now' = now /\ created' = Append(created, row) /\ req' = [req EXCEPT ![w] = Resting]
      /\ req[w].at = "insert" /\ Len(created) < MaxRows
  BY <1>1 DEF Insert
<1>3. /\ TypeOK /\ Dated /\ now \in Times /\ now \in Int /\ created \in Seq(Row)
      /\ req \in [Workers -> [at : Labels, user : Users \cup {0}, end : Times]]
      /\ Resting \in [at : Labels, user : Users \cup {0}, end : Times]
  BY RateLimitAssumption, TimesAreNumbers DEF RateInv, TypeOK, Resting, Labels, Times
<1>4. row \in Row /\ row.user = req[w].user /\ row.at = now
  <2>1. req[w].user \in Users
    BY <1>2, <1>3 DEF TypeOK
  <2>. QED BY <1>1, <1>3, <2>1 DEF Row
<1>5. /\ req' \in [Workers -> [at : Labels, user : Users \cup {0}, end : Times]]
      /\ req'[w] = Resting
      /\ \A v \in Workers : v # w => req'[v] = req[v]
  BY <1>2, <1>3
<1>6. /\ created' \in Seq(Row) /\ Len(created') = Len(created) + 1
      /\ \A i \in DOMAIN created' : (i \in DOMAIN created /\ created'[i] = created[i])
                                    \/ created'[i] = row
  <2>1. PICK c : c = created
    OBVIOUS
  <2>2. /\ Append(c, row) \in Seq(Row) /\ Len(Append(c, row)) = Len(c) + 1
        /\ \A i \in DOMAIN Append(c, row) : (i \in DOMAIN c /\ Append(c, row)[i] = c[i])
                                            \/ Append(c, row)[i] = row
    BY <1>3, <1>4, <2>1
  <2>. QED BY <1>2, <2>1, <2>2
<1>7. TypeOK'
  <2>1. Len(created') <= MaxRows
    BY <1>2, <1>3, <1>6, RateLimitAssumption
  <2>2. \A v \in Workers : req'[v].at # "idle" => req'[v].user \in Users
    <3>1. \A v \in Workers : req[v].at # "idle" => req[v].user \in Users
      BY <1>3 DEF TypeOK
    <3>. QED BY <1>5, <3>1 DEF Resting
  <2>. QED BY <1>2, <1>3, <1>5, <1>6, <2>1, <2>2 DEF TypeOK
<1>8. Dated'
  <2>1. \A i \in DOMAIN created' : created'[i].at <= now
    BY <1>3, <1>4, <1>6 DEF Dated
  <2>2. \A v \in Workers : req'[v].end <= now
    <3>1. 0 <= now /\ \A v \in Workers : req[v].end <= now
      BY <1>3 DEF Dated, Times
    <3>. QED BY <1>5, <3>1 DEF Resting
  <2>. QED BY <1>2, <2>1, <2>2 DEF Dated
<1>9. ASSUME NEW u \in Users, NEW t \in Times PROVE Bounded(created', req', now', u, t)
  <2>1. Bounded(created, req, now, u, t) /\ t \in Int
    BY TimesAreNumbers DEF RateInv
  <2>2. /\ req'[w].at = "idle"
        /\ \A v \in Workers : req[v].end \in Int
    BY <1>3, <1>5, RequestFields DEF Resting
  <2>3. Bounded(Append(created, row), req', now, u, t)
    BY <1>2, <1>3, <1>4, <1>5, <2>1, <2>2, InsertBounds
  <2>. QED BY <1>2, <2>3
<1>. QED BY <1>7, <1>8, <1>9 DEF RateInv

THEOREM RateInvariant == Spec => []RateInv
<1>1. ASSUME RateInv, Next PROVE RateInv'
  <2>1. CASE Tick
    BY <1>1, <2>1, TickKeeps
  <2>2. ASSUME NEW w \in Workers, Begin(w) \/ Count(w) \/ Insert(w) \/ Fail(w)
        PROVE  RateInv'
    <3>1. CASE Begin(w)
      BY <1>1, <3>1, BeginKeeps
    <3>2. CASE Count(w)
      BY <1>1, <3>2, CountKeeps
    <3>3. CASE Insert(w)
      BY <1>1, <3>3, InsertKeeps
    <3>4. CASE Fail(w)
      BY <1>1, <3>4, RestKeeps DEF Fail
    <3>. QED BY <2>2, <3>1, <3>2, <3>3, <3>4
  <2>. QED BY <1>1, <2>1, <2>2 DEF Next
<1>2. ASSUME RateInv, UNCHANGED vars PROVE RateInv'
  <2>1. now' = now /\ created' = created /\ req' = req
    BY <1>2 DEF vars
  <2>2. TypeOK' /\ Dated'
    BY <1>2, <2>1 DEF RateInv, TypeOK, Dated
  <2>3. \A u \in Users, t \in Times : Bounded(created', req', now', u, t)
    BY <1>2, <2>1 DEF RateInv
  <2>. QED BY <2>2, <2>3 DEF RateInv
<1>. QED BY RateInit, <1>1, <1>2, PTL DEF Spec

(* The variables keep their types, and a request that has begun is some user's. *)
THEOREM RateTypeCorrect == Spec => []TypeOK
BY RateInvariant, PTL DEF RateInv

(* In no window of one minute, past or passing, does a user ever have more than
   Limit rows and one for every handler beside the first: the check of
   ConsumeCreateRateLimit is not atomic with its insertion, and this is all
   that it costs, however the handlers of all replicas interleave. *)
THEOREM OvershootIsBounded == Spec => []OvershootBounded
<1>1. RateInv => OvershootBounded
  <2>1. \A u \in Users, t \in Times : Used(u, t - Window, t) = CountIn(created, u, t - Window, t)
    BY DEF Used, CountIn, Rows
  <2>2. RateInv => \A u \in Users, t \in Times :
                     CountIn(created, u, t - Window, t) <= Limit + Cardinality(Workers) - 1
    BY DEF RateInv, Bounded, Handlers
  <2>. QED BY <2>1, <2>2 DEF OvershootBounded, InAnyWindow
<1>. QED BY <1>1, RateInvariant, PTL
================================================================================
