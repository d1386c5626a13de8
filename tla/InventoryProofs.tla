-------------------------- MODULE InventoryProofs --------------------------
(***************************************************************************)
(* Type correctness and NoOversell of Inventory for any number of orders,  *)
(* products, replicas and messages, whatever order-service sends.          *)
(*                                                                         *)
(* NoOversell is not inductive.  The row a transaction will commit must be *)
(* known while it is still uncommitted, and between the two decrements of  *)
(* a line of `confirm` it promises too much, by the units not unreserved   *)
(* yet.  And a decrement keeps reserved <= available only if it takes a    *)
(* positive quantity off a row that exists; both come from the past of the *)
(* order: `reserve` checked every quantity and every row before it saved   *)
(* the reservation.  IInv says so.                                         *)
(***************************************************************************)
EXTENDS Inventory, TLAPS

\* The transaction of r sees a row for p.
Visible(r, p) == stock[p] # NoRow \/ owner[p] = r

LineOK(r, i) == Lines(r)[i].quantity > 0 /\ Visible(r, Lines(r)[i].product)

\* Where the handler of r is, and what it has checked on the way.
Position(r) ==
    /\ pc[r] \in {"ensure", "seed", "update"} => r.op = "reserve"
    /\ pc[r] = "deduct" => r.op = "confirm"
    /\ pc[r] = "unreserve" => r.op # "reserve"
    /\ pc[r] \in InTx \ {"save"} => item[r] \in DOMAIN Lines(r)
    /\ pc[r] = "save" => item[r] \notin DOMAIN Lines(r)
    /\ pc[r] \in {"seed", "update"} => Units(r) > 0
    /\ pc[r] = "update" => Visible(r, Product(r))
    /\ pc[r] \in InTx /\ r.op = "reserve" =>
          \A i \in DOMAIN Lines(r) : i < item[r] => LineOK(r, i)
    /\ pc[r] \in InTx /\ r.op # "reserve" => reservation[r.order] # "NONE"

Positions == \A r \in Requests : Position(r)

\* A committed reservation has valid lines, of products on record.
BookedLines ==
    \A o \in Orders : reservation[o] # "NONE" =>
        \A i \in DOMAIN Items[o] : /\ Items[o][i].quantity > 0
                                   /\ stock[Items[o][i].product] # NoRow

\* Units of p that `confirm` has deducted and not yet unreserved.
Owed(r, p) == IF r.op = "confirm" /\ pc[r] = "unreserve" /\ p = Product(r)
              THEN Units(r) ELSE 0

\* But for them, an uncommitted row does not promise more than is on hand.
Covered(r) ==
    \A p \in Products : owner[p] = r => draft[p].reserved - Owed(r, p) <= draft[p].available

DraftsCovered == \A r \in Requests : Covered(r)

IInv == TypeOK /\ NoOversell /\ DraftsCovered /\ Positions /\ BookedLines

-----------------------------------------------------------------------------
\* The lines of an order are lines.
LEMMA LineType ==
    ASSUME NEW o \in Orders, NEW i \in DOMAIN Items[o]
    PROVE  /\ Items[o][i].product \in Products
           /\ Items[o][i].quantity \in Int
           /\ i \in Nat
<1>1. Items[o] \in Seq(Line)
  BY ItemsAssumption
<1>2. Items[o][i] \in Line /\ i \in Nat
  BY <1>1
<1> QED BY <1>2 DEF Line

\* A request names an operation and an order.
LEMMA RequestType ==
    ASSUME NEW r \in Requests
    PROVE  r.op \in Ops /\ r.order \in Orders /\ r # NoTx
BY RequestsAssumption, AbsenceAssumption DEF Request

\* Past the last line, every line was handled.
LEMMA PastLastLine ==
    ASSUME NEW o \in Orders, NEW n \in Nat \ {0}, n \notin DOMAIN Items[o]
    PROVE  \A i \in DOMAIN Items[o] : i < n
<1>1. PICK m \in Nat : DOMAIN Items[o] = 1..m
  BY ItemsAssumption
<1> QED BY <1>1

\* A row on record is a row.
LEMMA RowFields ==
    ASSUME NEW row \in Row
    PROVE  row # NoRow /\ row.available \in Int /\ row.reserved \in Int
BY AbsenceAssumption DEF Row

-----------------------------------------------------------------------------
(* What the database operations preserve.                                  *)

DbTypeOK ==
    /\ stock \in [Products -> Row \cup {NoRow}]
    /\ owner \in [Products -> Requests \cup {NoTx}]
    /\ draft \in [Products -> Row \cup {NoRow}]
    /\ reservation \in [Orders -> Statuses]
    /\ \A p \in Products : owner[p] = NoTx <=> draft[p] = NoRow

DbInv == DbTypeOK /\ NoOversell /\ BookedLines

\* Nobody but r gains or loses a lock, a visible row or a reservation, or sees
\* the row it has written change.
OthersKeep(r) ==
    /\ \A p \in Products : /\ owner'[p] \in {owner[p], r, NoTx}
                           /\ owner'[p] \in Requests \ {r} => draft'[p] = draft[p]
    /\ \A s \in Requests \ {r} : \A p \in Products : Visible(s, p) => Visible(s, p)'
    /\ \A o \in Orders : reservation[o] # "NONE" => reservation'[o] # "NONE"

HoldsNothing(r) == \A p \in Products : owner[p] # r

\* A rolled back transaction leaves no trace.
LEMMA RollbackDb ==
    ASSUME NEW r \in Requests, DbInv, Rollback(r)
    PROVE  DbInv' /\ OthersKeep(r) /\ HoldsNothing(r)'
<1>1. r # NoTx
  BY RequestType
<1>2. DbTypeOK'
  BY <1>1 DEF DbInv, DbTypeOK, Rollback, Unlock
<1>3. NoOversell'
  BY DEF DbInv, NoOversell, Rollback, Unlock
<1>4. BookedLines'
  BY DEF DbInv, BookedLines, Rollback
<1>5. OthersKeep(r)
  BY AbsenceAssumption DEF OthersKeep, Visible, Rollback, Unlock
<1>6. HoldsNothing(r)'
  BY <1>1 DEF HoldsNothing, Rollback, Unlock
<1> QED BY <1>2, <1>3, <1>4, <1>5, <1>6 DEF DbInv

\* A transaction writes a row it can lock.
LEMMA WriteDb ==
    ASSUME NEW r \in Requests, NEW p \in Products, NEW row \in Row,
           DbInv, Write(r, p, row)
    PROVE  /\ DbInv' /\ OthersKeep(r)
           /\ \A q \in Products : q = p \/ Visible(r, q) => Visible(r, q)'
<1>1. r # NoTx /\ row # NoRow
  BY RequestType, RowFields
<1>2. DbTypeOK'
  BY <1>1 DEF DbInv, DbTypeOK, Write
<1>3. NoOversell'
  BY DEF DbInv, NoOversell, Write
<1>4. BookedLines'
  BY DEF DbInv, BookedLines, Write
<1>5. OthersKeep(r)
  BY AbsenceAssumption DEF DbInv, DbTypeOK, OthersKeep, Visible, Write, CanLock
<1>6. \A q \in Products : q = p \/ Visible(r, q) => Visible(r, q)'
  BY DEF DbInv, DbTypeOK, Visible, Write
<1> QED BY <1>2, <1>3, <1>4, <1>5, <1>6 DEF DbInv

\* A transaction that saw a row for every line commits a reservation.
LEMMA CommitDb ==
    ASSUME NEW r \in Requests, NEW status \in Statuses \ {"NONE"},
           \A i \in DOMAIN Lines(r) : LineOK(r, i), DbInv,
           Covered(r), pc[r] = "save", Commit(r, status)
    PROVE  DbInv' /\ OthersKeep(r) /\ HoldsNothing(r)'
<1>1. r # NoTx /\ r.order \in Orders
  BY RequestType
<1>2. \A p \in Products : /\ stock[p] # NoRow => stock'[p] # NoRow
                          /\ Visible(r, p) => stock'[p] # NoRow
  BY <1>1 DEF DbInv, DbTypeOK, Commit, Seen, Visible
<1>3. DbTypeOK'
  BY <1>1 DEF DbInv, DbTypeOK, Commit, Unlock, Seen
<1>4. NoOversell'
  <2> SUFFICES ASSUME NEW p \in Products, stock'[p] # NoRow
               PROVE  stock'[p].reserved <= stock'[p].available
    BY DEF NoOversell
  <2>1. stock'[p] = Seen(r, p)
    BY DEF Commit
  <2>2. CASE owner[p] = r
    <3>1. draft[p].reserved - 0 <= draft[p].available
      BY <2>2 DEF Covered, Owed
    <3>2. draft[p] \in Row
      BY <1>1, <2>2 DEF DbInv, DbTypeOK
    <3>3. draft[p].reserved <= draft[p].available
      BY <3>1, <3>2, RowFields
    <3> QED BY <2>1, <2>2, <3>3 DEF Seen
  <2>3. CASE owner[p] # r
    BY <2>1, <2>3 DEF Seen, DbInv, NoOversell
  <2> QED BY <2>2, <2>3
<1>5. BookedLines'
  <2> SUFFICES ASSUME NEW o \in Orders, reservation'[o] # "NONE",
                      NEW i \in DOMAIN Items[o]
               PROVE  /\ Items[o][i].quantity > 0
                      /\ stock'[Items[o][i].product] # NoRow
    BY DEF BookedLines
  <2>1. Items[o][i].product \in Products
    BY LineType
  <2>2. CASE o = r.order
    BY <1>2, <2>1, <2>2 DEF LineOK, Lines
  <2>3. CASE o # r.order
    BY <1>1, <1>2, <2>1, <2>3 DEF DbInv, DbTypeOK, BookedLines, Commit
  <2> QED BY <2>2, <2>3
<1>6. OthersKeep(r)
  BY <1>1, <1>2, AbsenceAssumption DEF DbInv, DbTypeOK, OthersKeep, Visible, Commit, Unlock
<1>7. HoldsNothing(r)'
  BY <1>1 DEF HoldsNothing, Commit, Unlock
<1> QED BY <1>3, <1>4, <1>5, <1>6, <1>7 DEF DbInv

-----------------------------------------------------------------------------
(* What a step of one handler preserves.                                   *)

LEMMA SplitIInv == IInv => DbInv
BY DEF IInv, TypeOK, DbInv, DbTypeOK

\* The step moves the handler of r and no other.
Moves(r) ==
    /\ pc'[r] \in Steps /\ pc' = [pc EXCEPT ![r] = pc'[r]]
    /\ item'[r] \in Nat \ {0} /\ item' = [item EXCEPT ![r] = item'[r]]
    /\ redelivered' \in [Requests -> BOOLEAN]
    /\ reply' \in [Requests -> Answers]

\* A step of r keeps the invariant if the database part keeps its own, r knows
\* where it is, and r holds locks only inside its transaction.
LEMMA HandlerStep ==
    ASSUME IInv, NEW r \in Requests, Moves(r), DbInv', OthersKeep(r), Position(r)',
           HoldsNothing(r)' \/ (pc'[r] \in InTx /\ Covered(r)')
    PROVE  IInv'
<1>1. TypeOK'
  <2>1. pc' \in [Requests -> Steps] /\ item' \in [Requests -> Nat \ {0}]
    BY DEF IInv, TypeOK, Moves
  <2>2. ASSUME NEW p \in Products, owner'[p] # NoTx
        PROVE  pc'[owner'[p]] \in InTx
    <3>1. owner'[p] \in {owner[p], r}
      BY <2>2 DEF OthersKeep
    <3>2. CASE owner'[p] = r
      BY <3>2 DEF HoldsNothing
    <3>3. CASE owner'[p] # r
      <4>1. owner'[p] = owner[p] /\ owner[p] \in Requests /\ pc[owner[p]] \in InTx
        BY <2>2, <3>1, <3>3 DEF IInv, TypeOK
      <4> QED BY <3>3, <4>1 DEF IInv, TypeOK, Moves
    <3> QED BY <3>2, <3>3
  <2> QED BY <2>1, <2>2 DEF TypeOK, DbInv, DbTypeOK, Moves
<1>2. Positions'
  <2> SUFFICES ASSUME NEW s \in Requests, s # r PROVE Position(s)'
    BY DEF Positions
  <2>1. pc'[s] = pc[s] /\ item'[s] = item[s]
    BY DEF IInv, TypeOK, Moves
  <2>2. \A p \in Products : Visible(s, p) => Visible(s, p)'
    BY DEF OthersKeep
  <2>3. s.order \in Orders
    BY RequestType
  <2>4. \A i \in DOMAIN Lines(s) : Lines(s)[i].product \in Products
    BY <2>3, LineType DEF Lines
  <2>5. reservation[s.order] # "NONE" => reservation'[s.order] # "NONE"
    BY <2>3 DEF OthersKeep
  <2>6. Position(s)
    BY DEF IInv, Positions
  <2> QED BY <2>1, <2>2, <2>4, <2>5, <2>6 DEF Position, LineOK, Lines, Units, Product, InTx
<1>3. DraftsCovered'
  <2> SUFFICES ASSUME NEW s \in Requests PROVE Covered(s)'
    BY DEF DraftsCovered
  <2>1. CASE s = r
    BY <2>1 DEF HoldsNothing, Covered
  <2>2. CASE s # r
    <3>1. pc'[s] = pc[s] /\ item'[s] = item[s]
      BY <2>2 DEF IInv, TypeOK, Moves
    <3>2. \A p \in Products : Owed(s, p)' = Owed(s, p)
      BY <3>1 DEF Owed, Product, Units, Lines
    <3>3. \A p \in Products : owner'[p] = s => owner[p] = s /\ draft'[p] = draft[p]
      BY <2>2, RequestType DEF OthersKeep
    <3> QED BY <3>2, <3>3 DEF IInv, DraftsCovered, Covered
  <2> QED BY <2>1, <2>2
<1> QED BY <1>1, <1>2, <1>3 DEF IInv, DbInv

\* A step of r that leaves the database alone.
LEMMA ControlStep ==
    ASSUME IInv, NEW r \in Requests, Moves(r), UNCHANGED db, Position(r)',
           HoldsNothing(r) \/ (pc'[r] \in InTx /\ r.op = "reserve")
    PROVE  IInv'
<1>1. DbInv' /\ OthersKeep(r)
  <2>1. DbInv
    BY SplitIInv
  <2> QED BY <2>1 DEF db, DbInv, DbTypeOK, NoOversell, BookedLines, OthersKeep, Visible
<1>2. HoldsNothing(r)' <=> HoldsNothing(r)
  BY DEF db, HoldsNothing
<1>3. r.op = "reserve" => Covered(r)'
  BY DEF IInv, DraftsCovered, Covered, Owed, db
<1> QED BY <1>1, <1>2, <1>3, HandlerStep

\* A handler that is not in its transaction holds nothing.
LEMMA OutsideTx ==
    ASSUME IInv, NEW r \in Requests, pc[r] \notin InTx
    PROVE  HoldsNothing(r)
BY RequestType DEF IInv, TypeOK, HoldsNothing

\* The steps that answer, or give a message back, and roll back.
LEMMA RollbackStep ==
    ASSUME IInv, NEW r \in Requests, Moves(r), Rollback(r), pc'[r] \in {"reply", "queued"}
    PROVE  IInv'
<1>1. DbInv' /\ OthersKeep(r) /\ HoldsNothing(r)'
  BY SplitIInv, RollbackDb
<1>2. Position(r)'
  BY DEF Position, InTx
<1> QED BY <1>1, <1>2, HandlerStep

LEMMA AnswerMoves ==
    ASSUME IInv, NEW r \in Requests, NEW result \in Answers, Answer(r, result)
    PROVE  Moves(r) /\ pc'[r] = "reply"
BY DEF IInv, TypeOK, Moves, Answer, Steps

LEMMA GotoMoves ==
    ASSUME IInv, NEW r \in Requests, NEW step \in Steps, Goto(r, step)
    PROVE  Moves(r) /\ pc'[r] = step /\ item'[r] = item[r]
BY DEF IInv, TypeOK, Moves, Goto

LEMMA GotoLineMoves ==
    ASSUME IInv, NEW r \in Requests, NEW i \in Nat \ {0}, NEW step \in Steps,
           GotoLine(r, i, step)
    PROVE  /\ Moves(r) /\ item'[r] = i
           /\ pc'[r] = IF i \in DOMAIN Lines(r) THEN step ELSE "save"
BY DEF IInv, TypeOK, Moves, GotoLine, Steps, InTx

-----------------------------------------------------------------------------
(* The steps of a handler, one lemma per shape of action.                  *)

\* The line a handler is at, and what the handler knows of it.
LEMMA CurrentLine ==
    ASSUME IInv, NEW r \in Requests, pc[r] \in InTx \ {"save"}
    PROVE  /\ item[r] \in DOMAIN Lines(r) /\ item[r] + 1 \in Nat \ {0}
           /\ Product(r) \in Products /\ Units(r) \in Int
           /\ \A i \in DOMAIN Lines(r) : i \in Nat /\ Lines(r)[i].product \in Products
<1>1. item[r] \in DOMAIN Lines(r) /\ r.order \in Orders /\ item[r] \in Nat \ {0}
  BY RequestType DEF IInv, TypeOK, Positions, Position
<1> QED BY <1>1, LineType DEF Lines, Product, Units

\* The lookups: the handler answers, or starts with its first line.
LEMMA LookupStep ==
    ASSUME IInv, NEW r \in Requests,
           ReserveLookup(r) \/ ConfirmLookup(r) \/ ReleaseLookup(r)
    PROVE  IInv'
<1>1. HoldsNothing(r)
  BY OutsideTx DEF ReserveLookup, ConfirmLookup, ReleaseLookup, At, InTx
<1>2. UNCHANGED db
  BY DEF ReserveLookup, ConfirmLookup, ReleaseLookup
<1>3. CASE \E result \in Answers : Answer(r, result)
  <2>1. Moves(r) /\ pc'[r] = "reply"
    BY <1>3, AnswerMoves
  <2> QED BY <1>1, <1>2, <2>1, ControlStep DEF Position, InTx
<1>4. ASSUME NEW step \in {"ensure", "deduct", "unreserve"}, GotoLine(r, 1, step),
             step = "ensure" <=> r.op = "reserve",
             step = "deduct" => r.op = "confirm",
             step # "ensure" => reservation[r.order] # "NONE"
      PROVE  IInv'
  <2>1. /\ Moves(r) /\ item'[r] = 1
        /\ pc'[r] = IF 1 \in DOMAIN Lines(r) THEN step ELSE "save"
    BY <1>4, GotoLineMoves DEF Steps, InTx
  <2>2. \A i \in DOMAIN Lines(r) : ~(i < 1)
    <3>1. Lines(r) \in Seq(Line)
      BY RequestType, ItemsAssumption DEF Lines
    <3> QED BY <3>1
  <2>3. Position(r)'
    BY <1>2, <1>4, <2>1, <2>2 DEF Position, Lines, InTx, db
  <2> QED BY <1>1, <1>2, <2>1, <2>3, ControlStep
<1>5. CASE ReserveLookup(r)
  BY <1>3, <1>4, <1>5 DEF ReserveLookup, Answers
<1>6. CASE ConfirmLookup(r)
  BY <1>3, <1>4, <1>6 DEF ConfirmLookup, Answers
<1>7. CASE ReleaseLookup(r)
  BY <1>3, <1>4, <1>7 DEF ReleaseLookup, Answers
<1> QED BY <1>5, <1>6, <1>7

\* A write of `reserve` that does not promise too much keeps its rows covered.
LEMMA ReserveCovered ==
    ASSUME IInv, NEW r \in Requests, r.op = "reserve", NEW p \in Products, NEW row \in Row,
           row.reserved <= row.available, Write(r, p, row)
    PROVE  Covered(r)'
<1> SUFFICES ASSUME NEW q \in Products, owner'[q] = r
             PROVE  draft'[q].reserved - Owed(r, q)' <= draft'[q].available
  BY DEF Covered
<1>1. Owed(r, q)' = 0 /\ Owed(r, q) = 0
  BY DEF Owed
<1>2. CASE q = p
  <2>1. draft'[q] = row
    BY <1>2 DEF Write, IInv, TypeOK
  <2> QED BY <1>1, <2>1, RowFields
<1>3. CASE q # p
  BY <1>1, <1>3 DEF Write, IInv, TypeOK, DraftsCovered, Covered
<1> QED BY <1>2, <1>3

\* The quantity check and the findOne of ensureStockExists.
LEMMA EnsureStep ==
    ASSUME IInv, NEW r \in Requests, EnsureStock(r)
    PROVE  IInv'
<1>1. pc[r] = "ensure"
  BY DEF EnsureStock, At
<1>2. CASE Answer(r, "refused") /\ Rollback(r)
  BY <1>2, AnswerMoves, RollbackStep DEF Answers
<1>3. CASE /\ Units(r) > 0 /\ UNCHANGED db
           /\ Goto(r, IF Seen(r, Product(r)) = NoRow THEN "seed" ELSE "update")
  <2>1. Moves(r) /\ item'[r] = item[r] /\ pc'[r] \in {"seed", "update"}
    BY <1>3, GotoMoves DEF Steps, InTx
  <2>2. pc'[r] = "update" => Seen(r, Product(r)) # NoRow
    BY <1>3 DEF Goto, IInv, TypeOK
  <2>3. Position(r)
    BY DEF IInv, Positions
  <2>4. pc'[r] = "update" => Visible(r, Product(r))
    BY <2>2 DEF Seen, Visible
  <2>5. Position(r)'
    BY <1>1, <1>3, <2>1, <2>3, <2>4
       DEF Position, LineOK, Lines, Units, Product, Visible, InTx, db
  <2> QED BY <1>1, <1>3, <2>1, <2>3, <2>5, ControlStep DEF Position, InTx
<1> QED BY <1>2, <1>3 DEF EnsureStock

\* The insert of an unknown product.
LEMMA SeedStep ==
    ASSUME IInv, NEW r \in Requests, SeedStock(r)
    PROVE  IInv'
<1>1. pc[r] = "seed"
  BY DEF SeedStock, At
<1>2. CASE Answer(r, "internal_error") /\ Rollback(r)
  BY <1>2, AnswerMoves, RollbackStep DEF Answers
<1>3. CASE Write(r, Product(r), NewRow(DefaultStock)) /\ Goto(r, "update")
  <2>1. Moves(r) /\ item'[r] = item[r] /\ pc'[r] = "update"
    BY <1>3, GotoMoves DEF Steps, InTx
  <2>2. /\ NewRow(DefaultStock) \in Row
        /\ NewRow(DefaultStock).reserved <= NewRow(DefaultStock).available
    BY StockAssumption DEF NewRow, Row
  <2>3. /\ item[r] \in DOMAIN Lines(r) /\ Product(r) \in Products
        /\ \A i \in DOMAIN Lines(r) : Lines(r)[i].product \in Products
    BY <1>1, CurrentLine DEF InTx
  <2>4. /\ DbInv' /\ OthersKeep(r)
        /\ \A q \in Products : q = Product(r) \/ Visible(r, q) => Visible(r, q)'
    BY <1>3, <2>2, <2>3, SplitIInv, WriteDb
  <2>5. Position(r)
    BY DEF IInv, Positions
  <2>6. Position(r)'
    BY <1>1, <2>1, <2>3, <2>4, <2>5 DEF Position, LineOK, Lines, Units, Product, InTx
  <2>7. Covered(r)'
    <3> PICK p \in Products, row \in Row : /\ p = Product(r) /\ row = NewRow(DefaultStock)
                                           /\ row.reserved <= row.available
      BY <2>2, <2>3
    <3>1. Write(r, p, row) /\ r.op = "reserve"
      BY <1>1, <1>3, <2>5 DEF Position
    <3> QED BY <3>1, ReserveCovered
  <2> QED BY <2>1, <2>4, <2>6, <2>7, HandlerStep DEF InTx
<1> QED BY <1>2, <1>3 DEF SeedStock

\* The conditional update takes units that fit.
LEMMA TakeStep ==
    ASSUME IInv, NEW r \in Requests, TakeStock(r)
    PROVE  IInv'
<1> DEFINE p == Product(r)
           row == [Seen(r, p) EXCEPT !.reserved = @ + Units(r)]
<1>1. pc[r] = "update" /\ Fits(r) /\ Write(r, p, row)
      /\ GotoLine(r, item[r] + 1, "ensure")
  BY DEF TakeStock, At
<1>2. /\ item[r] \in DOMAIN Lines(r) /\ item[r] + 1 \in Nat \ {0}
      /\ p \in Products /\ Units(r) \in Int /\ item[r] \in Nat
      /\ \A i \in DOMAIN Lines(r) : i \in Nat /\ Lines(r)[i].product \in Products
  BY <1>1, CurrentLine DEF IInv, TypeOK, InTx
<1>3. Position(r)
  BY DEF IInv, Positions
<1>4. /\ Moves(r) /\ item'[r] = item[r] + 1
      /\ pc'[r] = IF item[r] + 1 \in DOMAIN Lines(r) THEN "ensure" ELSE "save"
  BY <1>1, <1>2, GotoLineMoves DEF Steps, InTx
<1>5. row \in Row /\ row.reserved <= row.available
  <2>1. Seen(r, p) \in Row
    BY <1>1, <1>2, <1>3, RequestType DEF Position, Visible, Seen, IInv, TypeOK
  <2>2. Seen(r, p).available - Seen(r, p).reserved >= Units(r)
    BY <1>1 DEF Fits
  <2> QED BY <1>2, <2>1, <2>2 DEF Row
<1>6. /\ DbInv' /\ OthersKeep(r)
      /\ \A q \in Products : q = p \/ Visible(r, q) => Visible(r, q)'
  <2>1. DbInv
    BY SplitIInv
  <2> HIDE DEF row, p
  <2> QED BY <1>1, <1>2, <1>5, <2>1, WriteDb
<1>7. \A i \in DOMAIN Lines(r) : i < item'[r] => LineOK(r, i)'
  <2> SUFFICES ASSUME NEW i \in DOMAIN Lines(r), i < item[r] + 1
               PROVE  LineOK(r, i)'
    BY <1>4
  <2>1. CASE i < item[r]
    BY <1>1, <1>2, <1>3, <1>6, <2>1 DEF Position, LineOK, Lines, InTx
  <2>2. CASE i = item[r]
    BY <1>1, <1>2, <1>3, <1>6, <2>2 DEF Position, LineOK, Lines, Units, Product
  <2> QED BY <1>2, <2>1, <2>2
<1>8. Position(r)'
  BY <1>1, <1>3, <1>4, <1>7 DEF Position, Lines, InTx
<1>9. Covered(r)'
  <2>1. r.op = "reserve"
    BY <1>1, <1>3 DEF Position
  <2> HIDE DEF row, p
  <2> QED BY <1>1, <1>2, <1>5, <2>1, ReserveCovered
<1> QED BY <1>4, <1>6, <1>8, <1>9, HandlerStep DEF InTx

\* A settlement at a line of a committed reservation: the row is there, and its
\* uncommitted version is covered.
LEMMA SettledLine ==
    ASSUME IInv, NEW r \in Requests, pc[r] \in {"deduct", "unreserve"}
    PROVE  /\ item[r] + 1 \in Nat \ {0} /\ Product(r) \in Products
           /\ Units(r) \in Int /\ Units(r) > 0
           /\ r.op # "reserve" /\ r.order \in Orders /\ reservation[r.order] # "NONE"
           /\ Seen(r, Product(r)) \in Row
           /\ Seen(r, Product(r)).reserved - Owed(r, Product(r))
                <= Seen(r, Product(r)).available
<1>1. /\ item[r] \in DOMAIN Lines(r) /\ item[r] + 1 \in Nat \ {0}
      /\ Product(r) \in Products /\ Units(r) \in Int
  BY CurrentLine DEF InTx
<1>2. r.op # "reserve" /\ r.order \in Orders /\ reservation[r.order] # "NONE"
  BY RequestType DEF IInv, Positions, Position, InTx
<1>3. Units(r) > 0 /\ stock[Product(r)] # NoRow
  BY <1>1, <1>2 DEF IInv, BookedLines, Units, Lines, Product
<1>4. PICK p \in Products : p = Product(r)
  BY <1>1
<1>5. Owed(r, p) \in Int /\ Owed(r, p) >= 0
  BY <1>1, <1>3 DEF Owed
<1>6. CASE owner[p] = r
  <2>1. Seen(r, p) = draft[p] /\ draft[p] \in Row
    BY <1>6, RequestType DEF Seen, IInv, TypeOK
  <2>2. draft[p].reserved - Owed(r, p) <= draft[p].available
    BY <1>6 DEF IInv, DraftsCovered, Covered
  <2> QED BY <1>1, <1>2, <1>3, <1>4, <2>1, <2>2
<1>7. CASE owner[p] # r
  <2>1. Seen(r, p) = stock[p] /\ stock[p] \in Row /\ stock[p].reserved <= stock[p].available
    BY <1>3, <1>4, <1>7 DEF Seen, IInv, TypeOK, NoOversell
  <2>2. stock[p].reserved - Owed(r, p) <= stock[p].available
    BY <1>5, <2>1, RowFields
  <2> QED BY <1>1, <1>2, <1>3, <1>4, <2>1, <2>2
<1> QED BY <1>6, <1>7

\* The decrements of one line of a reservation keep the row covered.
LEMMA SettleStep ==
    ASSUME IInv, NEW r \in Requests, DeductStock(r) \/ UnreserveStock(r)
    PROVE  IInv'
<1>1. pc[r] \in {"deduct", "unreserve"}
  BY DEF DeductStock, UnreserveStock, At
<1> PICK p : p = Product(r)
  OBVIOUS
<1> DEFINE seen == Seen(r, p)
<1>2. /\ item[r] + 1 \in Nat \ {0} /\ p \in Products /\ Units(r) \in Int /\ Units(r) > 0
      /\ r.op # "reserve" /\ r.order \in Orders /\ reservation[r.order] # "NONE"
      /\ seen \in Row /\ seen.available \in Int /\ seen.reserved \in Int
      /\ seen.reserved - Owed(r, p) <= seen.available
  BY <1>1, SettledLine, RowFields
<1>3. Position(r) /\ Covered(r) /\ DbInv
  BY SplitIInv DEF IInv, Positions, DraftsCovered
<1>4. ASSUME NEW row \in Row, Write(r, p, row),
             row.reserved - Owed(r, p)' <= row.available,
             \A q \in Products \ {p} : Owed(r, q)' = 0
      PROVE  DbInv' /\ OthersKeep(r) /\ Covered(r)'
  <2>1. DbInv' /\ OthersKeep(r)
    BY <1>2, <1>3, <1>4, WriteDb
  <2>2. ASSUME NEW q \in Products, owner'[q] = r
        PROVE  draft'[q].reserved - Owed(r, q)' <= draft'[q].available
    <3>1. CASE q = p
      BY <1>4, <3>1 DEF Write, IInv, TypeOK
    <3>2. CASE q # p
      <4>1. owner[q] = r /\ draft'[q] = draft[q] /\ Owed(r, q)' = 0
        BY <1>4, <2>2, <3>2 DEF Write, IInv, TypeOK
      <4>2. Owed(r, q) = 0
        BY <3>2 DEF Owed
      <4> QED BY <1>3, <4>1, <4>2 DEF Covered
    <3> QED BY <3>1, <3>2
  <2> QED BY <2>1, <2>2 DEF Covered
<1>5. CASE DeductStock(r)
  <2> DEFINE row == [seen EXCEPT !.available = @ - Units(r)]
  <2>1. Write(r, p, row) /\ Goto(r, "unreserve") /\ pc[r] = "deduct"
    BY <1>5 DEF DeductStock, At
  <2>2. Moves(r) /\ pc'[r] = "unreserve" /\ item'[r] = item[r]
    BY <2>1, GotoMoves DEF Steps, InTx
  <2>3. r.op = "confirm"
    BY <1>3, <2>1 DEF Position
  <2>4. /\ row \in Row /\ row.available = seen.available - Units(r)
        /\ row.reserved = seen.reserved
    BY <1>2 DEF Row
  <2>5. Product(r)' = p /\ Units(r)' = Units(r)
    BY <2>2 DEF Product, Units, Lines
  <2>6. Owed(r, p) = 0 /\ Owed(r, p)' = Units(r) /\ \A q \in Products \ {p} : Owed(r, q)' = 0
    BY <2>1, <2>2, <2>3, <2>5 DEF Owed
  <2>7. row.reserved - Owed(r, p)' <= row.available
    <3> HIDE DEF row, seen
    <3> QED BY <1>2, <2>4, <2>6
  <2>8. DbInv' /\ OthersKeep(r) /\ Covered(r)'
    <3> HIDE DEF row
    <3> QED BY <1>4, <2>1, <2>4, <2>6, <2>7
  <2>9. Position(r)'
    BY <1>2, <1>3, <2>1, <2>2, <2>3, <2>8 DEF Position, Lines, InTx, OthersKeep
  <2> QED BY <2>2, <2>8, <2>9, HandlerStep DEF InTx
<1>6. CASE UnreserveStock(r)
  <2> DEFINE row == [seen EXCEPT !.reserved = @ - Units(r)]
  <2>1. /\ Write(r, p, row) /\ pc[r] = "unreserve"
        /\ GotoLine(r, item[r] + 1, IF r.op = "confirm" THEN "deduct" ELSE "unreserve")
    BY <1>6 DEF UnreserveStock, At
  <2>2. /\ Moves(r) /\ item'[r] = item[r] + 1
        /\ pc'[r] = IF item[r] + 1 \in DOMAIN Lines(r)
                    THEN IF r.op = "confirm" THEN "deduct" ELSE "unreserve" ELSE "save"
    BY <1>2, <2>1, GotoLineMoves DEF Steps, InTx
  <2>3. /\ row \in Row /\ row.available = seen.available
        /\ row.reserved = seen.reserved - Units(r)
    BY <1>2 DEF Row
  <2>4. Owed(r, p) \in {0, Units(r)} /\ \A q : Owed(r, q)' = 0
    BY <2>2 DEF Owed
  <2>5. row.reserved - Owed(r, p)' <= row.available
    <3> HIDE DEF row, seen
    <3> QED BY <1>2, <2>3, <2>4
  <2>6. DbInv' /\ OthersKeep(r) /\ Covered(r)'
    <3> HIDE DEF row
    <3> QED BY <1>4, <2>1, <2>3, <2>4, <2>5
  <2>7. Position(r)'
    BY <1>2, <1>3, <2>1, <2>2, <2>6 DEF Position, Lines, InTx, OthersKeep
  <2> QED BY <2>2, <2>6, <2>7, HandlerStep DEF InTx
<1> QED BY <1>5, <1>6

\* The commits: a reservation is saved, or its settlement.
LEMMA SaveStep ==
    ASSUME IInv, NEW r \in Requests, SaveReservation(r) \/ SaveSettled(r)
    PROVE  IInv'
<1>1. pc[r] = "save" /\ Position(r) /\ r.order \in Orders
  BY RequestType DEF SaveReservation, SaveSettled, At, IInv, Positions
<1>2. CASE Answer(r, "internal_error") /\ Rollback(r)
  BY <1>2, AnswerMoves, RollbackStep DEF Answers
<1>3. ASSUME NEW status \in {"RESERVED", "CONFIRMED", "RELEASED"},
             Answer(r, "success"), Commit(r, status)
      PROVE  IInv'
  <2>1. Moves(r) /\ pc'[r] = "reply"
    BY <1>3, AnswerMoves DEF Answers
  <2>2. \A i \in DOMAIN Lines(r) : LineOK(r, i)
    <3>1. CASE r.op = "reserve"
      BY <1>1, <3>1, PastLastLine DEF Position, Lines, IInv, TypeOK, InTx
    <3>2. CASE r.op # "reserve"
      BY <1>1, <3>2 DEF Position, InTx, IInv, BookedLines, LineOK, Lines, Visible
    <3> QED BY <3>1, <3>2
  <2>3. DbInv' /\ OthersKeep(r) /\ HoldsNothing(r)'
    BY <1>1, <1>3, <2>2, SplitIInv, CommitDb DEF Statuses, IInv, DraftsCovered
  <2> QED BY <2>1, <2>3, HandlerStep DEF Position, InTx
<1>4. CASE SaveReservation(r)
  BY <1>2, <1>3, <1>4 DEF SaveReservation
<1>5. CASE SaveSettled(r)
  BY <1>3, <1>5 DEF SaveSettled
<1> QED BY <1>4, <1>5

\* The steps that end in an answer with nothing done, and the crash.
LEMMA GiveUpStep ==
    ASSUME IInv, NEW r \in Requests,
           DeclineStock(r) \/ DatabaseError(r) \/ DeadlockVictim(r) \/ Crash(r)
    PROVE  IInv'
<1>1. CASE Crash(r)
  <2>1. Moves(r) /\ pc'[r] = "queued"
    BY <1>1 DEF Crash, Moves, IInv, TypeOK, Steps, Answers
  <2> QED BY <1>1, <2>1, RollbackStep DEF Crash
<1>2. CASE \E result \in Answers : Answer(r, result) /\ Rollback(r)
  BY <1>2, AnswerMoves, RollbackStep
<1> QED BY <1>1, <1>2 DEF DeclineStock, DatabaseError, DeadlockVictim, Answers

\* The steps outside the transaction.
LEMMA OutsideStep ==
    ASSUME IInv, NEW r \in Requests, Send(r) \/ NackRedelivered(r) \/ Respond(r)
    PROVE  IInv'
<1>1. HoldsNothing(r) /\ UNCHANGED db
  BY OutsideTx DEF Send, NackRedelivered, Respond, At, InTx
<1>2. Moves(r) /\ pc'[r] \in {"queued", "dlq", "done"}
  <2>1. CASE Respond(r)
    BY <2>1 DEF Respond, Moves, IInv, TypeOK, Steps, Answers
  <2>2. CASE \E step \in {"queued", "dlq"} : Goto(r, step)
    BY <2>2, GotoMoves DEF Steps
  <2> QED BY <2>1, <2>2 DEF Send, NackRedelivered
<1> QED BY <1>1, <1>2, ControlStep DEF Position, InTx

-----------------------------------------------------------------------------
LEMMA InitIInv == Init => IInv
<1> SUFFICES ASSUME Init PROVE IInv
  OBVIOUS
<1>1. TypeOK
  <2>1. stock \in [Products -> Row \cup {NoRow}]
    BY StockAssumption DEF Init, NewRow, Row
  <2> QED BY <2>1 DEF Init, TypeOK, Statuses, Steps, Answers
<1>2. NoOversell
  BY StockAssumption DEF Init, NoOversell, NewRow
<1>3. Positions
  BY DEF Init, Positions, Position, InTx
<1>4. BookedLines
  BY DEF Init, BookedLines
<1>5. DraftsCovered
  BY RequestType DEF Init, DraftsCovered, Covered
<1> QED BY <1>1, <1>2, <1>3, <1>4, <1>5 DEF IInv

LEMMA NextIInv == IInv /\ [Next]_vars => IInv'
<1> SUFFICES ASSUME IInv, [Next]_vars PROVE IInv'
  OBVIOUS
<1>1. CASE UNCHANGED vars
  BY <1>1 DEF vars, IInv, TypeOK, NoOversell, Positions, Position, LineOK, Visible,
              Lines, Units, Product, BookedLines, DraftsCovered, Covered, Owed
<1>2. ASSUME NEW r \in Requests, Send(r) \/ Handle(r) \/ DatabaseError(r) \/ Crash(r)
      PROVE  IInv'
  BY <1>2, OutsideStep, LookupStep, EnsureStep, SeedStep, TakeStep, SettleStep,
     SaveStep, GiveUpStep DEF Handle
<1> QED BY <1>1, <1>2 DEF Next, Idle

\* The inductive invariant of the stock rows and of the handlers between statements.
THEOREM Invariance == Spec => []IInv
BY InitIInv, NextIInv, PTL DEF Spec

\* Every variable keeps its type, and only a transaction in progress locks rows
\* (the commits and rollbacks of `reserve`, `confirm` and `release`).
THEOREM TypeCorrect == Spec => []TypeOK
<1>1. IInv => TypeOK
  BY DEF IInv
<1> QED BY <1>1, Invariance, PTL

\* No committed row of stock_items ever promises more units than are on hand
\* (`reserve` 102-124, the decrements of `confirm` and `release`), for every number
\* of products, orders, lines, replicas and duplicated messages.
THEOREM NeverOversold == Spec => []NoOversell
<1>1. IInv => NoOversell
  BY DEF IInv
<1> QED BY <1>1, Invariance, PTL
=============================================================================
