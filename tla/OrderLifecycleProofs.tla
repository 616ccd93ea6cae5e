------------------------- MODULE OrderLifecycleProofs -------------------------
(***************************************************************************)
(* Theorems about OrderLifecycle for any sets of orders and of calls.      *)
(*                                                                         *)
(* The inductive invariant is the conjunction of the invariants TLC checks *)
(* and of what a call that has read the status may rely on, CallsSound.    *)
(* They need each other: an UPDATE has one winner because every move made  *)
(* so far leaves a status of lower rank than the present one, and that     *)
(* stays so because the moves of an order form a path.                     *)
(***************************************************************************)
EXTENDS OrderLifecycle, TLAPS

\* A call that has passed CanTransition has an order that exists and a row of
\* which the table allows the transition.
CallsSound ==
  \A c \in Calls : calls[c].pc # "idle" =>
    /\ calls[c].order \in Orders
    /\ calls[c].row \in Row
    /\ calls[c].row.from \in OrderStatuses
    /\ CanTransition(calls[c].row.from, calls[c].row.to)
    /\ orders[calls[c].order] # NoStatus

IInv == TypeOK /\ CallsSound /\ OneWinner /\ WrittenOnce /\ HistoryExplainsStatus
-----------------------------------------------------------------------------
\* The missing status is none of the seven.
LEMMA NoStatusIsNone == NoStatus \notin OrderStatuses
BY DEF NoStatus, OrderStatuses

\* The table never leads back: a transition goes to a status of higher rank.
LEMMA TableAdvances ==
  ASSUME NEW s \in OrderStatuses, NEW t, CanTransition(s, t)
  PROVE  /\ t \in OrderStatuses
         /\ Rank[s] < Rank[t]
BY NoStatusIsNone DEF OrderStatuses, CanTransition, allowedTransitions, Rank

\* Ranks are numbers, and only a missing order has rank 0.
LEMMA RankIsNat ==
  ASSUME NEW s \in Statuses
  PROVE  /\ Rank[s] \in Nat
         /\ s # NoStatus => Rank[s] > Rank[NoStatus]
         /\ Rank[NoStatus] = 0
BY NoStatusIsNone DEF Statuses, OrderStatuses, Rank

\* Inserting a row adds it to the rows of the history, after the others.
LEMMA AppendRows ==
  ASSUME NEW s \in Seq(Row), NEW r \in Row
  PROVE  /\ Append(s, r) \in Seq(Row)
         /\ Len(Append(s, r)) = Len(s) + 1
         /\ \A i \in 1..Len(s) : Append(s, r)[i] = s[i]
         /\ Append(s, r)[Len(s) + 1] = r
         /\ {Append(s, r)[i] : i \in 1..Len(Append(s, r))}
              = {s[i] : i \in 1..Len(s)} \cup {r}
<1>1. /\ Append(s, r) \in Seq(Row)
      /\ Len(s) \in Nat
      /\ Len(Append(s, r)) = Len(s) + 1
      /\ \A i \in 1..Len(s) : Append(s, r)[i] = s[i]
      /\ Append(s, r)[Len(s) + 1] = r
  OBVIOUS
<1>2. 1..(Len(s) + 1) = (1..Len(s)) \cup {Len(s) + 1}
  BY <1>1
<1> QED  BY <1>1, <1>2

\* The first status of an order that is created.
LEMMA CreatedRow ==
  [from |-> NoStatus, to |-> "CREATED", by |-> "CLIENT"] \in Row
BY DEF Row, Statuses, OrderStatuses, Parties

\* The local state of a call that has returned.
LEMMA IdleCall ==
  ASSUME NEW a \in {"none", "204", "400", "404", "500"}
  PROVE  Idle(a) \in Call /\ Idle(a).pc = "idle"
BY DEF Idle, Call

\* A step that leaves the tables alone and neither enters nor leaves the state
\* in which a call owes a row keeps the invariant.
LEMMA QuietStep ==
  ASSUME IInv, NEW c \in Calls, NEW new \in Call,
         calls[c].pc # "append", new.pc # "append",
         calls' = [calls EXCEPT ![c] = new],
         UNCHANGED <<orders, journal, lost>>,
         new.pc # "idle" => /\ new.order \in Orders
                            /\ new.row \in Row
                            /\ new.row.from \in OrderStatuses
                            /\ CanTransition(new.row.from, new.row.to)
                            /\ orders[new.order] # NoStatus
  PROVE  IInv'
<1>1. TypeOK'
  BY DEF IInv, TypeOK
<1>2. CallsSound'
  BY DEF IInv, TypeOK, CallsSound
<1>3. \A d \in Calls : \/ calls'[d] = calls[d]
                       \/ calls[d].pc # "append" /\ calls'[d].pc # "append"
  BY DEF IInv, TypeOK
<1>4. \A o \in Orders : Owed(o)' = Owed(o)
  BY <1>3 DEF Owed
<1>5. \A o \in Orders : Written(o)' = Written(o) /\ lost'[o] = lost[o]
  BY DEF Written
<1>6. \A o \in Orders : Moves(o)' = Moves(o)
  BY <1>4, <1>5 DEF Moves
<1>7. OneWinner'
  <2>1. \A o \in Orders : \A r, s \in Moves(o)' : r.from = s.from => r = s
    BY <1>6 DEF IInv, OneWinner
  <2>2. \A c1, d1 \in Calls : calls'[c1].pc = "append" /\ calls'[d1].pc = "append"
          => calls'[c1] = calls[c1] /\ calls'[d1] = calls[d1]
    BY <1>3
  <2> QED  BY <2>1, <2>2 DEF IInv, OneWinner
<1>8. WrittenOnce'
  BY <1>4, <1>5 DEF IInv, WrittenOnce
<1>9. HistoryExplainsStatus'
  BY <1>6 DEF IInv, HistoryExplainsStatus, Explained
<1> QED  BY <1>1, <1>2, <1>7, <1>8, <1>9 DEF IInv

\* What an order's moves are made of.
LEMMA MovesAreRows ==
  ASSUME IInv, NEW o \in Orders, NEW r \in Moves(o)
  PROVE  /\ r \in Row /\ r.from \in Statuses
         /\ Rank[r.from] \in Nat
<1>1. /\ journal[o] \in Seq(Row)
      /\ lost[o] \subseteq Row
      /\ \A c \in Calls : calls[c].pc = "append" => calls[c].row \in Row
  BY DEF IInv, TypeOK, CallsSound
<1>2. Written(o) \subseteq Row
  BY <1>1 DEF Written
<1>3. Owed(o) \subseteq Row
  BY <1>1 DEF Owed
<1>4. r \in Row
  BY <1>1, <1>2, <1>3 DEF Moves
<1>5. r.from \in Statuses
  BY <1>4 DEF Row
<1> QED  BY <1>4, <1>5, RankIsNat
-----------------------------------------------------------------------------
\* The order has no move yet, and its first leads from no status to CREATED.
LEMMA CreateOrderKeeps ==
  ASSUME IInv, NEW o \in Orders, CreateOrder(o)
  PROVE  IInv'
<1> DEFINE row == [from |-> NoStatus, to |-> "CREATED", by |-> "CLIENT"]
<1>1. /\ orders \in [Orders -> Statuses]
      /\ journal \in [Orders -> Seq(Row)]
      /\ orders[o] = NoStatus
      /\ orders' = [orders EXCEPT ![o] = "CREATED"]
      /\ journal' = [journal EXCEPT ![o] = Append(journal[o], row)]
      /\ calls' = calls /\ lost' = lost
  BY DEF CreateOrder, IInv, TypeOK
<1>2. row \in Row /\ row.from = NoStatus /\ row.to = "CREATED"
  BY CreatedRow
<1>3. journal[o] \in Seq(Row)
  BY <1>1
<1> HIDE DEF row
<1>4. "CREATED" \in OrderStatuses /\ "CREATED" # NoStatus
  BY NoStatusIsNone DEF OrderStatuses
<1>5. Moves(o) = {}
  <2>1. \A r \in Moves(o) : Rank[r.from] \in Nat
    BY MovesAreRows
  <2>2. \A r \in Moves(o) : Rank[r.from] < Rank[NoStatus]
    BY <1>1 DEF IInv, HistoryExplainsStatus, Explained
  <2>3. Rank[NoStatus] = 0
    BY RankIsNat DEF Statuses
  <2> QED  BY <2>1, <2>2, <2>3
<1>6. Len(journal[o]) = 0
  <2>1. Len(journal[o]) \in Nat
    BY <1>3
  <2>2. \A i \in 1..Len(journal[o]) : journal[o][i] \in Moves(o)
    BY DEF Moves, Written
  <2> QED  BY <1>5, <2>1, <2>2
<1>7. \A p \in Orders : Owed(p)' = Owed(p) /\ lost'[p] = lost[p]
  BY <1>1 DEF Owed
<1>8. \A p \in Orders \ {o} : /\ Written(p)' = Written(p)
                              /\ Moves(p)' = Moves(p)
                              /\ orders'[p] = orders[p]
                              /\ journal'[p] = journal[p]
  BY <1>1, <1>7 DEF Written, Moves
<1>9. /\ Written(o)' = {row}
      /\ Owed(o)' = {} /\ lost'[o] = {}
      /\ Moves(o)' = {row}
      /\ orders'[o] = "CREATED"
      /\ journal'[o] = Append(journal[o], row)
      /\ Len(journal'[o]) = 1
  <2>1. /\ journal'[o] = Append(journal[o], row)
        /\ orders'[o] = "CREATED"
    BY <1>1
  <2>2. Written(o)' = Written(o) \cup {row}
    BY <2>1, <1>2, <1>3, AppendRows DEF Written
  <2>3. Written(o) = {} /\ Owed(o) = {} /\ lost[o] = {}
    BY <1>5 DEF Moves
  <2> QED  BY <2>1, <2>2, <2>3, <1>2, <1>3, <1>6, <1>7, AppendRows DEF Moves
<1>10. TypeOK'
  BY <1>1, <1>2, <1>3, <1>4, AppendRows DEF IInv, TypeOK, Statuses
<1>11. CallsSound'
  BY <1>1, <1>4 DEF IInv, CallsSound
<1>12. OneWinner'
  BY <1>1, <1>8, <1>9 DEF IInv, OneWinner
<1>13. WrittenOnce'
  <2>1. ASSUME NEW p \in Orders, p # o
        PROVE  /\ \A i, j \in 1..Len(journal'[p]) :
                    journal'[p][i].from = journal'[p][j].from => i = j
               /\ Written(p)' \cap (Owed(p)' \cup lost'[p]) = {}
               /\ Owed(p)' \cap lost'[p] = {}
    BY <2>1, <1>7, <1>8 DEF IInv, WrittenOnce
  <2>2. /\ \A i, j \in 1..Len(journal'[o]) :
             journal'[o][i].from = journal'[o][j].from => i = j
        /\ Written(o)' \cap (Owed(o)' \cup lost'[o]) = {}
        /\ Owed(o)' \cap lost'[o] = {}
    BY <1>9
  <2> QED  BY <2>1, <2>2 DEF WrittenOnce
<1>14. HistoryExplainsStatus'
  <2>1. Rank[NoStatus] < Rank["CREATED"]
    BY <1>4, RankIsNat DEF Statuses
  <2> QED  BY <2>1, <1>2, <1>8, <1>9 DEF IInv, HistoryExplainsStatus, Explained
<1> QED  BY <1>10, <1>11, <1>12, <1>13, <1>14 DEF IInv

\* The status read is still the present one, and every move made so far left a
\* status of lower rank: the new move is the only one that leaves it.
LEMMA UpdateKeeps ==
  ASSUME IInv, NEW c \in Calls, Update(c),
         NEW o, o = calls[c].order, NEW row, row = calls[c].row
  PROVE  IInv'
<1>1. /\ o \in Orders /\ row \in Row
      /\ row.from \in OrderStatuses /\ row.to \in OrderStatuses
      /\ CanTransition(row.from, row.to)
      /\ orders[o] = row.from /\ orders[o] # NoStatus
      /\ Rank[row.from] < Rank[row.to]
      /\ Rank[row.from] \in Nat /\ Rank[row.to] \in Nat
      /\ row.from # NoStatus /\ row.to # NoStatus
  <2>1. /\ calls[c].pc = "update" /\ orders[o] = row.from
    BY DEF Update
  <2>2. /\ o \in Orders /\ row \in Row
        /\ row.from \in OrderStatuses
        /\ CanTransition(row.from, row.to)
        /\ orders[o] # NoStatus
    BY <2>1 DEF IInv, CallsSound
  <2> QED  BY <2>1, <2>2, TableAdvances, RankIsNat, NoStatusIsNone DEF Statuses
<1>2. /\ calls[c].pc = "update"
      /\ orders' = [orders EXCEPT ![o] = row.to]
      /\ calls' = [calls EXCEPT ![c].pc = "append"]
      /\ journal' = journal /\ lost' = lost
  BY DEF Update
<1>3. /\ orders \in [Orders -> Statuses] /\ calls \in [Calls -> Call]
      /\ calls[c] \in Call
  BY DEF IInv, TypeOK
<1>4. /\ calls'[c] \in Call /\ calls'[c].pc = "append"
      /\ calls'[c].order = o /\ calls'[c].row = row
      /\ \A d \in Calls \ {c} : calls'[d] = calls[d]
      /\ calls' \in [Calls -> Call]
  BY <1>2, <1>3 DEF Call
<1>5. /\ orders'[o] = row.to
      /\ \A p \in Orders \ {o} : orders'[p] = orders[p]
      /\ orders' \in [Orders -> Statuses]
  BY <1>1, <1>2, <1>3 DEF Statuses
<1>6. /\ \A p \in Orders : Written(p)' = Written(p) /\ lost'[p] = lost[p]
      /\ \A p \in Orders \ {o} : Owed(p)' = Owed(p) /\ Moves(p)' = Moves(p)
      /\ Owed(o)' = Owed(o) \cup {row}
      /\ Moves(o)' = Moves(o) \cup {row}
  <2>1. \A p \in Orders : Written(p)' = Written(p) /\ lost'[p] = lost[p]
    BY <1>2 DEF Written
  <2>2. \A p \in Orders \ {o} : Owed(p)' = Owed(p)
    BY <1>2, <1>4 DEF Owed
  <2>3. Owed(o)' = Owed(o) \cup {row}
    <3>1. ASSUME NEW r
          PROVE  r \in Owed(o)' <=> r \in Owed(o) \cup {row}
      BY <1>2, <1>4 DEF Owed
    <3> QED  BY <3>1
  <2> QED  BY <2>1, <2>2, <2>3, <1>1 DEF Moves
<1>7. \A r \in Moves(o) : r.from # row.from /\ Rank[r.from] < Rank[row.from]
  BY <1>1 DEF IInv, HistoryExplainsStatus, Explained
<1>8. TypeOK'
  BY <1>2, <1>4, <1>5 DEF IInv, TypeOK
<1>9. CallsSound'
  BY <1>1, <1>2, <1>4, <1>5 DEF IInv, CallsSound
<1>10. OneWinner'
  <2>1. ASSUME NEW p \in Orders
        PROVE  \A r, s \in Moves(p)' : r.from = s.from => r = s
    <3>1. CASE p = o
      BY <3>1, <1>6, <1>7 DEF IInv, OneWinner
    <3>2. CASE p # o
      BY <3>2, <1>6 DEF IInv, OneWinner
    <3> QED  BY <3>1, <3>2
  <2>2. \A d \in Calls : calls[d].pc = "append" /\ calls[d].order = o
                         => calls[d].row \in Moves(o)
    BY DEF Moves, Owed
  <2>3. ASSUME NEW p \in Orders, NEW d \in Calls, NEW e \in Calls,
               calls'[d].pc = "append", calls'[e].pc = "append",
               calls'[d].order = p, calls'[e].order = p
        PROVE  d = e \/ calls'[d].row.from # calls'[e].row.from
    BY <2>2, <2>3, <1>4, <1>7 DEF IInv, OneWinner
  <2> QED  BY <2>1, <2>3 DEF OneWinner
<1>11. WrittenOnce'
  <2>1. row \notin Moves(o)
    BY <1>7
  <2>2. /\ row \notin Written(o)
        /\ row \notin lost[o]
    BY <2>1 DEF Moves
  <2>3. ASSUME NEW p \in Orders
        PROVE  /\ Written(p)' \cap (Owed(p)' \cup lost'[p]) = {}
               /\ Owed(p)' \cap lost'[p] = {}
    <3>1. /\ Written(p) \cap (Owed(p) \cup lost[p]) = {}
          /\ Owed(p) \cap lost[p] = {}
      BY DEF IInv, WrittenOnce
    <3>2. CASE p = o
      BY <3>1, <3>2, <2>2, <1>6
    <3>3. CASE p # o
      BY <3>1, <3>3, <1>6
    <3> QED  BY <3>2, <3>3
  <2>4. \A p \in Orders : \A i, j \in 1..Len(journal'[p]) :
          journal'[p][i].from = journal'[p][j].from => i = j
    BY <1>2 DEF IInv, WrittenOnce
  <2> QED  BY <2>3, <2>4 DEF WrittenOnce
<1>12. HistoryExplainsStatus'
  <2>1. ASSUME NEW p \in Orders, p # o
        PROVE  Explained(p)'
    BY <2>1, <1>5, <1>6 DEF IInv, HistoryExplainsStatus, Explained
  <2>2. Explained(o)'
    <3>1. Explained(o)
      BY <1>1 DEF IInv, HistoryExplainsStatus
    <3>2. \E r \in Moves(o)' : r.from = NoStatus
      BY <3>1, <1>1, <1>6 DEF Explained
    <3>3. \A r \in Moves(o)' : Rank[r.from] < Rank[orders'[o]]
      <4>1. \A r \in Moves(o) : Rank[r.from] \in Nat
        BY <1>1, MovesAreRows
      <4> QED  BY <4>1, <1>1, <1>5, <1>6, <1>7
    <3>4. \A r \in Moves(o)' : IF r.from = NoStatus THEN r.to = "CREATED"
                                ELSE CanTransition(r.from, r.to)
      BY <3>1, <1>1, <1>6 DEF Explained
    <3>5. \A r \in Moves(o)' : \/ r.to = orders'[o]
                              \/ \E s \in Moves(o)' : s.from = r.to
      BY <3>1, <1>1, <1>5, <1>6 DEF Explained
    <3> QED  BY <3>2, <3>3, <3>4, <3>5 DEF Explained
  <2> QED  BY <2>1, <2>2 DEF HistoryExplainsStatus
<1> QED  BY <1>8, <1>9, <1>10, <1>11, <1>12 DEF IInv

\* Call c owes row to the history of order o.
Owes(c, o, row) ==
  calls[c].pc = "append" /\ o = calls[c].order /\ row = calls[c].row

\* Call c stops owing row: the order owes every row but this one, which is in
\* no other place so far.
Released(c, o, row) ==
  /\ o \in Orders /\ row \in Row
  /\ row \in Owed(o) /\ row \notin Written(o) /\ row \notin lost[o]
  /\ calls' \in [Calls -> Call] /\ calls'[c].pc = "idle"
  /\ \A d \in Calls \ {c} : calls'[d] = calls[d]
  /\ Owed(o)' = Owed(o) \ {row}
  /\ \A p \in Orders \ {o} : Owed(p)' = Owed(p)

\* A call that owes a row and returns stops owing it, and no other call does.
LEMMA CallReturns ==
  ASSUME IInv, NEW c \in Calls, NEW o, NEW row, Owes(c, o, row),
         NEW a \in {"none", "204", "400", "404", "500"}, Return(c, a)
  PROVE  Released(c, o, row)
<1> USE DEF Owes
<1>1. /\ calls \in [Calls -> Call] /\ o \in Orders /\ row \in Row
  BY DEF IInv, TypeOK, CallsSound
<1>2. /\ calls' = [calls EXCEPT ![c] = Idle(a)]
      /\ Idle(a) \in Call /\ Idle(a).pc = "idle"
  BY IdleCall DEF Return
<1>3. /\ calls' \in [Calls -> Call] /\ calls'[c].pc = "idle"
      /\ \A d \in Calls \ {c} : calls'[d] = calls[d]
  BY <1>1, <1>2
<1>4. row \in Owed(o)
  BY DEF Owed
<1>5. row \notin Written(o) /\ row \notin lost[o]
  BY <1>1, <1>4 DEF IInv, WrittenOnce
<1>6. \A d \in Calls \ {c} : calls[d].pc = "append" /\ calls[d].order = o
                            => calls[d].row # row
  BY <1>1 DEF IInv, OneWinner
<1>7. ASSUME NEW r
      PROVE  r \in Owed(o)' <=> r \in Owed(o) \ {row}
  BY <1>3, <1>6 DEF Owed
<1>8. ASSUME NEW p \in Orders \ {o}
      PROVE  Owed(p)' = Owed(p)
  BY <1>3 DEF Owed
<1> QED  BY <1>1, <1>3, <1>4, <1>5, <1>7, <1>8 DEF Released

\* A step that hands the row a call owes to the history or to the lost rows
\* leaves the moves of every order as they are.
LEMMA SettledKeeps ==
  ASSUME IInv, NEW c \in Calls, NEW o, NEW row, Released(c, o, row),
         UNCHANGED orders,
         journal' \in [Orders -> Seq(Row)], lost' \in [Orders -> SUBSET Row],
         \A p \in Orders \ {o} : journal'[p] = journal[p] /\ lost'[p] = lost[p],
         \/ Written(o)' = Written(o) \cup {row} /\ lost'[o] = lost[o]
         \/ Written(o)' = Written(o) /\ lost'[o] = lost[o] \cup {row},
         \A i, j \in 1..Len(journal'[o]) :
           journal'[o][i].from = journal'[o][j].from => i = j
  PROVE  IInv'
<1>1. /\ o \in Orders /\ row \in Row
      /\ row \in Owed(o) /\ row \notin Written(o) /\ row \notin lost[o]
      /\ calls' \in [Calls -> Call] /\ calls'[c].pc = "idle"
      /\ \A d \in Calls \ {c} : calls'[d] = calls[d]
      /\ Owed(o)' = Owed(o) \ {row}
      /\ \A p \in Orders \ {o} : Owed(p)' = Owed(p)
  BY DEF Released
<1>2. \A p \in Orders \ {o} : Written(p)' = Written(p)
  BY DEF Written
<1>3. \A p \in Orders : Moves(p)' = Moves(p)
  <2>1. Moves(o)' = Moves(o)
    BY <1>1 DEF Moves
  <2>2. \A p \in Orders \ {o} : Moves(p)' = Moves(p)
    BY <1>1, <1>2 DEF Moves
  <2> QED  BY <2>1, <2>2
<1>4. TypeOK'
  BY <1>1 DEF IInv, TypeOK
<1>5. CallsSound'
  BY <1>1 DEF IInv, CallsSound
<1>6. OneWinner'
  <2>1. \A p \in Orders : \A r, s \in Moves(p)' : r.from = s.from => r = s
    BY <1>3 DEF IInv, OneWinner
  <2>2. \A d \in Calls : calls'[d].pc = "append" => calls'[d] = calls[d]
    BY <1>1
  <2>3. ASSUME NEW d \in Calls, NEW e \in Calls,
               calls'[d].pc = "append", calls'[e].pc = "append",
               calls'[d].order = calls'[e].order, calls'[d].order \in Orders
        PROVE  d = e \/ calls'[d].row.from # calls'[e].row.from
    BY <2>2, <2>3 DEF IInv, OneWinner
  <2> QED  BY <2>1, <2>3 DEF OneWinner
<1>7. WrittenOnce'
  <2>1. ASSUME NEW p \in Orders
        PROVE  /\ Written(p)' \cap (Owed(p)' \cup lost'[p]) = {}
               /\ Owed(p)' \cap lost'[p] = {}
               /\ \A i, j \in 1..Len(journal'[p]) :
                    journal'[p][i].from = journal'[p][j].from => i = j
    <3>1. /\ Written(p) \cap (Owed(p) \cup lost[p]) = {}
          /\ Owed(p) \cap lost[p] = {}
          /\ \A i, j \in 1..Len(journal[p]) :
                    journal[p][i].from = journal[p][j].from => i = j
      BY DEF IInv, WrittenOnce
    <3>2. CASE p = o
      <4>1. CASE Written(o)' = Written(o) \cup {row} /\ lost'[o] = lost[o]
        BY <4>1, <3>1, <3>2, <1>1
      <4>2. CASE Written(o)' = Written(o) /\ lost'[o] = lost[o] \cup {row}
        BY <4>2, <3>1, <3>2, <1>1
      <4> QED  BY <4>1, <4>2
    <3>3. CASE p # o
      BY <3>1, <3>3, <1>1, <1>2
    <3> QED  BY <3>2, <3>3
  <2> QED  BY <2>1 DEF WrittenOnce
<1>8. HistoryExplainsStatus'
  BY <1>3 DEF IInv, HistoryExplainsStatus, Explained
<1> QED  BY <1>4, <1>5, <1>6, <1>7, <1>8 DEF IInv

\* The row owed goes to the history, once.
LEMMA AppendHistoryKeeps ==
  ASSUME IInv, NEW c \in Calls, AppendHistory(c)
  PROVE  IInv'
<1>1. PICK o, row : Owes(c, o, row)
  BY DEF Owes, AppendHistory
<1>2. /\ calls[c].pc = "append"
      /\ journal' = [journal EXCEPT ![o] = Append(journal[o], row)]
      /\ orders' = orders /\ lost' = lost
  BY <1>1 DEF AppendHistory, Owes
<1>3. Released(c, o, row)
  <2>1. PICK a \in {"none", "204", "400", "404", "500"} : Return(c, a)
    BY DEF AppendHistory
  <2> QED  BY <1>1, <2>1, CallReturns
<1>4. /\ o \in Orders /\ row \in Row /\ row \in Owed(o)
      /\ row \notin Written(o)
  BY <1>3 DEF Released
<1>5. /\ journal \in [Orders -> Seq(Row)] /\ lost \in [Orders -> SUBSET Row]
      /\ journal[o] \in Seq(Row)
  BY <1>4 DEF IInv, TypeOK
<1>6. /\ Append(journal[o], row) \in Seq(Row)
      /\ Len(journal[o]) \in Nat
      /\ Len(Append(journal[o], row)) = Len(journal[o]) + 1
      /\ \A i \in 1..Len(journal[o]) : Append(journal[o], row)[i] = journal[o][i]
      /\ Append(journal[o], row)[Len(journal[o]) + 1] = row
      /\ {Append(journal[o], row)[i] : i \in 1..Len(Append(journal[o], row))}
           = {journal[o][i] : i \in 1..Len(journal[o])} \cup {row}
  <2>1. Len(journal[o]) \in Nat
    BY <1>5
  <2> QED  BY <2>1, <1>4, <1>5, AppendRows
<1>7. /\ journal'[o] = Append(journal[o], row)
      /\ journal' \in [Orders -> Seq(Row)]
      /\ \A p \in Orders \ {o} : journal'[p] = journal[p]
  BY <1>2, <1>4, <1>5, <1>6
<1>8. Written(o)' = Written(o) \cup {row}
  BY <1>6, <1>7 DEF Written
<1>9. \A i \in 1..Len(journal[o]) : journal[o][i].from # row.from
  <2>1. \A r \in Written(o) : r.from = row.from => r = row
    BY <1>4 DEF IInv, OneWinner, Moves
  <2>2. \A r \in Written(o) : r.from # row.from
    BY <2>1, <1>4
  <2> QED  BY <2>2 DEF Written
<1>10. ASSUME NEW i \in 1..Len(journal'[o]), NEW j \in 1..Len(journal'[o]),
              journal'[o][i].from = journal'[o][j].from
       PROVE  i = j
  <2>1. \A k, l \in 1..Len(journal[o]) :
          journal[o][k].from = journal[o][l].from => k = l
    BY <1>4 DEF IInv, WrittenOnce
  <2> QED  BY <2>1, <1>6, <1>7, <1>9, <1>10
<1> QED  BY <1>2, <1>3, <1>5, <1>7, <1>8, <1>10, SettledKeeps

\* The row owed is lost, and no other call can write it.
LEMMA AppendFailedKeeps ==
  ASSUME IInv, NEW c \in Calls, AppendFailed(c)
  PROVE  IInv'
<1>1. PICK o, row : Owes(c, o, row)
  BY DEF Owes, AppendFailed
<1>2. /\ Return(c, "500")
      /\ lost' = [lost EXCEPT ![o] = lost[o] \cup {row}]
      /\ orders' = orders /\ journal' = journal
  BY <1>1 DEF AppendFailed, Owes
<1>3. Released(c, o, row) /\ o \in Orders /\ row \in Row
  BY <1>1, <1>2, CallReturns DEF Released
<1>4. /\ journal \in [Orders -> Seq(Row)] /\ lost \in [Orders -> SUBSET Row]
  BY DEF IInv, TypeOK
<1>5. /\ lost'[o] = lost[o] \cup {row}
      /\ lost' \in [Orders -> SUBSET Row]
      /\ \A p \in Orders \ {o} : lost'[p] = lost[p]
  BY <1>2, <1>3, <1>4
<1>6. Written(o)' = Written(o)
  BY <1>2 DEF Written
<1>7. \A i, j \in 1..Len(journal'[o]) :
        journal'[o][i].from = journal'[o][j].from => i = j
  BY <1>2, <1>3 DEF IInv, WrittenOnce
<1> QED  BY <1>2, <1>3, <1>4, <1>5, <1>6, <1>7, SettledKeeps
-----------------------------------------------------------------------------
\* The initial states satisfy the inductive invariant.
LEMMA InitEstablishes == Init => IInv
<1> SUFFICES ASSUME Init PROVE IInv
  OBVIOUS
<1>1. /\ orders = [o \in Orders |-> NoStatus] /\ lost = [o \in Orders |-> {}]
      /\ journal = [o \in Orders |-> <<>>]
      /\ calls = [c \in Calls |-> Idle("none")]
  BY DEF Init
<1>2. Idle("none") \in Call /\ Idle("none").pc = "idle"
  BY IdleCall
<1>3. TypeOK
  BY <1>1, <1>2 DEF TypeOK, Statuses
<1>4. \A c \in Calls : calls[c].pc = "idle"
  BY <1>1, <1>2
<1>5. \A o \in Orders : /\ Written(o) = {} /\ Owed(o) = {} /\ lost[o] = {}
                       /\ Moves(o) = {}
  <2>1. \A o \in Orders : Len(journal[o]) = 0 /\ lost[o] = {}
    BY <1>1
  <2>2. \A o \in Orders : Written(o) = {}
    BY <2>1 DEF Written
  <2>3. \A o \in Orders : Owed(o) = {}
    BY <1>4 DEF Owed
  <2> QED  BY <2>1, <2>2, <2>3 DEF Moves
<1>6. CallsSound /\ OneWinner
  BY <1>4, <1>5 DEF CallsSound, OneWinner
<1>7. WrittenOnce
  <2>1. \A o \in Orders : Len(journal[o]) = 0
    BY <1>1
  <2> QED  BY <2>1, <1>5 DEF WrittenOnce
<1>8. HistoryExplainsStatus
  BY <1>1, <1>5 DEF HistoryExplainsStatus, Explained
<1> QED  BY <1>3, <1>6, <1>7, <1>8 DEF IInv

\* A call that reads, is refused, loses the race or ends before its UPDATE.
LEMMA CallKeeps ==
  ASSUME IInv, NEW c \in Calls,
         \/ ReadFailed(c)
         \/ UpdateMissed(c)
         \/ UpdateFailed(c)
         \/ \E o \in Orders : ReadNotFound(c, o)
         \/ \E o \in Orders, r \in Requests : ReadRefused(c, o, r)
  PROVE  IInv'
<1>1. PICK a \in {"none", "204", "400", "404", "500"} : Return(c, a)
  BY DEF ReadFailed, UpdateMissed, UpdateFailed, ReadNotFound, ReadRefused
<1>2. calls[c].pc # "append" /\ UNCHANGED <<orders, journal, lost>>
  BY DEF ReadFailed, UpdateMissed, UpdateFailed, ReadNotFound, ReadRefused
<1>3. PICK new : new = Idle(a)
  OBVIOUS
<1>4. new \in Call /\ new.pc = "idle" /\ calls' = [calls EXCEPT ![c] = new]
  BY <1>1, <1>3, IdleCall DEF Return
<1> QED  BY <1>2, <1>4, QuietStep

\* A call that goes on has an order that exists and an allowed transition.
LEMMA ReadKeeps ==
  ASSUME IInv, NEW c \in Calls, NEW o \in Orders, NEW r \in Requests, Read(c, o, r)
  PROVE  IInv'
<1>1. PICK new : new = [pc |-> "update", order |-> o,
                        row |-> [from |-> orders[o], to |-> r.to, by |-> r.by],
                        answer |-> "none"]
  OBVIOUS
<1>2. /\ calls[c].pc # "append" /\ UNCHANGED <<orders, journal, lost>>
      /\ orders[o] # NoStatus /\ CanTransition(orders[o], r.to)
      /\ calls' = [calls EXCEPT ![c] = new]
  BY <1>1 DEF Read
<1>3. orders[o] \in OrderStatuses
  BY <1>2 DEF IInv, TypeOK, Statuses
<1>4. r.to \in OrderStatuses /\ r.by \in Parties
  BY DEF Requests, ClientRequests, VenueRequests, Parties, OrderStatuses
<1>5. /\ new \in Call /\ new.pc = "update" /\ new.order = o
      /\ new.row \in Row /\ new.row.from = orders[o] /\ new.row.to = r.to
  BY <1>1, <1>3, <1>4 DEF Call, Row, Statuses
<1> QED  BY <1>2, <1>3, <1>5, QuietStep

\* Every step of the specification keeps the inductive invariant.
LEMMA NextKeeps == IInv /\ [Next]_vars => IInv'
<1> SUFFICES ASSUME IInv, [Next]_vars PROVE IInv'
  OBVIOUS
<1>1. ASSUME NEW o \in Orders, CreateOrder(o) PROVE IInv'
  BY <1>1, CreateOrderKeeps
<1>2. ASSUME NEW c \in Calls, ReadFailed(c) \/ UpdateMissed(c) \/ UpdateFailed(c)
      PROVE  IInv'
  BY <1>2, CallKeeps
<1>3. ASSUME NEW c \in Calls, Update(c) PROVE IInv'
  BY <1>3, UpdateKeeps
<1>4. ASSUME NEW c \in Calls, AppendHistory(c) PROVE IInv'
  BY <1>4, AppendHistoryKeeps
<1>5. ASSUME NEW c \in Calls, AppendFailed(c) PROVE IInv'
  BY <1>5, AppendFailedKeeps
<1>6. ASSUME NEW c \in Calls, NEW o \in Orders, ReadNotFound(c, o) PROVE IInv'
  BY <1>6, CallKeeps
<1>7. ASSUME NEW c \in Calls, NEW o \in Orders, NEW r \in Requests,
             ReadRefused(c, o, r)
      PROVE  IInv'
  BY <1>7, CallKeeps
<1>8. ASSUME NEW c \in Calls, NEW o \in Orders, NEW r \in Requests, Read(c, o, r)
      PROVE  IInv'
  BY <1>8, ReadKeeps
<1>9. CASE UNCHANGED vars
  <2>1. /\ orders' = orders /\ journal' = journal /\ calls' = calls
        /\ lost' = lost
    BY <1>9 DEF vars
  <2>2. \A o \in Orders : /\ Written(o)' = Written(o) /\ Owed(o)' = Owed(o)
                         /\ Moves(o)' = Moves(o)
    BY <2>1 DEF Written, Owed, Moves
  <2>3. TypeOK' /\ CallsSound'
    BY <2>1 DEF IInv, TypeOK, CallsSound
  <2>4. OneWinner'
    BY <2>1, <2>2 DEF IInv, OneWinner
  <2>5. WrittenOnce'
    BY <2>1, <2>2 DEF IInv, WrittenOnce
  <2>6. HistoryExplainsStatus'
    BY <2>1, <2>2 DEF IInv, HistoryExplainsStatus, Explained
  <2> QED  BY <2>3, <2>4, <2>5, <2>6 DEF IInv
<1> QED  BY <1>1, <1>2, <1>3, <1>4, <1>5, <1>6, <1>7, <1>8, <1>9 DEF Next, Step
-----------------------------------------------------------------------------
\* The conjunction the other theorems follow from is invariant.
THEOREM Invariance == Spec => []IInv
BY InitEstablishes, NextKeeps, PTL DEF Spec

\* The variables keep their types, for any orders and calls.
THEOREM TypeCorrect == Spec => []TypeOK
<1>1. IInv => TypeOK
  BY DEF IInv
<1> QED  BY <1>1, Invariance, PTL

\* At most one of the calls that race from one status of an order has an
\* effect, whatever the number of calls (UpdateStatus compares and sets).
THEOREM RaceHasOneWinner == Spec => []OneWinner
<1>1. IInv => OneWinner
  BY DEF IInv
<1> QED  BY <1>1, Invariance, PTL

\* No change of status is entered twice in order_status_history.
THEOREM HistoryWrittenOnce == Spec => []WrittenOnce
<1>1. IInv => WrittenOnce
  BY DEF IInv
<1> QED  BY <1>1, Invariance, PTL

\* The rows of order_status_history, completed by those that are on their way
\* or lost, are a path of the state machine that ends in orders.status.
THEOREM HistoryIsAPath == Spec => []HistoryExplainsStatus
<1>1. IInv => HistoryExplainsStatus
  BY DEF IInv
<1> QED  BY <1>1, Invariance, PTL

\* No call, however stale the status it has read, moves an order off the table.
THEOREM StatusNeverLeavesTable == Spec => StatusFollowsTable
<1> DEFINE Follows ==
      \A o \in Orders : orders'[o] # orders[o] =>
        IF orders[o] = NoStatus THEN orders'[o] = "CREATED"
                                ELSE CanTransition(orders[o], orders'[o])
<1>1. IInv /\ [Next]_vars => Follows
  <2> SUFFICES ASSUME IInv, [Next]_vars, NEW o \in Orders, orders'[o] # orders[o]
               PROVE  IF orders[o] = NoStatus THEN orders'[o] = "CREATED"
                      ELSE CanTransition(orders[o], orders'[o])
    OBVIOUS
  <2>1. orders \in [Orders -> Statuses]
    BY DEF IInv, TypeOK
  <2>2. CASE \E p \in Orders : CreateOrder(p)
    BY <2>1, <2>2 DEF CreateOrder
  <2>3. CASE \E c \in Calls : Update(c)
    <3>1. PICK c \in Calls : Update(c)
      BY <2>3
    <3>2. CanTransition(calls[c].row.from, calls[c].row.to) /\ orders[calls[c].order] # NoStatus
      BY <3>1 DEF Update, IInv, CallsSound
    <3> QED  BY <2>1, <3>1, <3>2 DEF Update
  <2>4. CASE UNCHANGED orders
    BY <2>4
  <2> QED  BY <2>2, <2>3, <2>4 DEF Next, Step, vars, ReadFailed, UpdateMissed,
              UpdateFailed, AppendHistory, AppendFailed, ReadNotFound,
              ReadRefused, Read
<1>2. IInv /\ [Next]_vars => [Follows]_vars
  BY <1>1
<1> QED  BY <1>2, Invariance, PTL DEF Spec, StatusFollowsTable
-----------------------------------------------------------------------------
\* The contract's state machine is that of the code.
LEMMA SameTable ==
  /\ Contract!NoStatus = NoStatus
  /\ Contract!OrderStatuses = OrderStatuses
  /\ \A s, t : Contract!CanTransition(s, t) <=> CanTransition(s, t)
BY DEF Contract!NoStatus, NoStatus, Contract!OrderStatuses, OrderStatuses,
       Contract!CanTransition, CanTransition, Contract!allowedTransitions,
       allowedTransitions

\* A call that returns does so in the contract too.
LEMMA ReturnMaps ==
  ASSUME IInv, NEW c \in Calls, NEW a \in {"none", "204", "400", "404", "500"},
         Return(c, a)
  PROVE  Contract!Return(c, a)
<1>1. /\ calls \in [Calls -> Call]
      /\ calls' = [calls EXCEPT ![c] = Idle(a)]
  BY DEF IInv, TypeOK, Return
<1>2. /\ Idle(a).pc = "idle" /\ Idle(a).order = NoStatus /\ Idle(a).answer = a
      /\ Idle(a).row.from = NoStatus /\ Idle(a).row.to = NoStatus
      /\ PhaseOf["idle"] = "idle"
  BY DEF Idle, NoRow, PhaseOf
<1>3. \A d \in Calls : contractCall'[d] = IF d = c THEN Contract!Idle(a)
                                                  ELSE contractCall[d]
  <2>1. contractCall'[c] = Contract!Idle(a)
    BY <1>1, <1>2, SameTable DEF contractCall, Contract!Idle
  <2>2. ASSUME NEW d \in Calls \ {c}
        PROVE  contractCall'[d] = contractCall[d]
    <3>1. calls'[d] = calls[d]
      BY <1>1
    <3> QED  BY <3>1 DEF contractCall
  <2> QED  BY <2>1, <2>2
<1>4. contractCall' = [contractCall EXCEPT ![c] = Contract!Idle(a)]
  BY <1>3 DEF contractCall
<1> QED  BY <1>4 DEF Contract!Return

\* What the contract sees of a call.
LEMMA CallMaps ==
  ASSUME NEW c \in Calls
  PROVE  /\ contractCall[c].order = calls[c].order
         /\ contractCall[c].from = calls[c].row.from
         /\ contractCall[c].to = calls[c].row.to
         /\ calls[c].pc = "idle" => contractCall[c].phase = "idle"
         /\ calls[c].pc = "update" => contractCall[c].phase = "pending"
         /\ calls[c].pc = "append" => contractCall[c].phase = "applied"
BY DEF contractCall, PhaseOf

\* Every step of the three statements is a step of the contract.
LEMMA StepMaps ==
  ASSUME IInv, [Next]_vars
  PROVE  [Contract!Next]_(Contract!contractVars)
<1>1. ASSUME NEW o \in Orders, CreateOrder(o)
      PROVE  Contract!Create(o)
  BY <1>1, SameTable DEF CreateOrder, Contract!Create, contractCall
<1>2. ASSUME NEW c \in Calls, ReadFailed(c)
      PROVE  Contract!FailEarly(c)
  BY <1>2, ReturnMaps, CallMaps DEF ReadFailed, Contract!FailEarly
<1>3. ASSUME NEW c \in Calls, Update(c)
      PROVE  Contract!Effect(c)
  <2>1. PICK o, row : o = calls[c].order /\ row = calls[c].row
    OBVIOUS
  <2>2. /\ calls[c].pc = "update" /\ CanTransition(row.from, row.to)
        /\ orders[o] = row.from
        /\ orders' = [orders EXCEPT ![o] = row.to]
        /\ calls' = [calls EXCEPT ![c].pc = "append"]
        /\ calls \in [Calls -> Call]
    BY <1>3, <2>1 DEF Update, IInv, CallsSound, TypeOK
  <2>3. contractCall' = [contractCall EXCEPT ![c].phase = "applied"]
    <3>1. ASSUME NEW d \in Calls
          PROVE  contractCall'[d] = IF d = c
                                      THEN [contractCall[d] EXCEPT !.phase = "applied"]
                                      ELSE contractCall[d]
      <4>1. CASE d = c
        BY <4>1, <2>2 DEF contractCall, PhaseOf, Call
      <4>2. CASE d # c
        BY <4>2, <2>2 DEF contractCall
      <4> QED  BY <4>1, <4>2
    <3> QED  BY <3>1 DEF contractCall
  <2> QED  BY <2>1, <2>2, <2>3, CallMaps, SameTable DEF Contract!Effect
<1>4. ASSUME NEW c \in Calls, UpdateMissed(c)
      PROVE  Contract!Overtaken(c)
  BY <1>4, ReturnMaps, CallMaps DEF UpdateMissed, Contract!Overtaken
<1>5. ASSUME NEW c \in Calls, UpdateFailed(c) \/ AppendFailed(c)
      PROVE  Contract!Fail(c)
  BY <1>5, ReturnMaps, CallMaps DEF UpdateFailed, AppendFailed, Contract!Fail
<1>6. ASSUME NEW c \in Calls, AppendHistory(c)
      PROVE  Contract!Succeed(c) \/ Contract!Fail(c)
  BY <1>6, ReturnMaps, CallMaps DEF AppendHistory, Contract!Succeed, Contract!Fail
<1>7. ASSUME NEW c \in Calls, NEW o \in Orders, ReadNotFound(c, o)
      PROVE  Contract!Refuse(c, o, "CREATED")
  BY <1>7, ReturnMaps, CallMaps, SameTable DEF ReadNotFound, Contract!Refuse
<1>8. ASSUME NEW c \in Calls, NEW o \in Orders, NEW r \in Requests,
             ReadRefused(c, o, r)
      PROVE  Contract!Refuse(c, o, r.to)
  BY <1>8, ReturnMaps, CallMaps, SameTable DEF ReadRefused, Contract!Refuse
<1>9. ASSUME NEW c \in Calls, NEW o \in Orders, NEW r \in Requests, Read(c, o, r)
      PROVE  Contract!Invoke(c, o, r.to)
  <2>1. /\ calls[c].pc = "idle" /\ orders[o] # NoStatus /\ orders' = orders
        /\ CanTransition(orders[o], r.to) /\ calls \in [Calls -> Call]
        /\ calls' = [calls EXCEPT ![c] =
             [pc |-> "update", order |-> o,
              row |-> [from |-> orders[o], to |-> r.to, by |-> r.by],
              answer |-> "none"]]
    BY <1>9 DEF Read, IInv, TypeOK
  <2>2. ASSUME NEW d \in Calls
        PROVE  contractCall'[d] =
                 IF d = c THEN [phase |-> "pending", order |-> o, from |-> orders[o],
                                to |-> r.to, answer |-> "none"]
                          ELSE contractCall[d]
    <3>1. CASE d = c
      BY <3>1, <2>1 DEF contractCall, PhaseOf
    <3>2. CASE d # c
      BY <3>2, <2>1 DEF contractCall
    <3> QED  BY <3>1, <3>2
  <2>3. contractCall' = [contractCall EXCEPT ![c] =
          [phase |-> "pending", order |-> o, from |-> orders[o],
           to |-> r.to, answer |-> "none"]]
    BY <2>2 DEF contractCall
  <2> QED  BY <2>1, <2>3, CallMaps, SameTable DEF Contract!Invoke
<1>10. ASSUME UNCHANGED vars
       PROVE  UNCHANGED Contract!contractVars
  BY <1>10 DEF vars, contractCall, Contract!contractVars
<1>11. \A r \in Requests : r.to \in Contract!OrderStatuses
  BY SameTable DEF Requests, ClientRequests, VenueRequests, OrderStatuses
<1>12. "CREATED" \in Contract!OrderStatuses
  BY DEF Contract!OrderStatuses
<1>13. CASE \E o \in Orders : CreateOrder(o)
  BY <1>13, <1>1 DEF Contract!Next
<1>14. CASE \E c \in Calls : Step(c)
  BY <1>14, <1>2, <1>3, <1>4, <1>5, <1>6 DEF Step, Contract!Step, Contract!Next
<1>15. CASE \E c \in Calls, o \in Orders : ReadNotFound(c, o)
  BY <1>15, <1>7, <1>12 DEF Contract!Next
<1>16. CASE \E c \in Calls, o \in Orders, r \in Requests :
              ReadRefused(c, o, r) \/ Read(c, o, r)
  BY <1>16, <1>8, <1>9, <1>11 DEF Contract!Next
<1> QED  BY <1>10, <1>13, <1>14, <1>15, <1>16 DEF Next

\* The initial states are initial states of the contract.
LEMMA InitMaps == Init => Contract!Init
<1> SUFFICES ASSUME Init PROVE Contract!Init
  OBVIOUS
<1>1. orders = [o \in Orders |-> NoStatus] /\ calls = [c \in Calls |-> Idle("none")]
  BY DEF Init
<1>2. \A c \in Calls : contractCall[c] = Contract!Idle("none")
  BY <1>1, SameTable DEF contractCall, Idle, NoRow, PhaseOf, Contract!Idle
<1> QED  BY <1>1, <1>2, SameTable DEF Contract!Init, contractCall

\* ChangeStatus keeps the promise of StatusContract for any number of orders
\* and of concurrent calls: at most one effect per call, made in one step, and
\* an answer that is true of it.
THEOREM RefinesContract == Spec => ContractSpec
BY InitEstablishes, InitMaps, NextKeeps, StepMaps, PTL
   DEF Spec, ContractSpec, Contract!Spec
==============================================================================
