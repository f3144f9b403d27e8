---------------------------- MODULE Importer_proofs ----------------------------
(***************************************************************************)
(* Proofs about Importer for every value of its constants: however reads,  *)
(* flushes, inserts, commits, failures and stops interleave, a row is in   *)
(* one place, and the counters of the status are those of its session.     *)
(***************************************************************************)
EXTENDS Importer, FiniteSetTheorems, TLAPS

-----------------------------------------------------------------------------
(* The inductive invariant.                                                *)

(* What TypeOK leaves to the other conjuncts.                              *)
StatusType ==
  [st : {"none", "importing", "stopping", "finished", "failed"},
   imported : Nat, skipped : Nat, failed : Nat, by : Sessions \cup {NoSession}]
ReaderType ==
  [pc : {"none", "open", "loop", "flush", "drain", "fail", "end"},
   next : Nat \ {0}, window : Seq(Nat)]
WriterType ==
  [pc : {"none", "receive", "insert", "rolled back", "commit", "last", "count",
         "count last", "finish", "fail", "end"},
   row : Nat, tx : SUBSET Nat, batch : Nat]
Types ==
  /\ status \in StatusType
  /\ stop \in Sessions \cup {NoSession}
  /\ caller \in [Sessions -> {"idle", "checked", "made"}]
  /\ reader \in [Sessions -> ReaderType]
  /\ queue \in [Sessions -> Seq(Nat)]
  /\ closed \in [Sessions -> BOOLEAN]
  /\ writer \in [Sessions -> WriterType]
  /\ saved \in [Sessions -> SUBSET Nat]
  /\ dropped \in [Sessions -> SUBSET Nat]
  /\ stopper \in [pc : {"idle", "clear", "signal", "mark"}, seen : Sessions \cup {NoSession}]
  /\ stops \in Nat /\ faults \in Nat /\ stops + faults <= MaxEvents
  /\ torn \in BOOLEAN /\ late \in BOOLEAN /\ alone \in BOOLEAN

(* The places of a row: the window, the queue, the row being inserted, the *)
(* transaction, the table, and the rows lost.                              *)
Window(s) == Range(reader[s].window)
Waiting(s) == Range(queue[s])
Row(s) == IF writer[s].pc = "insert" THEN {writer[s].row} ELSE {}
Good(s) == (1..(reader[s].next - 1)) \ Bad
Tx(s) == writer[s].tx

Distinct(q) == \A i, j \in DOMAIN q : q[i] = q[j] => i = j

(* Every good row that was read is in exactly one of them.                 *)
Placed(s) ==
  /\ Window(s) \cup Waiting(s) \cup Row(s) \cup Tx(s) \cup saved[s] \cup dropped[s] = Good(s)
  /\ Distinct(reader[s].window) /\ Distinct(queue[s])
  /\ Window(s) \cap (Waiting(s) \cup Row(s) \cup Tx(s) \cup saved[s] \cup dropped[s]) = {}
  /\ Waiting(s) \cap (Row(s) \cup Tx(s) \cup saved[s] \cup dropped[s]) = {}
  /\ Row(s) \cap (Tx(s) \cup saved[s] \cup dropped[s]) = {}
  /\ saved[s] \cap dropped[s] = {}
  /\ IF writer[s].pc \in {"count", "count last"} THEN Tx(s) \subseteq saved[s]
     ELSE Tx(s) \cap saved[s] = {}
  /\ IF writer[s].pc = "rolled back" THEN Tx(s) \subseteq dropped[s]
     ELSE Tx(s) \cap dropped[s] = {}

(* The window is flushed when it has a batch of rows.                      *)
Room(s) ==
  /\ Len(reader[s].window) <= BatchSize /\ Len(queue[s]) <= BatchSize
  /\ reader[s].pc = "loop" => Len(reader[s].window) < BatchSize
  /\ reader[s].pc \in {"none", "open"} => reader[s].window = <<>>

(* A session that is not made has done nothing.                            *)
Fresh(s) ==
  caller[s] # "made" =>
    /\ reader[s] = [pc |-> "none", next |-> 1, window |-> <<>>]
    /\ queue[s] = <<>> /\ ~closed[s]
    /\ writer[s] = [pc |-> "none", row |-> 0, tx |-> {}, batch |-> 0]
    /\ saved[s] = {} /\ dropped[s] = {}

(* The queue is closed on an empty window; the writer leaves its loop with *)
(* nothing in hand, unless a call of the database failed.                  *)
Emptied(s) ==
  /\ closed[s] => reader[s].pc = "end" /\ reader[s].window = <<>>
  /\ writer[s].pc \in {"last", "count last"} => closed[s] /\ queue[s] = <<>>
  /\ writer[s].pc \in {"none", "finish", "fail", "end"} => Tx(s) = {}
  /\ writer[s].pc \in {"finish", "fail", "end"} => faults > 0 \/ (closed[s] /\ queue[s] = <<>>)
  /\ dropped[s] # {} => faults > 0
  /\ writer[s].pc = "rolled back" => faults > 0

(* The status counts the rows of the session it was made for, if no other  *)
(* was at work.                                                            *)
Told(s) ==
  /\ status.imported + (IF writer[s].pc \in {"count", "count last"} THEN Cardinality(Tx(s)) ELSE 0)
       = Cardinality(saved[s])
  /\ status.failed + (IF writer[s].pc = "rolled back" THEN Cardinality(Tx(s)) ELSE 0)
       <= Cardinality(dropped[s])
  /\ status.skipped = Cardinality((1..(reader[s].next - 1)) \cap Bad)
  /\ status.st = "finished" => writer[s].pc = "end"
Alone(s) == \A t \in Sessions \ {s} : ~AtWork(t)
Counted(s) == alone /\ status.by = s => Told(s) /\ Alone(s)

SessionInv(s) == Placed(s) /\ Room(s) /\ Fresh(s) /\ Emptied(s) /\ Counted(s)
IInv == Types /\ \A s \in Sessions : SessionInv(s)

-----------------------------------------------------------------------------
(* Sequences without repetitions, and the places of a row.                 *)

LEMMA AppendRange ==
  ASSUME NEW q \in Seq(Nat), NEW x \in Nat
  PROVE  /\ Append(q, x) \in Seq(Nat) /\ Len(Append(q, x)) = Len(q) + 1
         /\ Range(Append(q, x)) = Range(q) \cup {x}
         /\ Distinct(q) /\ x \notin Range(q) => Distinct(Append(q, x))
<1> DEFINE a == Append(q, x)
<1>1. /\ a \in Seq(Nat) /\ Len(a) = Len(q) + 1
      /\ DOMAIN q = 1..Len(q) /\ DOMAIN a = 1..(Len(q) + 1) /\ Len(q) \in Nat
      /\ a[Len(q) + 1] = x /\ \A i \in 1..Len(q) : a[i] = q[i]
  OBVIOUS
<1> HIDE DEF a
<1>2. Range(a) = Range(q) \cup {x}
  <2>1. Range(a) \subseteq Range(q) \cup {x}
    BY <1>1 DEF Range
  <2>2. Range(q) \cup {x} \subseteq Range(a)
    BY <1>1 DEF Range
  <2> QED
    BY <2>1, <2>2
<1>3. ASSUME Distinct(q), x \notin Range(q) PROVE Distinct(a)
  <2> SUFFICES ASSUME NEW i \in 1..(Len(q) + 1), NEW j \in 1..(Len(q) + 1), a[i] = a[j]
               PROVE  i = j
    BY <1>1 DEF Distinct
  <2>1. \A k \in 1..Len(q) : a[k] # x
    BY <1>1, <1>3 DEF Range
  <2>2. \A k \in 1..(Len(q) + 1) : k \in 1..Len(q) \/ k = Len(q) + 1
    BY <1>1
  <2>3. CASE i \in 1..Len(q) /\ j \in 1..Len(q)
    BY <1>1, <1>3, <2>3 DEF Distinct
  <2>4. CASE i \notin 1..Len(q) \/ j \notin 1..Len(q)
    BY <1>1, <2>1, <2>2, <2>4
  <2> QED
    BY <2>3, <2>4
<1> QED
  BY <1>1, <1>2, <1>3 DEF a

LEMMA TailRange ==
  ASSUME NEW q \in Seq(Nat), q # <<>>
  PROVE  /\ Tail(q) \in Seq(Nat) /\ Len(Tail(q)) = Len(q) - 1 /\ Len(q) \in Nat
         /\ Head(q) \in Nat /\ Head(q) \in Range(q)
         /\ Distinct(q) => /\ Range(Tail(q)) = Range(q) \ {Head(q)}
                           /\ Distinct(Tail(q))
<1> DEFINE r == Tail(q)
<1>1. /\ r \in Seq(Nat) /\ Len(r) = Len(q) - 1 /\ Len(q) \in Nat \ {0}
      /\ DOMAIN q = 1..Len(q) /\ DOMAIN r = 1..(Len(q) - 1)
      /\ \A i \in 1..(Len(q) - 1) : r[i] = q[i + 1]
      /\ Head(q) = q[1] /\ Head(q) \in Nat
  OBVIOUS
<1> HIDE DEF r
<1>2. ASSUME NEW i \in 1..(Len(q) - 1) PROVE i + 1 \in 1..Len(q) /\ i + 1 # 1
  BY <1>1
<1>3. ASSUME NEW i \in 1..Len(q), i # 1
      PROVE  i - 1 \in 1..(Len(q) - 1) /\ (i - 1) + 1 = i
  BY <1>1, <1>3
<1>4. 1 \in 1..Len(q)
  BY <1>1
<1>5. ASSUME Distinct(q) PROVE Distinct(r)
  <2> SUFFICES ASSUME NEW i \in 1..(Len(q) - 1), NEW j \in 1..(Len(q) - 1), r[i] = r[j]
               PROVE  i = j
    BY <1>1 DEF Distinct
  <2>1. q[i + 1] = q[j + 1]
    BY <1>1
  <2>2. i + 1 = j + 1
    BY <1>1, <1>2, <1>5, <2>1 DEF Distinct
  <2> QED
    BY <2>2
<1>6. ASSUME Distinct(q) PROVE Range(r) \subseteq Range(q) \ {Head(q)}
  <2> SUFFICES ASSUME NEW i \in 1..(Len(q) - 1) PROVE r[i] \in Range(q) \ {Head(q)}
    BY <1>1 DEF Range
  <2>1. q[i + 1] # q[1]
    BY <1>1, <1>2, <1>4, <1>6 DEF Distinct
  <2> QED
    BY <1>1, <1>2, <2>1 DEF Range
<1>7. Range(q) \ {Head(q)} \subseteq Range(r)
  <2> SUFFICES ASSUME NEW i \in 1..Len(q), q[i] # q[1] PROVE q[i] \in Range(r)
    BY <1>1 DEF Range
  <2>1. r[i - 1] = q[i] /\ i - 1 \in 1..(Len(q) - 1)
    BY <1>1, <1>3
  <2> QED
    BY <1>1, <2>1 DEF Range
<1>8. Head(q) \in Range(q)
  BY <1>1, <1>4 DEF Range
<1>9. Distinct(q) => Range(r) = Range(q) \ {Head(q)} /\ Distinct(r)
  BY <1>5, <1>6, <1>7
<1> QED
  BY <1>1, <1>8, <1>9 DEF r

(* A new interval, one row longer.                                         *)
LEMMA OneMore ==
  ASSUME NEW n \in Nat \ {0}
  PROVE  1..((n + 1) - 1) = (1..(n - 1)) \cup {n} /\ n \notin 1..(n - 1)
OBVIOUS

(* The rows read are finitely many, good and bad.                          *)
LEMMA GoodAndBad ==
  ASSUME NEW n \in Nat \ {0}
  PROVE  /\ IsFiniteSet((1..(n - 1)) \ Bad)
         /\ IsFiniteSet((1..(n - 1)) \cap Bad)
         /\ Cardinality((1..(n - 1)) \cap Bad) \in Nat
         /\ Cardinality((1..(n - 1)) \ Bad) \in Nat
         /\ Cardinality((1..(n - 1)) \ Bad) + Cardinality((1..(n - 1)) \cap Bad) = n - 1
<1> DEFINE all == 1..(n - 1)
<1>1. IsFiniteSet(all) /\ Cardinality(all) = n - 1
  BY FS_Interval
<1> HIDE DEF all
<1>2. IsFiniteSet(all \ Bad) /\ IsFiniteSet(all \cap Bad)
  BY <1>1, FS_Subset
<1>3. Cardinality(all \ Bad) \in Nat /\ Cardinality(all \cap Bad) \in Nat
  BY <1>2, FS_CardinalityType
<1>4. Cardinality(all \ Bad) = Cardinality(all) - Cardinality(all \cap Bad)
  BY <1>1, FS_Difference
<1> QED
  BY <1>1, <1>2, <1>3, <1>4 DEF all

(* So are the rows in each place.                                          *)
LEMMA PlacesFinite ==
  ASSUME IInv, NEW s \in Sessions
  PROVE  /\ IsFiniteSet(Tx(s)) /\ Cardinality(Tx(s)) \in Nat
         /\ IsFiniteSet(saved[s]) /\ Cardinality(saved[s]) \in Nat
         /\ IsFiniteSet(dropped[s]) /\ Cardinality(dropped[s]) \in Nat
<1>1. reader[s].next \in Nat \ {0}
  BY DEF IInv, Types, ReaderType
<1>2. IsFiniteSet(Good(s))
  BY <1>1, GoodAndBad DEF Good
<1>3. Tx(s) \subseteq Good(s) /\ saved[s] \subseteq Good(s) /\ dropped[s] \subseteq Good(s)
  BY DEF IInv, SessionInv, Placed
<1> QED
  BY <1>2, <1>3, FS_Subset, FS_CardinalityType

(* Two sets without a common row.                                          *)
LEMMA SumOfTwo ==
  ASSUME NEW A, NEW B, IsFiniteSet(A), IsFiniteSet(B), A \cap B = {}
  PROVE  /\ IsFiniteSet(A \cup B)
         /\ Cardinality(A \cup B) = Cardinality(A) + Cardinality(B)
<1>1. Cardinality(A \cup B) = Cardinality(A) + Cardinality(B) - Cardinality(A \cap B)
  BY FS_Union
<1>2. Cardinality(A \cap B) = 0
  BY FS_EmptySet
<1>3. Cardinality(A) \in Nat /\ Cardinality(B) \in Nat
  BY FS_CardinalityType
<1> QED
  BY <1>1, <1>2, <1>3, FS_Union

-----------------------------------------------------------------------------
(* What a step of one session leaves alone.                                *)
SameSession(t) ==
  /\ reader'[t] = reader[t] /\ queue'[t] = queue[t] /\ closed'[t] = closed[t]
  /\ writer'[t] = writer[t] /\ saved'[t] = saved[t] /\ dropped'[t] = dropped[t]
  /\ caller'[t] = caller[t]

(* The parts of the invariant that look at the session alone.              *)
LEMMA Untouched ==
  ASSUME IInv, NEW t \in Sessions, SameSession(t), faults' \in Nat, faults' >= faults
  PROVE  Placed(t)' /\ Room(t)' /\ Fresh(t)' /\ Emptied(t)' /\ (AtWork(t)' <=> AtWork(t))
<1>1. faults \in Nat
  BY DEF IInv, Types
<1>2. Placed(t)'
  <2>1. /\ Window(t)' = Window(t) /\ Waiting(t)' = Waiting(t) /\ Row(t)' = Row(t)
        /\ Tx(t)' = Tx(t) /\ Good(t)' = Good(t)
    BY DEF SameSession, Window, Waiting, Row, Tx, Good
  <2> QED
    BY <2>1 DEF IInv, SessionInv, SameSession, Placed
<1>3. Room(t)' /\ Fresh(t)'
  BY DEF IInv, SessionInv, SameSession, Room, Fresh
<1>4. Emptied(t)'
  <2>1. faults > 0 => faults' > 0
    BY <1>1
  <2>2. Tx(t)' = Tx(t)
    BY DEF SameSession, Tx
  <2>3. Emptied(t)
    BY DEF IInv, SessionInv
  <2> QED
    BY <2>1, <2>2, <2>3 DEF SameSession, Emptied
<1> QED
  BY <1>2, <1>3, <1>4 DEF SameSession, AtWork

(* While a session is at work no other has a status that must be right.    *)
LEMMA Elsewhere ==
  ASSUME IInv, NEW s \in Sessions, AtWork(s),
         \A t \in Sessions \ {s} : SameSession(t),
         status'.by = status.by, alone' = alone, faults' \in Nat, faults' >= faults
  PROVE  /\ \A t \in Sessions \ {s} : SessionInv(t)'
         /\ \A t \in Sessions \ {s} : AtWork(t)' <=> AtWork(t)
<1>1. ASSUME NEW t \in Sessions \ {s} PROVE SessionInv(t)' /\ (AtWork(t)' <=> AtWork(t))
  <2>1. /\ Placed(t)' /\ Room(t)' /\ Fresh(t)' /\ Emptied(t)'
        /\ AtWork(t)' <=> AtWork(t)
    BY Untouched
  <2>2. Counted(t)'
    BY DEF IInv, SessionInv, Counted, Alone
  <2> QED
    BY <2>1, <2>2 DEF SessionInv
<1> QED
  BY <1>1

(* A step of one session: what is left to show is about that session.      *)
LEMMA OneSession ==
  ASSUME IInv, NEW s \in Sessions, AtWork(s),
         \A t \in Sessions \ {s} : SameSession(t),
         caller' = caller, status'.by = status.by, alone' = alone,
         faults' >= faults, Types',
         Placed(s)', Room(s)', Emptied(s)',
         alone /\ status.by = s /\ Told(s) => Told(s)'
  PROVE  IInv'
<1>1. faults' \in Nat
  BY DEF Types
<1>2. /\ \A t \in Sessions \ {s} : SessionInv(t)'
      /\ \A t \in Sessions \ {s} : AtWork(t)' <=> AtWork(t)
  BY <1>1, Elsewhere
<1>3. Fresh(s)'
  BY DEF IInv, SessionInv, Fresh, AtWork
<1>4. Counted(s)'
  BY <1>2 DEF IInv, SessionInv, Counted, Alone
<1> QED
  BY <1>2, <1>3, <1>4 DEF IInv, SessionInv

(* A step that only looks, or only marks the status of its session.        *)
LEMMA QuietStep ==
  ASSUME IInv, \A t \in Sessions : SameSession(t),
         faults' = faults, alone' = alone, Types',
         \/ status'.by = NoSession
         \/ \E st \in {status.st, "stopping"} : status' = [status EXCEPT !.st = st]
  PROVE  IInv'
<1>1. faults' \in Nat /\ faults' >= faults
  BY DEF IInv, Types
<1>2. ASSUME NEW t \in Sessions
      PROVE  /\ Placed(t)' /\ Room(t)' /\ Fresh(t)' /\ Emptied(t)'
             /\ AtWork(t)' <=> AtWork(t)
  BY <1>1, Untouched
<1>3. ASSUME NEW t \in Sessions PROVE Counted(t)'
  <2>1. CASE status'.by = NoSession
    BY <2>1, ImporterAssumption DEF Counted
  <2>2. ASSUME NEW st \in {status.st, "stopping"}, status' = [status EXCEPT !.st = st]
        PROVE  Counted(t)'
    <3>1. /\ status'.by = status.by /\ status'.imported = status.imported
          /\ status'.skipped = status.skipped /\ status'.failed = status.failed
          /\ status'.st = "finished" => status.st = "finished"
      BY <2>2 DEF IInv, Types, StatusType
    <3>2. alone' /\ status'.by = t => Told(t) /\ Alone(t)
      BY <3>1 DEF IInv, SessionInv, Counted
    <3>3. Told(t) => Told(t)'
      BY <3>1 DEF Told, SameSession, Tx
    <3>4. Alone(t) => Alone(t)'
      BY <1>2 DEF Alone
    <3> QED
      BY <3>2, <3>3, <3>4 DEF Counted
  <2> QED
    BY <2>1, <2>2
<1> QED
  BY <1>2, <1>3 DEF IInv, SessionInv

-----------------------------------------------------------------------------
(* The initial states.                                                     *)
LEMMA InitHolds == Init => IInv
<1> SUFFICES ASSUME Init PROVE IInv
  OBVIOUS
<1>1. Types
  <2>1. reader \in [Sessions -> ReaderType] /\ writer \in [Sessions -> WriterType]
    BY DEF Init, ReaderType, WriterType
  <2>2. /\ queue \in [Sessions -> Seq(Nat)] /\ saved \in [Sessions -> SUBSET Nat]
        /\ dropped \in [Sessions -> SUBSET Nat] /\ closed \in [Sessions -> BOOLEAN]
        /\ caller \in [Sessions -> {"idle", "checked", "made"}]
    BY DEF Init
  <2>3. status \in StatusType /\ stop \in Sessions \cup {NoSession}
    BY DEF Init, Cleared, StatusType
  <2>4. stopper \in [pc : {"idle", "clear", "signal", "mark"}, seen : Sessions \cup {NoSession}]
    BY DEF Init, NoRequest
  <2>5. /\ stops \in Nat /\ faults \in Nat /\ stops + faults <= MaxEvents
        /\ torn \in BOOLEAN /\ late \in BOOLEAN /\ alone \in BOOLEAN
    <3>1. stops = 0 /\ faults = 0
      BY DEF Init
    <3>2. MaxEvents \in Nat
      BY ImporterAssumption
    <3>3. torn \in BOOLEAN /\ late \in BOOLEAN /\ alone \in BOOLEAN
      BY DEF Init
    <3> QED
      BY <3>1, <3>2, <3>3
  <2> QED
    BY <2>1, <2>2, <2>3, <2>4, <2>5 DEF Types
<1>2. ASSUME NEW s \in Sessions PROVE SessionInv(s)
  <2>1. /\ reader[s] = [pc |-> "none", next |-> 1, window |-> <<>>]
        /\ queue[s] = <<>> /\ ~closed[s]
        /\ writer[s] = [pc |-> "none", row |-> 0, tx |-> {}, batch |-> 0]
        /\ saved[s] = {} /\ dropped[s] = {}
    BY DEF Init
  <2>2. /\ Window(s) = {} /\ Waiting(s) = {} /\ Row(s) = {} /\ Tx(s) = {} /\ Good(s) = {}
    BY <2>1 DEF Window, Waiting, Row, Tx, Good, Range
  <2>3. Placed(s)
    BY <2>1, <2>2 DEF Placed, Distinct
  <2>4. Room(s) /\ Fresh(s) /\ Emptied(s)
    BY <2>1, <2>2, ImporterAssumption DEF Room, Fresh, Emptied
  <2>5. Counted(s)
    BY ImporterAssumption DEF Init, Counted, Cleared
  <2> QED
    BY <2>3, <2>4, <2>5 DEF SessionInv
<1> QED
  BY <1>1, <1>2 DEF IInv

-----------------------------------------------------------------------------
(* NewSession and Stop.                                                    *)

(* The check of NewSession changes the request only.                       *)
LEMMA CheckDoneKeeps ==
  ASSUME IInv, NEW s \in Sessions, CheckDone(s)
  PROVE  IInv'
<1> USE DEF CheckDone, history
<1>1. Types'
  BY DEF IInv, Types
<1>2. faults' \in Nat /\ faults' >= faults
  BY DEF IInv, Types
<1>3. ASSUME NEW t \in Sessions \ {s} PROVE SameSession(t)
  BY <1>3 DEF SameSession, IInv, Types
<1>4. /\ reader'[s] = reader[s] /\ queue'[s] = queue[s] /\ closed'[s] = closed[s]
      /\ writer'[s] = writer[s] /\ saved'[s] = saved[s] /\ dropped'[s] = dropped[s]
      /\ caller[s] # "made"
  OBVIOUS
<1>5. Placed(s)' /\ Room(s)' /\ Emptied(s)'
  <2>1. /\ Window(s)' = Window(s) /\ Waiting(s)' = Waiting(s) /\ Row(s)' = Row(s)
        /\ Tx(s)' = Tx(s) /\ Good(s)' = Good(s)
    BY <1>4 DEF Window, Waiting, Row, Tx, Good
  <2> QED
    BY <1>4, <2>1 DEF IInv, SessionInv, Placed, Room, Emptied
<1>6. Fresh(s)'
  BY <1>4 DEF IInv, SessionInv, Fresh
<1>7. \A t \in Sessions : Counted(t)'
  BY DEF IInv, SessionInv, Counted, Told, Alone, AtWork, Tx
<1>8. ASSUME NEW t \in Sessions \ {s} PROVE SessionInv(t)'
  BY <1>2, <1>3, <1>7, Untouched DEF SessionInv
<1> QED
  BY <1>1, <1>5, <1>6, <1>7, <1>8 DEF IInv, SessionInv

(* A new session starts with its counts at 0 and nothing in any place.     *)
LEMMA NewSessionKeeps ==
  ASSUME IInv, NEW s \in Sessions, NewSession(s)
  PROVE  IInv'
<1>1. /\ caller[s] = "checked" /\ caller' = [caller EXCEPT ![s] = "made"]
      /\ status' = [Cleared EXCEPT !.st = "importing", !.by = s]
      /\ reader' = [reader EXCEPT ![s].pc = "open"]
      /\ writer' = [writer EXCEPT ![s].pc = "receive"]
      /\ alone' = (alone /\ \A t \in Sessions : ~AtWork(t))
      /\ UNCHANGED <<stop, queue, closed, saved, dropped, stopper, stops, faults, torn, late>>
  BY DEF NewSession
<1>2. /\ reader[s] = [pc |-> "none", next |-> 1, window |-> <<>>]
      /\ queue[s] = <<>> /\ ~closed[s]
      /\ writer[s] = [pc |-> "none", row |-> 0, tx |-> {}, batch |-> 0]
      /\ saved[s] = {} /\ dropped[s] = {}
  BY <1>1 DEF IInv, SessionInv, Fresh
<1>3. /\ reader'[s].pc = "open" /\ reader'[s].next = 1 /\ reader'[s].window = <<>>
      /\ writer'[s].pc = "receive" /\ writer'[s].tx = {}
      /\ caller'[s] = "made"
      /\ \A t \in Sessions \ {s} : /\ reader'[t] = reader[t] /\ writer'[t] = writer[t]
                                  /\ caller'[t] = caller[t]
  <2>1. /\ reader'[s] = [reader[s] EXCEPT !.pc = "open"]
        /\ writer'[s] = [writer[s] EXCEPT !.pc = "receive"]
        /\ caller'[s] = "made"
        /\ \A t \in Sessions \ {s} : /\ reader'[t] = reader[t] /\ writer'[t] = writer[t]
                                    /\ caller'[t] = caller[t]
    BY <1>1 DEF IInv, Types
  <2> QED
    BY <1>2, <2>1
<1>4. /\ status' \in StatusType /\ status'.by = s /\ status'.imported = 0 /\ status'.failed = 0
      /\ status'.skipped = 0 /\ status'.st = "importing"
  BY <1>1 DEF Cleared, StatusType
<1>5. Types'
  <2>1. reader' \in [Sessions -> ReaderType]
    BY <1>1, <1>2 DEF IInv, Types, ReaderType
  <2>2. writer' \in [Sessions -> WriterType]
    BY <1>1, <1>2 DEF IInv, Types, WriterType
  <2>3. caller' \in [Sessions -> {"idle", "checked", "made"}] /\ alone' \in BOOLEAN
    BY <1>1 DEF IInv, Types
  <2> QED
    BY <1>1, <1>4, <2>1, <2>2, <2>3 DEF IInv, Types
<1>6. Window(s)' = {} /\ Waiting(s)' = {} /\ Row(s)' = {} /\ Tx(s)' = {} /\ Good(s)' = {}
  BY <1>1, <1>2, <1>3 DEF Window, Waiting, Row, Tx, Good, Range
<1>7. Placed(s)' /\ Room(s)' /\ Fresh(s)' /\ Emptied(s)'
  <2>1. Placed(s)'
    BY <1>1, <1>2, <1>3, <1>6 DEF Placed, Distinct
  <2>2. Room(s)'
    BY <1>1, <1>2, <1>3, ImporterAssumption DEF Room
  <2>3. Fresh(s)'
    BY <1>3 DEF Fresh
  <2>4. Emptied(s)'
    <3>1. writer'[s].pc = "receive" /\ ~closed'[s] /\ dropped'[s] = {}
      BY <1>1, <1>2, <1>3
    <3> QED
      BY <3>1 DEF Emptied
  <2> QED
    BY <2>1, <2>2, <2>3, <2>4
<1>8. ASSUME NEW t \in Sessions \ {s}
      PROVE  Placed(t)' /\ Room(t)' /\ Fresh(t)' /\ Emptied(t)' /\ (AtWork(t)' <=> AtWork(t))
  <2>1. SameSession(t) /\ faults' \in Nat /\ faults' >= faults
    BY <1>1, <1>3 DEF SameSession, IInv, Types
  <2> QED
    BY <2>1, Untouched
<1>9. Counted(s)'
  <2>1. Told(s)'
    <3>1. Cardinality({}) = 0 /\ (1..(reader'[s].next - 1)) \cap Bad = {}
      BY <1>3, FS_EmptySet
    <3>2. writer'[s].pc = "receive" /\ saved'[s] = {} /\ dropped'[s] = {}
      BY <1>1, <1>2, <1>3
    <3>3. /\ Cardinality(saved'[s]) = 0 /\ Cardinality(dropped'[s]) = 0
          /\ Cardinality((1..(reader'[s].next - 1)) \cap Bad) = 0
      BY <3>1, <3>2
    <3> QED
      BY <1>4, <3>2, <3>3 DEF Told
  <2>2. alone' => Alone(s)'
    BY <1>1, <1>8 DEF Alone
  <2> QED
    BY <2>1, <2>2 DEF Counted
<1>10. \A t \in Sessions \ {s} : Counted(t)'
  BY <1>4 DEF Counted
<1> QED
  BY <1>5, <1>7, <1>8, <1>9, <1>10 DEF IInv, SessionInv

(* The requests that stop an import touch no session.                      *)
LEMMA StopKeeps ==
  ASSUME IInv, StopAsks \/ Stop
  PROVE  IInv'
<1>1. /\ \A t \in Sessions : SameSession(t)
      /\ faults' = faults /\ alone' = alone
  BY DEF StopAsks, Stop, StopClears, StopSignals, StopMarks, history, SameSession
<1>2. CASE StopAsks
  <2>1. Types'
    <3>1. stopper' \in [pc : {"idle", "clear", "signal", "mark"}, seen : Sessions \cup {NoSession}]
      BY <1>2 DEF StopAsks, IInv, Types, StatusType
    <3>2. stops' \in Nat /\ stops' + faults' <= MaxEvents
      BY <1>2, ImporterAssumption DEF StopAsks, IInv, Types
    <3> QED
      BY <1>2, <3>1, <3>2 DEF StopAsks, history, IInv, Types
  <2>2. status' = [status EXCEPT !.st = status.st]
    BY <1>2 DEF StopAsks, IInv, Types, StatusType
  <2> QED
    BY <1>1, <2>1, <2>2, QuietStep
<1>3. CASE StopClears
  <2>1. Types'
    BY <1>3 DEF StopClears, history, IInv, Types, StatusType, Cleared, NoRequest
  <2>2. status'.by = NoSession
    BY <1>3 DEF StopClears, Cleared
  <2> QED
    BY <1>1, <2>1, <2>2, QuietStep
<1>4. CASE StopSignals
  <2>1. Types'
    BY <1>4 DEF StopSignals, history, IInv, Types, NoRequest
  <2>2. status' = [status EXCEPT !.st = status.st]
    BY <1>4 DEF StopSignals, IInv, Types, StatusType
  <2> QED
    BY <1>1, <2>1, <2>2, QuietStep
<1>5. CASE StopMarks
  <2>1. status' = [status EXCEPT !.st = "stopping"]
    BY <1>5 DEF StopMarks, SetStatus
  <2>2. status' \in StatusType
    BY <2>1 DEF IInv, Types, StatusType
  <2>3. Types'
    BY <1>5, <2>2 DEF StopMarks, IInv, Types, NoRequest, isDone
  <2> QED
    BY <1>1, <2>1, <2>3, QuietStep
<1> QED
  BY <1>2, <1>3, <1>4, <1>5 DEF Stop

-----------------------------------------------------------------------------
(* LoadCSV.                                                                *)

(* The reader goes on, or ends, with its rows where they are.              *)
LEMMA ReaderMoves ==
  ASSUME IInv, NEW s \in Sessions, NEW x \in {"loop", "drain", "fail", "end"},
         reader[s].pc \notin {"none", "end"}, reader' = [reader EXCEPT ![s].pc = x],
         x = "loop" => Len(reader[s].window) < BatchSize,
         NEW st \in {status.st, "failed"}, status' = [status EXCEPT !.st = st],
         stop' \in {stop, NoSession}, torn' \in BOOLEAN,
         stops + faults' <= MaxEvents, faults' \in Nat, faults' >= faults,
         UNCHANGED <<queue, closed, writer, saved, dropped, caller, stopper, stops, late, alone>>
  PROVE  IInv'
<1>1. /\ reader' \in [Sessions -> ReaderType]
      /\ reader'[s].pc = x /\ reader'[s].next = reader[s].next
      /\ reader'[s].window = reader[s].window
      /\ \A t \in Sessions \ {s} : reader'[t] = reader[t]
  <2>1. reader \in [Sessions -> ReaderType] /\ reader[s] \in ReaderType
    BY DEF IInv, Types
  <2>2. /\ [reader[s] EXCEPT !.pc = x] \in ReaderType /\ [reader[s] EXCEPT !.pc = x].pc = x
        /\ [reader[s] EXCEPT !.pc = x].next = reader[s].next
        /\ [reader[s] EXCEPT !.pc = x].window = reader[s].window
    BY <2>1 DEF ReaderType
  <2>3. /\ reader'[s] = [reader[s] EXCEPT !.pc = x] /\ reader' \in [Sessions -> ReaderType]
        /\ \A t \in Sessions \ {s} : reader'[t] = reader[t]
    BY <2>1, <2>2
  <2> QED
    BY <2>2, <2>3
<1>2. /\ status' \in StatusType /\ status'.by = status.by
      /\ status'.imported = status.imported /\ status'.skipped = status.skipped
      /\ status'.failed = status.failed /\ (status'.st = "finished" => status.st = "finished")
  BY DEF IInv, Types, StatusType
<1>3. Types'
  BY <1>1, <1>2 DEF IInv, Types
<1>4. Placed(s)'
  <2>1. /\ Window(s)' = Window(s) /\ Waiting(s)' = Waiting(s) /\ Row(s)' = Row(s)
        /\ Tx(s)' = Tx(s) /\ Good(s)' = Good(s)
    BY <1>1 DEF Window, Waiting, Row, Tx, Good
  <2>2. Placed(s)
    BY DEF IInv, SessionInv
  <2>3. reader'[s].window = reader[s].window /\ UNCHANGED <<queue, writer, saved, dropped>>
    BY <1>1
  <2> QED
    BY <2>1, <2>2, <2>3 DEF Placed
<1>5. Room(s)'
  BY <1>1 DEF IInv, SessionInv, Room
<1>6. Emptied(s)'
  <2>1. ~closed[s]
    BY DEF IInv, SessionInv, Emptied
  <2>2. faults > 0 => faults' > 0
    BY DEF IInv, Types
  <2>3. Emptied(s) /\ Tx(s)' = Tx(s)
    BY DEF IInv, SessionInv, Tx
  <2> QED
    BY <2>1, <2>2, <2>3 DEF Emptied
<1>7. Told(s) => Told(s)'
  BY <1>1, <1>2 DEF Told, Tx
<1>8. AtWork(s) /\ \A t \in Sessions \ {s} : SameSession(t)
  BY <1>1 DEF AtWork, SameSession
<1> QED
  BY <1>2, <1>3, <1>4, <1>5, <1>6, <1>7, <1>8, OneSession

LEMMA ReaderPasses ==
  ASSUME IInv, NEW s \in Sessions,
         OpenFile(s) \/ ReadFails(s) \/ EndOfFile(s) \/ TakeStop(s) \/ LoadFails(s)
  PROVE  IInv'
<1>0. /\ status = [status EXCEPT !.st = status.st] /\ torn \in BOOLEAN
      /\ stops \in Nat /\ faults \in Nat /\ stops + faults <= MaxEvents
  BY DEF IInv, Types, StatusType
<1>1. Fault => faults' \in Nat /\ faults' >= faults /\ stops + faults' <= MaxEvents
  BY <1>0, ImporterAssumption DEF Fault
<1> USE DEF unread, requests, history
<1>2. CASE OpenFile(s)
  <2>1. reader[s].window = <<>>
    BY <1>2 DEF OpenFile, IInv, SessionInv, Room
  <2>2. Len(reader[s].window) < BatchSize
    BY <2>1, ImporterAssumption
  <2>3. PICK x \in {"loop", "fail", "end"} : reader' = [reader EXCEPT ![s].pc = x]
    BY <1>2 DEF OpenFile
  <2>4. faults' \in Nat /\ faults' >= faults /\ stops + faults' <= MaxEvents
    BY <1>0, <1>1, <1>2 DEF OpenFile
  <2> QED
    BY <1>0, <1>2, <2>2, <2>3, <2>4, ReaderMoves DEF OpenFile
<1>3. CASE ReadFails(s)
  BY <1>0, <1>1, <1>3, ReaderMoves DEF ReadFails
<1>4. CASE EndOfFile(s) \/ TakeStop(s)
  BY <1>0, <1>4, ReaderMoves DEF EndOfFile, TakeStop
<1>5. CASE LoadFails(s)
  <2>1. /\ reader' = [reader EXCEPT ![s].pc = "end"] /\ reader[s].pc = "fail"
        /\ status' = [status EXCEPT !.st = "failed"] /\ stop' = stop /\ torn' \in BOOLEAN
        /\ faults' = faults
        /\ UNCHANGED <<queue, closed, writer, saved, dropped, caller, stopper, stops, late, alone>>
    BY <1>0, <1>5 DEF LoadFails, SetStatus
  <2>2. faults' \in Nat /\ faults' >= faults /\ stops + faults' <= MaxEvents
    BY <1>0, <2>1
  <2> QED
    BY <2>1, <2>2, ReaderMoves
<1> QED
  BY <1>2, <1>3, <1>4, <1>5

(* A row is read: a bad one is counted, a good one is in the window.       *)
LEMMA ReadRowKeeps ==
  ASSUME IInv, NEW s \in Sessions, ReadRow(s)
  PROVE  IInv'
<1> PICK i \in {reader[s].next} : TRUE
  OBVIOUS
<1> PICK win \in {IF i \in Bad THEN reader[s].window ELSE Append(reader[s].window, i)} : TRUE
  OBVIOUS
<1>1. reader[s] \in ReaderType /\ reader[s].pc = "loop" /\ i \in Nat \ {0}
      /\ reader[s].window \in Seq(Nat)
  BY DEF ReadRow, IInv, Types, ReaderType
<1>2. /\ win \in Seq(Nat) /\ Len(win) \in Nat
      /\ Len(win) = Len(reader[s].window) + (IF i \in Bad THEN 0 ELSE 1)
      /\ Range(win) = Window(s) \cup (IF i \in Bad THEN {} ELSE {i})
      /\ Distinct(reader[s].window) /\ i \notin Window(s) => Distinct(win)
  <2>1. CASE i \in Bad
    BY <1>1, <2>1 DEF Window
  <2>2. CASE i \notin Bad
    <3> PICK old \in {reader[s].window} : TRUE
      OBVIOUS
    <3>1. win = Append(old, i) /\ old \in Seq(Nat) /\ Len(old) \in Nat
      BY <1>1, <2>2
    <3>2. /\ win \in Seq(Nat) /\ Len(win) = Len(old) + 1
          /\ Range(win) = Range(old) \cup {i}
          /\ Distinct(old) /\ i \notin Range(old) => Distinct(win)
      BY <1>1, <3>1, AppendRange
    <3> QED
      BY <2>2, <3>1, <3>2 DEF Window
  <2> QED
    BY <2>1, <2>2
<1>3. PICK r \in ReaderType :
        /\ reader' = [reader EXCEPT ![s] = r]
        /\ r.next = i + 1 /\ r.window = win /\ r.pc \in {"flush", "loop"}
        /\ r.pc = "loop" => Len(win) # BatchSize
  <2> PICK old \in {reader[s]} : TRUE
    OBVIOUS
  <2> DEFINE read == [old EXCEPT !.next = i + 1, !.window = win]
  <2>1. read \in ReaderType /\ read.next = i + 1 /\ read.window = win
    <3>1. old \in ReaderType /\ i + 1 \in Nat \ {0} /\ win \in Seq(Nat)
      BY <1>1, <1>2
    <3> QED
      BY <3>1 DEF ReaderType
  <2>2. reader' = [reader EXCEPT ![s] = [read EXCEPT !.pc = Flush(read)]]
    BY DEF ReadRow
  <2>3. Flush(read) \in {"flush", "loop"} /\ (Flush(read) = "loop" => Len(win) # BatchSize)
    BY <2>1 DEF Flush
  <2> HIDE DEF read
  <2>4. /\ [read EXCEPT !.pc = Flush(read)] \in ReaderType
        /\ [read EXCEPT !.pc = Flush(read)].next = i + 1
        /\ [read EXCEPT !.pc = Flush(read)].window = win
        /\ [read EXCEPT !.pc = Flush(read)].pc = Flush(read)
    BY <2>1, <2>3 DEF ReaderType
  <2> QED
    BY <2>2, <2>3, <2>4
<1>4. /\ reader' \in [Sessions -> ReaderType]
      /\ reader'[s].next = i + 1 /\ reader'[s].window = win
      /\ reader'[s].pc \in {"flush", "loop"} /\ (reader'[s].pc = "loop" => Len(win) # BatchSize)
      /\ \A t \in Sessions \ {s} : reader'[t] = reader[t]
  BY <1>3 DEF IInv, Types
<1>5. /\ status' = IF i \in Bad THEN [status EXCEPT !.skipped = @ + 1] ELSE status
      /\ UNCHANGED <<stop, queue, closed, writer, saved, dropped, caller, stopper, stops, faults,
                     torn, late, alone>>
  BY DEF ReadRow, unread, requests, history
<1>6. /\ status' \in StatusType /\ status'.by = status.by /\ status'.st = status.st
      /\ status'.imported = status.imported /\ status'.failed = status.failed
      /\ status'.skipped = status.skipped + (IF i \in Bad THEN 1 ELSE 0)
  <2>1. status \in StatusType
    BY DEF IInv, Types
  <2>2. CASE i \in Bad
    BY <1>5, <2>1, <2>2 DEF StatusType
  <2>3. CASE i \notin Bad
    BY <1>5, <2>1, <2>3 DEF StatusType
  <2> QED
    BY <2>2, <2>3
<1>7. Types'
  BY <1>4, <1>5, <1>6 DEF IInv, Types
<1>8. 1..((i + 1) - 1) = (1..(i - 1)) \cup {i} /\ i \notin 1..(i - 1)
  BY <1>1, OneMore
<1>9. Placed(s)'
  <2>1. Good(s)' = Good(s) \cup (IF i \in Bad THEN {} ELSE {i}) /\ i \notin Good(s)
    BY <1>4, <1>8 DEF Good
  <2>2. /\ Window(s)' = Window(s) \cup (IF i \in Bad THEN {} ELSE {i})
        /\ Waiting(s)' = Waiting(s) /\ Row(s)' = Row(s) /\ Tx(s)' = Tx(s)
    BY <1>2, <1>4, <1>5 DEF Window, Waiting, Row, Tx
  <2>3. Placed(s)
    BY DEF IInv, SessionInv
  <2>4. /\ i \notin Window(s) /\ i \notin Waiting(s) /\ i \notin Row(s) /\ i \notin Tx(s)
        /\ i \notin saved[s] /\ i \notin dropped[s]
    BY <2>1, <2>3 DEF Placed
  <2>5. Distinct(win)
    BY <1>2, <2>3, <2>4 DEF Placed
  <2>6. UNCHANGED <<queue, writer, saved, dropped>> /\ reader'[s].window = win
    BY <1>4, <1>5
  <2>7. CASE i \in Bad
    BY <2>1, <2>2, <2>3, <2>5, <2>6, <2>7 DEF Placed
  <2>8. CASE i \notin Bad
    <3> PICK W \in {Window(s)} : TRUE
      OBVIOUS
    <3>1. Window(s)' = W \cup {i} /\ Good(s)' = Good(s) \cup {i}
      BY <2>1, <2>2, <2>8
    <3>2. /\ W \cup Waiting(s) \cup Row(s) \cup Tx(s) \cup saved[s] \cup dropped[s] = Good(s)
          /\ W \cap (Waiting(s) \cup Row(s) \cup Tx(s) \cup saved[s] \cup dropped[s]) = {}
      BY <2>3 DEF Placed
    <3>3. /\ (W \cup {i}) \cup Waiting(s) \cup Row(s) \cup Tx(s) \cup saved[s] \cup dropped[s]
               = Good(s) \cup {i}
          /\ (W \cup {i}) \cap (Waiting(s) \cup Row(s) \cup Tx(s) \cup saved[s] \cup dropped[s]) = {}
      BY <2>4, <3>2
    <3> QED
      BY <2>2, <2>3, <2>5, <2>6, <3>1, <3>3 DEF Placed
  <2> QED
    BY <2>7, <2>8
<1>10. Room(s)'
  <2>1. Len(reader[s].window) \in Nat /\ Len(reader[s].window) < BatchSize
    BY <1>1 DEF IInv, SessionInv, Room
  <2>2. Len(win) <= BatchSize /\ (Len(win) # BatchSize => Len(win) < BatchSize)
    <3>1. Len(win) = Len(reader[s].window) \/ Len(win) = Len(reader[s].window) + 1
      BY <1>2, <2>1
    <3>2. ASSUME NEW m \in Nat, NEW n \in Nat, NEW k \in Nat, m < k, n = m \/ n = m + 1
          PROVE  n <= k /\ (n # k => n < k)
      BY <3>2
    <3> QED
      BY <1>2, <2>1, <3>1, <3>2, ImporterAssumption
  <2>3. Len(queue'[s]) <= BatchSize
    BY <1>5 DEF IInv, SessionInv, Room
  <2> QED
    BY <1>4, <2>2, <2>3 DEF Room
<1>11. Emptied(s)'
  <2>1. ~closed[s] /\ Emptied(s) /\ Tx(s)' = Tx(s)
    BY <1>1, <1>5 DEF IInv, SessionInv, Emptied, Tx
  <2> QED
    BY <1>5, <2>1 DEF Emptied
<1>12. Told(s) => Told(s)'
  <2>1. Cardinality((1..(reader'[s].next - 1)) \cap Bad)
          = Cardinality((1..(i - 1)) \cap Bad) + (IF i \in Bad THEN 1 ELSE 0)
    <3> PICK b \in {(1..(i - 1)) \cap Bad} : TRUE
      OBVIOUS
    <3>1. IsFiniteSet(b) /\ Cardinality(b) \in Nat /\ i \notin b
      BY <1>1, <1>8, GoodAndBad
    <3>2. (1..(reader'[s].next - 1)) \cap Bad = IF i \in Bad THEN b \cup {i} ELSE b
      BY <1>4, <1>8
    <3>3. Cardinality(b \cup {i}) = Cardinality(b) + 1
      BY <3>1, FS_AddElement
    <3>4. Cardinality((1..(reader'[s].next - 1)) \cap Bad)
            = Cardinality(b) + (IF i \in Bad THEN 1 ELSE 0)
      <4>1. CASE i \in Bad
        BY <3>2, <3>3, <4>1
      <4>2. CASE i \notin Bad
        <5>1. (1..(reader'[s].next - 1)) \cap Bad = b
          BY <3>2, <4>2
        <5>2. Cardinality(b) + 0 = Cardinality(b)
          BY <3>1
        <5> QED
          BY <4>2, <5>1, <5>2
      <4> QED
        BY <4>1, <4>2
    <3> QED
      BY <3>4
  <2>2. Tx(s)' = Tx(s)
    BY <1>5 DEF Tx
  <2> QED
    BY <1>5, <1>6, <2>1, <2>2 DEF Told
<1>13. AtWork(s) /\ (\A t \in Sessions \ {s} : SameSession(t)) /\ faults' >= faults
  BY <1>1, <1>4, <1>5 DEF AtWork, SameSession, IInv, Types
<1> QED
  BY <1>5, <1>6, <1>7, <1>9, <1>10, <1>11, <1>12, <1>13, OneSession

(* A row goes from the window to the queue.                                *)
LEMMA FlushRowKeeps ==
  ASSUME IInv, NEW s \in Sessions, FlushRow(s)
  PROVE  IInv'
<1> PICK old \in {reader[s]} : TRUE
  OBVIOUS
<1> PICK win \in {old.window} : TRUE
  OBVIOUS
<1> PICK q \in {queue[s]} : TRUE
  OBVIOUS
<1>1. /\ old \in ReaderType /\ old.pc \in {"flush", "drain"} /\ win \in Seq(Nat) /\ win # <<>>
      /\ q \in Seq(Nat) /\ Len(q) < BatchSize
      /\ queue' = [queue EXCEPT ![s] = Append(q, Head(win))]
      /\ reader' = [reader EXCEPT ![s].window = Tail(@)]
      /\ UNCHANGED <<status, stop, writer, saved, dropped, closed, caller, stopper, stops, faults,
                     torn, late, alone>>
  <2>1. old \in ReaderType /\ q \in Seq(Nat)
    BY DEF IInv, Types
  <2>2. win \in Seq(Nat)
    BY <2>1 DEF ReaderType
  <2> QED
    BY <2>1, <2>2 DEF FlushRow, unread, requests, history
<1>2. Placed(s) /\ Room(s) /\ Emptied(s)
  BY DEF IInv, SessionInv
<1>3. Distinct(win) /\ Distinct(q)
  BY <1>2 DEF Placed
<1>4. /\ Tail(win) \in Seq(Nat) /\ Len(Tail(win)) = Len(win) - 1 /\ Len(win) \in Nat
      /\ Head(win) \in Nat /\ Head(win) \in Range(win)
      /\ Range(Tail(win)) = Range(win) \ {Head(win)} /\ Distinct(Tail(win))
  BY <1>1, <1>3, TailRange
<1>5. Head(win) \notin Range(q)
  BY <1>2, <1>4 DEF Placed, Window, Waiting
<1>6. /\ Append(q, Head(win)) \in Seq(Nat) /\ Len(Append(q, Head(win))) = Len(q) + 1
      /\ Range(Append(q, Head(win))) = Range(q) \cup {Head(win)}
      /\ Distinct(Append(q, Head(win))) /\ Len(q) \in Nat
  BY <1>1, <1>3, <1>4, <1>5, AppendRange
<1>7. /\ reader' \in [Sessions -> ReaderType] /\ reader'[s].window = Tail(win)
      /\ reader'[s].pc = old.pc /\ reader'[s].next = old.next
      /\ \A t \in Sessions \ {s} : reader'[t] = reader[t]
  <2>1. /\ [old EXCEPT !.window = Tail(win)] \in ReaderType
        /\ [old EXCEPT !.window = Tail(win)].window = Tail(win)
        /\ [old EXCEPT !.window = Tail(win)].pc = old.pc
        /\ [old EXCEPT !.window = Tail(win)].next = old.next
    BY <1>1, <1>4 DEF ReaderType
  <2>2. reader' = [reader EXCEPT ![s] = [old EXCEPT !.window = Tail(win)]]
    BY <1>1
  <2> QED
    BY <2>1, <2>2 DEF IInv, Types
<1>8. /\ queue' \in [Sessions -> Seq(Nat)] /\ queue'[s] = Append(q, Head(win))
      /\ \A t \in Sessions \ {s} : queue'[t] = queue[t]
  BY <1>1, <1>6 DEF IInv, Types
<1>9. Types'
  BY <1>1, <1>7, <1>8 DEF IInv, Types
<1>10. Placed(s)'
  <2>1. /\ Window(s)' = Window(s) \ {Head(win)} /\ Waiting(s)' = Waiting(s) \cup {Head(win)}
        /\ Head(win) \in Window(s) /\ Row(s)' = Row(s) /\ Tx(s)' = Tx(s) /\ Good(s)' = Good(s)
    BY <1>1, <1>4, <1>6, <1>7, <1>8 DEF Window, Waiting, Row, Tx, Good
  <2> PICK h \in {Head(win)} : TRUE
    OBVIOUS
  <2>2. Distinct(reader'[s].window) /\ Distinct(queue'[s])
    BY <1>4, <1>6, <1>7, <1>8
  <2> PICK W \in {Window(s)} : TRUE
    OBVIOUS
  <2> PICK Q \in {Waiting(s)} : TRUE
    OBVIOUS
  <2>3. /\ W \cup Q \cup Row(s) \cup Tx(s) \cup saved[s] \cup dropped[s] = Good(s)
        /\ W \cap (Q \cup Row(s) \cup Tx(s) \cup saved[s] \cup dropped[s]) = {}
        /\ Q \cap (Row(s) \cup Tx(s) \cup saved[s] \cup dropped[s]) = {}
        /\ h \in W
    BY <1>2, <2>1 DEF Placed
  <2>4. /\ (W \ {h}) \cup (Q \cup {h}) \cup Row(s) \cup Tx(s) \cup saved[s] \cup dropped[s] = Good(s)
        /\ (W \ {h}) \cap ((Q \cup {h}) \cup Row(s) \cup Tx(s) \cup saved[s] \cup dropped[s]) = {}
        /\ (Q \cup {h}) \cap (Row(s) \cup Tx(s) \cup saved[s] \cup dropped[s]) = {}
    BY <2>3
  <2>5. Window(s)' = W \ {h} /\ Waiting(s)' = Q \cup {h}
    BY <2>1
  <2>6. UNCHANGED <<saved, dropped, writer>> /\ Row(s)' = Row(s) /\ Tx(s)' = Tx(s) /\ Good(s)' = Good(s)
    BY <1>1, <2>1
  <2>7. /\ Window(s)' \cup Waiting(s)' \cup Row(s)' \cup Tx(s)' \cup saved'[s] \cup dropped'[s] = Good(s)'
        /\ Window(s)' \cap (Waiting(s)' \cup Row(s)' \cup Tx(s)' \cup saved'[s] \cup dropped'[s]) = {}
        /\ Waiting(s)' \cap (Row(s)' \cup Tx(s)' \cup saved'[s] \cup dropped'[s]) = {}
    BY <2>4, <2>5, <2>6
  <2>8. /\ Row(s)' \cap (Tx(s)' \cup saved'[s] \cup dropped'[s]) = {}
        /\ saved'[s] \cap dropped'[s] = {}
        /\ IF writer'[s].pc \in {"count", "count last"} THEN Tx(s)' \subseteq saved'[s]
           ELSE Tx(s)' \cap saved'[s] = {}
        /\ IF writer'[s].pc = "rolled back" THEN Tx(s)' \subseteq dropped'[s]
           ELSE Tx(s)' \cap dropped'[s] = {}
    BY <1>2, <2>6 DEF Placed
  <2> QED
    BY <2>2, <2>7, <2>8 DEF Placed
<1>11. Room(s)'
  <2>1. Len(Tail(win)) <= BatchSize /\ Len(Append(q, Head(win))) <= BatchSize
    BY <1>1, <1>2, <1>4, <1>6, ImporterAssumption DEF Room
  <2> QED
    BY <1>1, <1>7, <1>8, <2>1 DEF Room
<1>12. Emptied(s)'
  <2>1. ~closed[s] /\ Tx(s)' = Tx(s)
    BY <1>1, <1>2 DEF Emptied, Tx
  <2> QED
    BY <1>1, <1>2, <2>1 DEF Emptied
<1>13. Told(s) => Told(s)'
  BY <1>1, <1>7 DEF Told, Tx
<1>14. AtWork(s) /\ (\A t \in Sessions \ {s} : SameSession(t)) /\ faults' >= faults
  BY <1>1, <1>7, <1>8 DEF AtWork, SameSession, IInv, Types
<1> QED
  BY <1>1, <1>9, <1>10, <1>11, <1>12, <1>13, <1>14, OneSession

(* The window is empty: the reader goes on, or closes the queue and ends.  *)
LEMMA FlushedKeeps ==
  ASSUME IInv, NEW s \in Sessions, Flushed(s)
  PROVE  IInv'
<1>1. /\ reader[s].pc \in {"flush", "drain"} /\ reader[s].window = <<>>
      /\ reader' = [reader EXCEPT ![s].pc = IF @ = "drain" THEN "end" ELSE "loop"]
      /\ closed' = [closed EXCEPT ![s] = reader[s].pc = "drain"]
      /\ UNCHANGED <<status, stop, queue, writer, saved, dropped, caller, stopper, stops, faults,
                     torn, late, alone>>
  BY DEF Flushed, requests, history
<1>2. Placed(s) /\ Room(s) /\ Emptied(s)
  BY DEF IInv, SessionInv
<1>3. /\ reader' \in [Sessions -> ReaderType]
      /\ reader'[s].pc = (IF reader[s].pc = "drain" THEN "end" ELSE "loop")
      /\ reader'[s].next = reader[s].next /\ reader'[s].window = <<>>
      /\ \A t \in Sessions \ {s} : reader'[t] = reader[t]
  BY <1>1 DEF IInv, Types, ReaderType
<1>4. /\ closed' \in [Sessions -> BOOLEAN] /\ (closed'[s] <=> reader[s].pc = "drain")
      /\ \A t \in Sessions \ {s} : closed'[t] = closed[t]
  BY <1>1 DEF IInv, Types
<1>5. Types'
  BY <1>1, <1>3, <1>4 DEF IInv, Types
<1>6. Placed(s)'
  <2>1. /\ Window(s)' = Window(s) /\ Waiting(s)' = Waiting(s) /\ Row(s)' = Row(s)
        /\ Tx(s)' = Tx(s) /\ Good(s)' = Good(s)
    BY <1>1, <1>3 DEF Window, Waiting, Row, Tx, Good
  <2> QED
    BY <1>1, <1>2, <1>3, <2>1 DEF Placed
<1>7. Room(s)'
  BY <1>1, <1>2, <1>3, ImporterAssumption DEF Room
<1>8. Emptied(s)'
  <2>1. ~closed[s] /\ Tx(s)' = Tx(s)
    BY <1>1, <1>2 DEF Emptied, Tx
  <2>2. closed'[s] => reader'[s].pc = "end" /\ reader'[s].window = <<>>
    BY <1>3, <1>4
  <2> QED
    BY <1>1, <1>2, <2>1, <2>2 DEF Emptied
<1>9. Told(s) => Told(s)'
  BY <1>1, <1>3 DEF Told, Tx
<1>10. AtWork(s) /\ (\A t \in Sessions \ {s} : SameSession(t)) /\ faults' >= faults
  BY <1>1, <1>3, <1>4 DEF AtWork, SameSession, IInv, Types
<1> QED
  BY <1>1, <1>5, <1>6, <1>7, <1>8, <1>9, <1>10, OneSession

LEMMA LoadCSVKeeps ==
  ASSUME IInv, NEW s \in Sessions, LoadCSV(s)
  PROVE  IInv'
BY ReaderPasses, ReadRowKeeps, FlushRowKeeps, FlushedKeeps DEF LoadCSV

-----------------------------------------------------------------------------
(* Start.  A step of the writer leaves it as w, and its session's queue,   *)
(* table and lost rows as q, S and D.                                      *)
WriterMoves(s, w, q, S, D) ==
  /\ writer' = [writer EXCEPT ![s] = w]
  /\ queue' = [queue EXCEPT ![s] = q]
  /\ saved' = [saved EXCEPT ![s] = S] /\ dropped' = [dropped EXCEPT ![s] = D]
  /\ UNCHANGED <<stop, reader, closed, caller, stopper, stops, torn, late, alone>>

(* What is asked of the four, for the rows to be in one place.             *)
Inserting(w) == IF w.pc = "insert" THEN {w.row} ELSE {}
OnePlace(s, w, q, S, D) ==
  /\ Window(s) \cup Range(q) \cup Inserting(w) \cup w.tx \cup S \cup D = Good(s)
  /\ Distinct(q)
  /\ Window(s) \cap (Range(q) \cup Inserting(w) \cup w.tx \cup S \cup D) = {}
  /\ Range(q) \cap (Inserting(w) \cup w.tx \cup S \cup D) = {}
  /\ Inserting(w) \cap (w.tx \cup S \cup D) = {}
  /\ S \cap D = {}
  /\ IF w.pc \in {"count", "count last"} THEN w.tx \subseteq S ELSE w.tx \cap S = {}
  /\ IF w.pc = "rolled back" THEN w.tx \subseteq D ELSE w.tx \cap D = {}

(* Of what is left when the writer ends, and of the counts.                *)
LeavesNothing(s, w, q, D) ==
  /\ w.pc \in {"last", "count last"} => closed[s] /\ q = <<>>
  /\ w.pc \in {"none", "finish", "fail", "end"} => w.tx = {}
  /\ w.pc \in {"finish", "fail", "end"} => faults' > 0 \/ (closed[s] /\ q = <<>>)
  /\ D # {} \/ w.pc = "rolled back" => faults' > 0
StillTold(s, w, S, D) ==
  Told(s) =>
    /\ status'.imported + (IF w.pc \in {"count", "count last"} THEN Cardinality(w.tx) ELSE 0)
         = Cardinality(S)
    /\ status'.failed + (IF w.pc = "rolled back" THEN Cardinality(w.tx) ELSE 0)
         <= Cardinality(D)
    /\ status'.skipped = status.skipped
    /\ status'.st = "finished" => w.pc = "end"

(* Which the invariant says of the state the step starts from.             *)
LEMMA PlacedBefore ==
  ASSUME IInv, NEW s \in Sessions
  PROVE  /\ OnePlace(s, writer[s], queue[s], saved[s], dropped[s])
         /\ writer[s] \in WriterType /\ queue[s] \in Seq(Nat) /\ Len(queue[s]) <= BatchSize
         /\ saved[s] \in SUBSET Nat /\ dropped[s] \in SUBSET Nat
         /\ Emptied(s) /\ stops \in Nat /\ faults \in Nat /\ stops + faults <= MaxEvents
         /\ status \in StatusType
         /\ writer = [writer EXCEPT ![s] = writer[s]] /\ queue = [queue EXCEPT ![s] = queue[s]]
         /\ saved = [saved EXCEPT ![s] = saved[s]] /\ dropped = [dropped EXCEPT ![s] = dropped[s]]
<1>1. Placed(s) /\ Room(s) /\ Emptied(s) /\ Types
  BY DEF IInv, SessionInv
<1>2. OnePlace(s, writer[s], queue[s], saved[s], dropped[s])
  BY <1>1 DEF OnePlace, Placed, Inserting, Row, Tx, Waiting
<1>3. /\ writer[s] \in WriterType /\ queue[s] \in Seq(Nat)
      /\ saved[s] \in SUBSET Nat /\ dropped[s] \in SUBSET Nat
      /\ writer = [writer EXCEPT ![s] = writer[s]] /\ queue = [queue EXCEPT ![s] = queue[s]]
      /\ saved = [saved EXCEPT ![s] = saved[s]] /\ dropped = [dropped EXCEPT ![s] = dropped[s]]
  BY <1>1 DEF Types
<1> QED
  BY <1>1, <1>2, <1>3 DEF Types, Room

(* What is left to show of a step of the writer.                           *)
LEMMA WriterStep ==
  ASSUME IInv, NEW s \in Sessions, writer[s].pc \notin {"none", "end"},
         NEW w \in WriterType, NEW q \in Seq(Nat), NEW S \in SUBSET Nat, NEW D \in SUBSET Nat,
         WriterMoves(s, w, q, S, D), Len(q) <= BatchSize,
         status' \in StatusType, status'.by = status.by,
         faults' \in Nat, faults' >= faults, stops + faults' <= MaxEvents,
         OnePlace(s, w, q, S, D),
         LeavesNothing(s, w, q, D), StillTold(s, w, S, D)
  PROVE  IInv'
<1>1. /\ writer' \in [Sessions -> WriterType] /\ writer'[s] = w
      /\ queue' \in [Sessions -> Seq(Nat)] /\ queue'[s] = q
      /\ saved' \in [Sessions -> SUBSET Nat] /\ saved'[s] = S
      /\ dropped' \in [Sessions -> SUBSET Nat] /\ dropped'[s] = D
      /\ \A t \in Sessions \ {s} : /\ writer'[t] = writer[t] /\ queue'[t] = queue[t]
                                  /\ saved'[t] = saved[t] /\ dropped'[t] = dropped[t]
  BY DEF WriterMoves, IInv, Types
<1>2. UNCHANGED <<stop, reader, closed, caller, stopper, stops, torn, late, alone>>
  BY DEF WriterMoves
<1>3. Types'
  BY <1>1, <1>2 DEF IInv, Types
<1>4. Placed(s)'
  <2>1. /\ Window(s)' = Window(s) /\ Waiting(s)' = Range(q) /\ Row(s)' = Inserting(w)
        /\ Tx(s)' = w.tx /\ Good(s)' = Good(s)
    BY <1>1, <1>2 DEF Window, Waiting, Row, Tx, Good, Inserting
  <2>2. Distinct(reader'[s].window)
    BY <1>2 DEF IInv, SessionInv, Placed
  <2>3. /\ Window(s)' \cup Waiting(s)' \cup Row(s)' \cup Tx(s)' \cup saved'[s] \cup dropped'[s] = Good(s)'
        /\ Window(s)' \cap (Waiting(s)' \cup Row(s)' \cup Tx(s)' \cup saved'[s] \cup dropped'[s]) = {}
    BY <1>1, <2>1 DEF OnePlace
  <2>4. /\ Waiting(s)' \cap (Row(s)' \cup Tx(s)' \cup saved'[s] \cup dropped'[s]) = {}
        /\ Row(s)' \cap (Tx(s)' \cup saved'[s] \cup dropped'[s]) = {}
        /\ saved'[s] \cap dropped'[s] = {} /\ Distinct(queue'[s])
    BY <1>1, <2>1 DEF OnePlace
  <2>5. /\ IF writer'[s].pc \in {"count", "count last"} THEN Tx(s)' \subseteq saved'[s]
           ELSE Tx(s)' \cap saved'[s] = {}
        /\ IF writer'[s].pc = "rolled back" THEN Tx(s)' \subseteq dropped'[s]
           ELSE Tx(s)' \cap dropped'[s] = {}
    <3>1. /\ IF w.pc \in {"count", "count last"} THEN w.tx \subseteq S ELSE w.tx \cap S = {}
          /\ IF w.pc = "rolled back" THEN w.tx \subseteq D ELSE w.tx \cap D = {}
      BY DEF OnePlace
    <3>2. writer'[s] = w /\ saved'[s] = S /\ dropped'[s] = D /\ Tx(s)' = w.tx
      BY <1>1, <2>1
    <3> QED
      BY <3>1, <3>2
  <2> QED
    BY <2>2, <2>3, <2>4, <2>5 DEF Placed
<1>5. Room(s)'
  BY <1>1, <1>2 DEF IInv, SessionInv, Room
<1>6. Emptied(s)'
  <2>1. closed[s] => reader[s].pc = "end" /\ reader[s].window = <<>>
    BY DEF IInv, SessionInv, Emptied
  <2> QED
    BY <1>1, <1>2, <2>1 DEF Emptied, Tx, LeavesNothing
<1>7. Told(s) => Told(s)'
  BY <1>1, <1>2 DEF Told, Tx, StillTold
<1>8. AtWork(s) /\ \A t \in Sessions \ {s} : SameSession(t)
  BY <1>1, <1>2 DEF AtWork, SameSession
<1> QED
  BY <1>2, <1>3, <1>4, <1>5, <1>6, <1>7, <1>8, OneSession

(* The queue is closed and empty: what is in hand is committed.            *)
LEMMA DrainedKeeps ==
  ASSUME IInv, NEW s \in Sessions, Drained(s)
  PROVE  IInv'
<1> PICK pc \in {IF writer[s].tx = {} THEN "finish" ELSE "last"} : TRUE
  OBVIOUS
<1> PICK w \in {[writer[s] EXCEPT !.pc = pc]} : TRUE
  OBVIOUS
<1>1. /\ writer[s].pc = "receive" /\ queue[s] = <<>> /\ closed[s]
      /\ writer' = [writer EXCEPT ![s] = w]
      /\ UNCHANGED <<status, stop, reader, closed, queue, saved, dropped, caller, stopper, stops,
                     faults, torn, late, alone>>
  BY DEF Drained, unwritten, requests, history
<1>2. /\ OnePlace(s, writer[s], queue[s], saved[s], dropped[s]) /\ Emptied(s)
      /\ queue[s] \in Seq(Nat) /\ Len(queue[s]) <= BatchSize
      /\ saved[s] \in SUBSET Nat /\ dropped[s] \in SUBSET Nat
      /\ stops \in Nat /\ faults \in Nat /\ stops + faults <= MaxEvents /\ status \in StatusType
  BY PlacedBefore
<1>3. w \in WriterType /\ w.pc = pc /\ w.tx = writer[s].tx /\ pc \in {"finish", "last"}
  <2>1. writer[s] \in WriterType
    BY PlacedBefore
  <2> QED
    BY <2>1 DEF WriterType
<1>4. WriterMoves(s, w, queue[s], saved[s], dropped[s])
  BY <1>1, PlacedBefore DEF WriterMoves
<1>5. OnePlace(s, w, queue[s], saved[s], dropped[s])
  BY <1>1, <1>2, <1>3 DEF OnePlace, Inserting
<1>6. pc = "finish" => w.tx = {}
  BY <1>3
<1>7. dropped[s] # {} => faults > 0
  BY <1>2 DEF Emptied
<1>8. Told(s) => /\ status.imported + 0 = Cardinality(saved[s])
                 /\ status.failed + 0 <= Cardinality(dropped[s])
                 /\ status.st # "finished"
  BY <1>1 DEF Told
<1>9. status' = status /\ faults' = faults
  BY <1>1
<1>10. LeavesNothing(s, w, queue[s], dropped[s])
  BY <1>1, <1>3, <1>6, <1>7, <1>9 DEF LeavesNothing
<1>11. StillTold(s, w, saved[s], dropped[s])
  BY <1>1, <1>3, <1>7, <1>8, <1>9 DEF StillTold
<1>12. /\ writer[s].pc \notin {"none", "end"} /\ status' \in StatusType /\ status'.by = status.by
       /\ faults' \in Nat /\ faults' >= faults /\ stops + faults' <= MaxEvents
  <2>1. faults' \in Nat /\ faults' >= faults /\ stops + faults' <= MaxEvents
    BY <1>2, <1>9
  <2> QED
    BY <1>1, <1>2, <1>7, <1>9, <2>1
<1> QED
  BY <1>2, <1>3, <1>4, <1>5, <1>10, <1>11, <1>12, WriterStep

(* The status is written last.                                             *)
LEMMA FinishKeeps ==
  ASSUME IInv, NEW s \in Sessions, Finish(s)
  PROVE  IInv'
<1> PICK w \in {[writer[s] EXCEPT !.pc = "end"]} : TRUE
  OBVIOUS
<1> PICK st \in {IF writer[s].pc = "finish" THEN "finished" ELSE "failed"} : TRUE
  OBVIOUS
<1>1. /\ writer[s].pc \in {"finish", "fail"} /\ status' = [status EXCEPT !.st = st]
      /\ writer' = [writer EXCEPT ![s] = w]
      /\ UNCHANGED <<stop, reader, closed, queue, saved, dropped, caller, stopper, stops,
                     faults, torn, late, alone>>
  BY DEF Finish, SetStatus, unwritten, requests, history
<1>2. /\ OnePlace(s, writer[s], queue[s], saved[s], dropped[s]) /\ Emptied(s)
      /\ queue[s] \in Seq(Nat) /\ Len(queue[s]) <= BatchSize
      /\ saved[s] \in SUBSET Nat /\ dropped[s] \in SUBSET Nat
      /\ stops \in Nat /\ faults \in Nat /\ stops + faults <= MaxEvents /\ status \in StatusType
  BY PlacedBefore
<1>3. w \in WriterType /\ w.pc = "end" /\ w.tx = writer[s].tx
  <2>1. writer[s] \in WriterType
    BY PlacedBefore
  <2> QED
    BY <2>1 DEF WriterType
<1>4. WriterMoves(s, w, queue[s], saved[s], dropped[s])
  BY <1>1, PlacedBefore DEF WriterMoves
<1>5. OnePlace(s, w, queue[s], saved[s], dropped[s])
  BY <1>1, <1>2, <1>3 DEF OnePlace, Inserting
<1>6. /\ w.tx = {} /\ (faults > 0 \/ (closed[s] /\ queue[s] = <<>>))
      /\ dropped[s] # {} => faults > 0
  BY <1>1, <1>2, <1>3 DEF Emptied, Tx
<1>7. /\ status' \in StatusType /\ status'.by = status.by /\ status'.imported = status.imported
      /\ status'.failed = status.failed /\ status'.skipped = status.skipped
  BY <1>1, <1>2 DEF StatusType
<1>8. Told(s) => /\ status.imported + 0 = Cardinality(saved[s])
                 /\ status.failed + 0 <= Cardinality(dropped[s])
  BY <1>1 DEF Told
<1>9. faults' = faults
  BY <1>1
<1>10. LeavesNothing(s, w, queue[s], dropped[s])
  BY <1>1, <1>3, <1>6, <1>7, <1>9 DEF LeavesNothing
<1>11. StillTold(s, w, saved[s], dropped[s])
  BY <1>1, <1>3, <1>7, <1>8, <1>9 DEF StillTold
<1>12. /\ writer[s].pc \notin {"none", "end"} /\ status' \in StatusType /\ status'.by = status.by
       /\ faults' \in Nat /\ faults' >= faults /\ stops + faults' <= MaxEvents
  <2>1. faults' \in Nat /\ faults' >= faults /\ stops + faults' <= MaxEvents
    BY <1>2, <1>9
  <2> QED
    BY <1>1, <1>2, <1>7, <1>9, <2>1
<1> QED
  BY <1>2, <1>3, <1>4, <1>5, <1>10, <1>11, <1>12, WriterStep

(* The rows of a batch that was rolled back are told as failed, at last.   *)
LEMMA CommitRolledBackKeeps ==
  ASSUME IInv, NEW s \in Sessions, CommitRolledBack(s)
  PROVE  IInv'
<1> PICK w \in {[writer[s] EXCEPT !.pc = "fail", !.tx = {}]} : TRUE
  OBVIOUS
<1>1. /\ writer[s].pc = "rolled back"
      /\ status' = [status EXCEPT !.failed = @ + Cardinality(writer[s].tx)]
      /\ writer' = [writer EXCEPT ![s] = w]
      /\ UNCHANGED <<stop, reader, closed, queue, saved, dropped, caller, stopper, stops,
                     faults, torn, late, alone>>
  BY DEF CommitRolledBack, unwritten, requests, history
<1>2. /\ OnePlace(s, writer[s], queue[s], saved[s], dropped[s]) /\ Emptied(s)
      /\ queue[s] \in Seq(Nat) /\ Len(queue[s]) <= BatchSize
      /\ saved[s] \in SUBSET Nat /\ dropped[s] \in SUBSET Nat
      /\ stops \in Nat /\ faults \in Nat /\ stops + faults <= MaxEvents /\ status \in StatusType
  BY PlacedBefore
<1>3. w \in WriterType /\ w.pc = "fail" /\ w.tx = {}
  <2>1. writer[s] \in WriterType
    BY PlacedBefore
  <2> QED
    BY <2>1 DEF WriterType
<1>4. WriterMoves(s, w, queue[s], saved[s], dropped[s])
  BY <1>1, PlacedBefore DEF WriterMoves
<1>5. OnePlace(s, w, queue[s], saved[s], dropped[s])
  <2>1. Inserting(w) = {} /\ Inserting(writer[s]) = {} /\ writer[s].tx \subseteq dropped[s]
    BY <1>1, <1>2, <1>3 DEF OnePlace, Inserting
  <2> QED
    BY <1>1, <1>2, <1>3, <2>1 DEF OnePlace
<1>6. faults > 0
  BY <1>1, <1>2 DEF Emptied
<1>7. /\ status' \in StatusType /\ status'.by = status.by /\ status'.imported = status.imported
      /\ status'.failed = status.failed + Cardinality(writer[s].tx)
      /\ status'.skipped = status.skipped /\ status'.st = status.st /\ status'.failed \in Nat
  <2>1. Cardinality(writer[s].tx) \in Nat
    BY PlacesFinite DEF Tx
  <2> PICK n \in {Cardinality(writer[s].tx)} : TRUE
    OBVIOUS
  <2>2. status' = [status EXCEPT !.failed = @ + n] /\ n \in Nat
    BY <1>1, <2>1
  <2>3. status \in StatusType
    BY <1>2
  <2>4. status' \in StatusType /\ status'.failed = status.failed + n
    BY <2>2, <2>3 DEF StatusType
  <2> QED
    BY <2>2, <2>3, <2>4 DEF StatusType
<1>8. Told(s) => /\ status.imported + 0 = Cardinality(saved[s])
                 /\ status'.failed + 0 <= Cardinality(dropped[s])
                 /\ status.st # "finished"
  <2> SUFFICES ASSUME Told(s)
               PROVE  /\ status.imported + 0 = Cardinality(saved[s])
                      /\ status'.failed + 0 <= Cardinality(dropped[s])
                      /\ status.st # "finished"
    OBVIOUS
  <2>1. /\ status.imported + 0 = Cardinality(saved[s]) /\ status.st # "finished"
        /\ status.failed + Cardinality(writer[s].tx) <= Cardinality(dropped[s])
    BY <1>1 DEF Told, Tx
  <2>2. status'.failed + 0 = status'.failed
    BY <1>7
  <2>3. status'.failed <= Cardinality(dropped[s])
    BY <1>7, <2>1
  <2> QED
    BY <2>1, <2>2, <2>3
<1>9. faults' = faults
  BY <1>1
<1>10. LeavesNothing(s, w, queue[s], dropped[s])
  BY <1>1, <1>3, <1>6, <1>7, <1>9 DEF LeavesNothing
<1>11. StillTold(s, w, saved[s], dropped[s])
  BY <1>1, <1>3, <1>7, <1>8, <1>9 DEF StillTold
<1>12. /\ writer[s].pc \notin {"none", "end"} /\ status' \in StatusType /\ status'.by = status.by
       /\ faults' \in Nat /\ faults' >= faults /\ stops + faults' <= MaxEvents
  <2>1. faults' \in Nat /\ faults' >= faults /\ stops + faults' <= MaxEvents
    BY <1>2, <1>9
  <2> QED
    BY <1>1, <1>2, <1>7, <1>9, <2>1
<1> QED
  BY <1>2, <1>3, <1>4, <1>5, <1>10, <1>11, <1>12, WriterStep

(* A row is inserted: it joins the rows of the transaction.                *)
LEMMA InsertKeeps ==
  ASSUME IInv, NEW s \in Sessions, Insert(s)
  PROVE  IInv'
<1> PICK T \in {writer[s].tx \cup {writer[s].row}} : TRUE
  OBVIOUS
<1>1. /\ writer[s].pc = "insert"
      /\ UNCHANGED <<status, stop, reader, closed, queue, saved, dropped, caller, stopper, stops,
                     faults, torn, late, alone>>
  BY DEF Insert, unwritten, requests, history
<1>2. /\ OnePlace(s, writer[s], queue[s], saved[s], dropped[s]) /\ Emptied(s)
      /\ queue[s] \in Seq(Nat) /\ Len(queue[s]) <= BatchSize
      /\ saved[s] \in SUBSET Nat /\ dropped[s] \in SUBSET Nat
      /\ stops \in Nat /\ faults \in Nat /\ stops + faults <= MaxEvents /\ status \in StatusType
  BY PlacedBefore
<1>3. PICK w \in WriterType : /\ writer' = [writer EXCEPT ![s] = w]
                             /\ w.pc \in {"commit", "receive"} /\ w.tx = T
  <2>1. writer[s] \in WriterType
    BY PlacedBefore
  <2>2. PICK pc \in {"commit", "receive"} :
          writer' = [writer EXCEPT ![s] = [writer[s] EXCEPT !.row = 0, !.tx = T, !.pc = pc]]
    BY DEF Insert
  <2>3. /\ [writer[s] EXCEPT !.row = 0, !.tx = T, !.pc = pc] \in WriterType
        /\ [writer[s] EXCEPT !.row = 0, !.tx = T, !.pc = pc].pc = pc
        /\ [writer[s] EXCEPT !.row = 0, !.tx = T, !.pc = pc].tx = T
    BY <2>1 DEF WriterType
  <2> QED
    BY <2>2, <2>3
<1>4. WriterMoves(s, w, queue[s], saved[s], dropped[s])
  BY <1>1, <1>3, PlacedBefore DEF WriterMoves
<1>5. OnePlace(s, w, queue[s], saved[s], dropped[s])
  <2> PICK W \in {Window(s)}, Q \in {Range(queue[s])}, X \in {writer[s].tx}, r \in {writer[s].row} : TRUE
    OBVIOUS
  <2>1. /\ W \cup Q \cup {r} \cup X \cup saved[s] \cup dropped[s] = Good(s) /\ Distinct(queue[s])
        /\ W \cap (Q \cup {r} \cup X \cup saved[s] \cup dropped[s]) = {}
        /\ Q \cap ({r} \cup X \cup saved[s] \cup dropped[s]) = {}
        /\ {r} \cap (X \cup saved[s] \cup dropped[s]) = {}
        /\ saved[s] \cap dropped[s] = {} /\ X \cap saved[s] = {} /\ X \cap dropped[s] = {}
    BY <1>1, <1>2 DEF OnePlace, Inserting
  <2>2. T = X \cup {r}
    OBVIOUS
  <2>3. /\ W \cup Q \cup {} \cup T \cup saved[s] \cup dropped[s] = Good(s)
        /\ W \cap (Q \cup {} \cup T \cup saved[s] \cup dropped[s]) = {}
        /\ Q \cap ({} \cup T \cup saved[s] \cup dropped[s]) = {}
        /\ {} \cap (T \cup saved[s] \cup dropped[s]) = {}
        /\ saved[s] \cap dropped[s] = {} /\ T \cap saved[s] = {} /\ T \cap dropped[s] = {}
    BY <2>1, <2>2
  <2>4. Inserting(w) = {}
    BY <1>3 DEF Inserting
  <2> QED
    BY <1>3, <2>1, <2>3, <2>4 DEF OnePlace
<1>6. dropped[s] # {} => faults > 0
  BY <1>2 DEF Emptied
<1>7. Told(s) => /\ status.imported + 0 = Cardinality(saved[s])
                 /\ status.failed + 0 <= Cardinality(dropped[s])
                 /\ status.st # "finished"
  BY <1>1 DEF Told
<1>8. status' = status /\ faults' = faults
  BY <1>1
<1>9. LeavesNothing(s, w, queue[s], dropped[s]) /\ StillTold(s, w, saved[s], dropped[s])
  BY <1>3, <1>6, <1>7, <1>8 DEF LeavesNothing, StillTold
<1>10. /\ writer[s].pc \notin {"none", "end"} /\ status' \in StatusType /\ status'.by = status.by
       /\ faults' \in Nat /\ faults' >= faults /\ stops + faults' <= MaxEvents
  BY <1>1, <1>2, <1>8
<1> QED
  BY <1>2, <1>3, <1>4, <1>5, <1>9, <1>10, WriterStep

(* Where none fails, the bound on the events stays.                        *)
LEMMA NoFault ==
  ASSUME IInv, faults' = faults
  PROVE  /\ faults' \in Nat /\ faults' >= faults /\ stops + faults' <= MaxEvents
BY DEF IInv, Types

LEMMA PlusNothing ==
  ASSUME NEW m \in Nat, NEW k \in Nat, m + 0 = k
  PROVE  m = k
OBVIOUS

(* A call of the database that fails is one of the events.                 *)
LEMMA OneFault ==
  ASSUME IInv, Fault
  PROVE  /\ faults' \in Nat /\ faults' >= faults /\ faults' > 0 /\ stops + faults' <= MaxEvents
BY ImporterAssumption DEF Fault, IInv, Types

(* The rows of a batch and the one that failed, all lost and one told of.  *)
LEMMA OneTold ==
  ASSUME NEW f \in Nat, NEW d \in Nat, NEW x \in Nat, f + 0 <= d, NEW one \in {0, 1}
  PROVE  (f + one) + x <= d + x + 1 /\ (f + one) + 0 <= d + x + 1
OBVIOUS

(* An insert fails: the rows of its batch, and its own, are lost.          *)
LEMMA InsertFailsKeeps ==
  ASSUME IInv, NEW s \in Sessions, InsertFails(s)
  PROVE  IInv'
<1>9. /\ writer[s].pc \notin {"none", "end"} /\ status' \in StatusType /\ status'.by = status.by
      /\ faults' \in Nat /\ faults' >= faults /\ faults' > 0 /\ stops + faults' <= MaxEvents
  <2>1. /\ status \in StatusType /\ writer[s].pc = "insert"
        /\ \E counted \in {0, 1} : status' = [status EXCEPT !.failed = @ + counted]
    BY PlacedBefore DEF InsertFails
  <2>2. status' \in StatusType /\ status'.by = status.by
    BY <2>1 DEF StatusType
  <2>3. Fault
    BY DEF InsertFails
  <2> QED
    BY <2>1, <2>2, <2>3, OneFault
<1>0. PICK w \in WriterType :
        /\ writer' = [writer EXCEPT ![s] = w] /\ w.tx = writer[s].tx
        /\ w.pc \in {"finish", "rolled back"} /\ (w.pc = "finish" => writer[s].tx = {})
        /\ writer[s].tx \in SUBSET Nat /\ writer[s].row \in Nat
  <2>1. PICK pc \in {"finish", "rolled back"} :
          /\ writer' = [writer EXCEPT ![s] = [writer[s] EXCEPT !.row = 0, !.pc = pc]]
          /\ pc = "finish" => writer[s].tx = {}
    BY DEF InsertFails
  <2>2. writer[s] \in WriterType
    BY PlacedBefore
  <2>3. /\ [writer[s] EXCEPT !.row = 0, !.pc = pc] \in WriterType
        /\ [writer[s] EXCEPT !.row = 0, !.pc = pc].pc = pc
        /\ [writer[s] EXCEPT !.row = 0, !.pc = pc].tx = writer[s].tx
        /\ writer[s].tx \in SUBSET Nat /\ writer[s].row \in Nat
    BY <2>2 DEF WriterType
  <2> QED
    BY <2>1, <2>3
<1> PICK X \in {writer[s].tx}, r \in {writer[s].row}, D \in {dropped[s]} : TRUE
  OBVIOUS
<1> PICK counted \in {0, 1} : status' = [status EXCEPT !.failed = @ + counted]
  BY DEF InsertFails
<1>1. /\ writer[s].pc = "insert" /\ status' = [status EXCEPT !.failed = @ + counted]
      /\ dropped' = [dropped EXCEPT ![s] = D \cup X \cup {r}]
      /\ UNCHANGED <<stop, reader, closed, queue, saved, caller, stopper, stops, torn, late, alone>>
  BY DEF InsertFails, unwritten, requests, history
<1>2. /\ OnePlace(s, writer[s], queue[s], saved[s], D) /\ Emptied(s)
      /\ queue[s] \in Seq(Nat) /\ Len(queue[s]) <= BatchSize
      /\ saved[s] \in SUBSET Nat /\ D \in SUBSET Nat
      /\ stops \in Nat /\ faults \in Nat /\ stops + faults <= MaxEvents /\ status \in StatusType
  BY PlacedBefore
<1>3. /\ w.tx = X /\ X \in SUBSET Nat /\ r \in Nat
      /\ w.pc \in {"finish", "rolled back"} /\ (w.pc = "finish" => X = {})
  BY <1>0
<1>4. WriterMoves(s, w, queue[s], saved[s], D \cup X \cup {r})
  BY <1>0, <1>1, PlacedBefore DEF WriterMoves
<1> PICK E \in {D \cup X \cup {r}} : TRUE
  OBVIOUS
<1>5. OnePlace(s, w, queue[s], saved[s], E)
  <2> PICK W \in {Window(s)}, Q \in {Range(queue[s])} : TRUE
    OBVIOUS
  <2>1. /\ W \cup Q \cup {r} \cup X \cup saved[s] \cup D = Good(s) /\ Distinct(queue[s])
        /\ W \cap (Q \cup {r} \cup X \cup saved[s] \cup D) = {}
        /\ Q \cap ({r} \cup X \cup saved[s] \cup D) = {}
        /\ {r} \cap (X \cup saved[s] \cup D) = {}
        /\ saved[s] \cap D = {} /\ X \cap saved[s] = {} /\ X \cap D = {}
    BY <1>1, <1>2 DEF OnePlace, Inserting
  <2>2. E = D \cup X \cup {r}
    OBVIOUS
  <2>3. /\ W \cup Q \cup {} \cup X \cup saved[s] \cup E = Good(s)
        /\ W \cap (Q \cup {} \cup X \cup saved[s] \cup E) = {}
        /\ Q \cap ({} \cup X \cup saved[s] \cup E) = {}
        /\ {} \cap (X \cup saved[s] \cup E) = {}
        /\ saved[s] \cap E = {} /\ X \cap saved[s] = {} /\ X \subseteq E
    BY <2>1, <2>2
  <2>4. Inserting(w) = {} /\ w.pc \notin {"count", "count last"}
    BY <1>3 DEF Inserting
  <2>5. IF w.pc = "rolled back" THEN w.tx \subseteq E ELSE w.tx \cap E = {}
    <3>1. X \subseteq E /\ w.tx = X /\ (w.pc # "rolled back" => X = {})
      BY <1>3, <2>3
    <3> QED
      BY <3>1
  <2> QED
    BY <1>3, <2>1, <2>3, <2>4, <2>5 DEF OnePlace
<1>6. Told(s) => /\ status'.imported + 0 = Cardinality(saved[s])
                 /\ status'.failed + (IF w.pc = "rolled back" THEN Cardinality(X) ELSE 0)
                      <= Cardinality(E)
                 /\ status'.skipped = status.skipped
                 /\ status'.st # "finished"
  <2> SUFFICES ASSUME Told(s)
               PROVE  /\ status'.imported + 0 = Cardinality(saved[s])
                      /\ status'.failed + (IF w.pc = "rolled back" THEN Cardinality(X) ELSE 0)
                           <= Cardinality(E)
                      /\ status'.skipped = status.skipped
                      /\ status'.st # "finished"
    OBVIOUS
  <2>1. /\ status.imported + 0 = Cardinality(saved[s]) /\ status.st # "finished"
        /\ status.failed + 0 <= Cardinality(D)
    BY <1>1 DEF Told, Tx
  <2>2. /\ status'.imported = status.imported /\ status'.failed = status.failed + counted
        /\ status'.skipped = status.skipped /\ status'.st = status.st /\ status.failed \in Nat
    BY <1>1, <1>2 DEF StatusType
  <2>3. Cardinality(E) = Cardinality(D) + Cardinality(X) + 1 /\ Cardinality(D) \in Nat /\ Cardinality(X) \in Nat
    <3>1. /\ IsFiniteSet(D) /\ IsFiniteSet(X) /\ Cardinality(D) \in Nat /\ Cardinality(X) \in Nat
      BY PlacesFinite DEF Tx
    <3>2. D \cap X = {} /\ r \notin D \cup X
      BY <1>1, <1>2 DEF OnePlace, Inserting
    <3>3. IsFiniteSet(D \cup X) /\ Cardinality(D \cup X) = Cardinality(D) + Cardinality(X)
      BY <3>1, <3>2, SumOfTwo
    <3>4. Cardinality((D \cup X) \cup {r}) = Cardinality(D \cup X) + 1
      BY <3>2, <3>3, FS_AddElement
    <3> QED
      BY <3>1, <3>3, <3>4
  <2>5. status'.failed + Cardinality(X) <= Cardinality(E) /\ status'.failed + 0 <= Cardinality(E)
    BY <2>1, <2>2, <2>3, OneTold
  <2> QED
    BY <2>1, <2>2, <2>5
<1>7. LeavesNothing(s, w, queue[s], E)
  BY <1>3, <1>9 DEF LeavesNothing
<1>8. StillTold(s, w, saved[s], E)
  BY <1>3, <1>6 DEF StillTold
<1>10. E \in SUBSET Nat
  BY <1>2, <1>3
<1> QED
  BY <1>2, <1>3, <1>4, <1>5, <1>7, <1>8, <1>9, <1>10, WriterStep

(* A row is received, and inserted next.                                   *)
LEMMA ReceivedKeeps ==
  ASSUME IInv, NEW s \in Sessions, writer[s].pc = "receive", queue[s] # <<>>,
         queue' = [queue EXCEPT ![s] = Tail(@)],
         writer' = [writer EXCEPT ![s].pc = "insert", ![s].row = Head(queue[s])],
         UNCHANGED <<status, stop, reader, closed, saved, dropped, caller, stopper, stops, faults,
                     torn, late, alone>>
  PROVE  IInv'
<1>1. /\ OnePlace(s, writer[s], queue[s], saved[s], dropped[s]) /\ Emptied(s)
      /\ queue[s] \in Seq(Nat) /\ Len(queue[s]) <= BatchSize
      /\ saved[s] \in SUBSET Nat /\ dropped[s] \in SUBSET Nat /\ writer[s] \in WriterType
      /\ stops \in Nat /\ faults \in Nat /\ stops + faults <= MaxEvents /\ status \in StatusType
  BY PlacedBefore
<1>2. /\ Tail(queue[s]) \in Seq(Nat) /\ Len(Tail(queue[s])) = Len(queue[s]) - 1 /\ Len(queue[s]) \in Nat
      /\ Head(queue[s]) \in Nat /\ Head(queue[s]) \in Range(queue[s])
      /\ Range(Tail(queue[s])) = Range(queue[s]) \ {Head(queue[s])} /\ Distinct(Tail(queue[s]))
  <2>1. Distinct(queue[s])
    BY <1>1 DEF OnePlace
  <2> QED
    BY <1>1, <2>1, TailRange
<1>3. PICK q \in Seq(Nat) : q = Tail(queue[s])
  BY <1>2
<1>4. PICK h \in Nat : h = Head(queue[s])
  BY <1>2
<1>5. PICK w \in WriterType : /\ writer' = [writer EXCEPT ![s] = w]
                             /\ w.pc = "insert" /\ w.row = h /\ w.tx = writer[s].tx
  <2>1. writer' = [writer EXCEPT ![s] = [writer[s] EXCEPT !.pc = "insert", !.row = h]]
    BY <1>4
  <2>2. /\ [writer[s] EXCEPT !.pc = "insert", !.row = h] \in WriterType
        /\ [writer[s] EXCEPT !.pc = "insert", !.row = h].pc = "insert"
        /\ [writer[s] EXCEPT !.pc = "insert", !.row = h].row = h
        /\ [writer[s] EXCEPT !.pc = "insert", !.row = h].tx = writer[s].tx
    BY <1>1 DEF WriterType
  <2> QED
    BY <2>1, <2>2
<1>6. WriterMoves(s, w, q, saved[s], dropped[s])
  BY <1>3, <1>5, PlacedBefore DEF WriterMoves
<1>7. OnePlace(s, w, q, saved[s], dropped[s])
  <2> PICK W \in {Window(s)}, Q \in {Range(queue[s])}, X \in {writer[s].tx} : TRUE
    OBVIOUS
  <2>1. /\ W \cup Q \cup {} \cup X \cup saved[s] \cup dropped[s] = Good(s)
        /\ W \cap (Q \cup {} \cup X \cup saved[s] \cup dropped[s]) = {}
        /\ Q \cap ({} \cup X \cup saved[s] \cup dropped[s]) = {}
        /\ saved[s] \cap dropped[s] = {} /\ X \cap saved[s] = {} /\ X \cap dropped[s] = {}
        /\ h \in Q
    BY <1>1, <1>2, <1>4 DEF OnePlace, Inserting
  <2>2. /\ W \cup (Q \ {h}) \cup {h} \cup X \cup saved[s] \cup dropped[s] = Good(s)
        /\ W \cap ((Q \ {h}) \cup {h} \cup X \cup saved[s] \cup dropped[s]) = {}
        /\ (Q \ {h}) \cap ({h} \cup X \cup saved[s] \cup dropped[s]) = {}
        /\ {h} \cap (X \cup saved[s] \cup dropped[s]) = {}
    BY <2>1
  <2>3. Inserting(w) = {h} /\ Range(q) = Q \ {h} /\ Distinct(q)
    BY <1>2, <1>3, <1>4, <1>5 DEF Inserting
  <2> QED
    BY <1>5, <2>1, <2>2, <2>3 DEF OnePlace
<1>8. Len(q) <= BatchSize
  BY <1>1, <1>2, <1>3, ImporterAssumption
<1>9. dropped[s] # {} => faults > 0
  BY <1>1 DEF Emptied
<1>10. Told(s) => /\ status.imported + 0 = Cardinality(saved[s])
                  /\ status.failed + 0 <= Cardinality(dropped[s])
                  /\ status.st # "finished"
  BY DEF Told
<1>11. LeavesNothing(s, w, q, dropped[s]) /\ StillTold(s, w, saved[s], dropped[s])
  BY <1>5, <1>9, <1>10 DEF LeavesNothing, StillTold
<1>12. /\ writer[s].pc \notin {"none", "end"} /\ status' \in StatusType /\ status'.by = status.by
       /\ faults' \in Nat /\ faults' >= faults /\ stops + faults' <= MaxEvents
  BY <1>1
<1> QED
  BY <1>1, <1>5, <1>6, <1>7, <1>8, <1>11, <1>12, WriterStep

(* A row is received, no transaction can be begun for it, and it is lost.  *)
LEMMA NotBegunKeeps ==
  ASSUME IInv, NEW s \in Sessions, writer[s].pc = "receive", queue[s] # <<>>,
         queue' = [queue EXCEPT ![s] = Tail(@)], Fault,
         dropped' = [dropped EXCEPT ![s] = @ \cup {Head(queue[s])}], writer[s].tx = {},
         UNCHANGED <<writer, status, stop, reader, closed, saved, caller, stopper, stops,
                     torn, late, alone>>
  PROVE  IInv'
<1>1. /\ OnePlace(s, writer[s], queue[s], saved[s], dropped[s]) /\ Emptied(s)
      /\ queue[s] \in Seq(Nat) /\ Len(queue[s]) <= BatchSize
      /\ saved[s] \in SUBSET Nat /\ dropped[s] \in SUBSET Nat /\ writer[s] \in WriterType
      /\ stops \in Nat /\ faults \in Nat /\ stops + faults <= MaxEvents /\ status \in StatusType
  BY PlacedBefore
<1>2. /\ Tail(queue[s]) \in Seq(Nat) /\ Len(Tail(queue[s])) = Len(queue[s]) - 1 /\ Len(queue[s]) \in Nat
      /\ Head(queue[s]) \in Nat /\ Head(queue[s]) \in Range(queue[s])
      /\ Range(Tail(queue[s])) = Range(queue[s]) \ {Head(queue[s])} /\ Distinct(Tail(queue[s]))
  <2>1. Distinct(queue[s])
    BY <1>1 DEF OnePlace
  <2> QED
    BY <1>1, <2>1, TailRange
<1>3. PICK q \in Seq(Nat) : q = Tail(queue[s])
  BY <1>2
<1>4. PICK h \in Nat : h = Head(queue[s])
  BY <1>2
<1>5. PICK D \in SUBSET Nat : D = dropped[s] \cup {h}
  BY <1>1
<1>6. WriterMoves(s, writer[s], q, saved[s], D)
  BY <1>3, <1>4, <1>5, PlacedBefore DEF WriterMoves
<1>7. Inserting(writer[s]) = {}
  BY DEF Inserting
<1>8. OnePlace(s, writer[s], q, saved[s], D)
  <2> PICK W \in {Window(s)}, Q \in {Range(queue[s])} : TRUE
    OBVIOUS
  <2>1. /\ W \cup Q \cup {} \cup {} \cup saved[s] \cup dropped[s] = Good(s)
        /\ W \cap (Q \cup {} \cup {} \cup saved[s] \cup dropped[s]) = {}
        /\ Q \cap ({} \cup {} \cup saved[s] \cup dropped[s]) = {}
        /\ saved[s] \cap dropped[s] = {}
        /\ h \in Q
    BY <1>1, <1>2, <1>4, <1>7 DEF OnePlace
  <2>2. /\ W \cup (Q \ {h}) \cup {} \cup {} \cup saved[s] \cup D = Good(s)
        /\ W \cap ((Q \ {h}) \cup {} \cup {} \cup saved[s] \cup D) = {}
        /\ (Q \ {h}) \cap ({} \cup {} \cup saved[s] \cup D) = {}
        /\ saved[s] \cap D = {}
    BY <1>5, <2>1
  <2>3. Range(q) = Q \ {h} /\ Distinct(q)
    BY <1>2, <1>3, <1>4
  <2> QED
    BY <1>7, <2>2, <2>3 DEF OnePlace
<1>9. Len(q) <= BatchSize
  BY <1>1, <1>2, <1>3, ImporterAssumption
<1>10. faults' \in Nat /\ faults' >= faults /\ faults' > 0 /\ stops + faults' <= MaxEvents
  BY OneFault
<1>11. Told(s) => /\ status.imported + 0 = Cardinality(saved[s])
                  /\ status.failed + 0 <= Cardinality(D)
                  /\ status.st # "finished"
  <2>1. IsFiniteSet(dropped[s]) /\ Cardinality(dropped[s]) \in Nat
    BY PlacesFinite
  <2>2. IsFiniteSet(D) /\ Cardinality(D) \in Nat /\ Cardinality(dropped[s]) <= Cardinality(D)
    <3>1. IsFiniteSet(D)
      BY <1>5, <2>1, FS_AddElement
    <3> QED
      BY <1>5, <3>1, FS_Subset, FS_CardinalityType
  <2>3. status.failed \in Nat
    BY <1>1 DEF StatusType
  <2>4. Told(s) => /\ status.imported + 0 = Cardinality(saved[s])
                   /\ status.failed + 0 <= Cardinality(dropped[s])
                   /\ status.st # "finished"
    BY DEF Told
  <2> QED
    BY <2>1, <2>2, <2>3, <2>4
<1>12. LeavesNothing(s, writer[s], q, D) /\ StillTold(s, writer[s], saved[s], D)
  BY <1>10, <1>11 DEF LeavesNothing, StillTold
<1> QED
  BY <1>1, <1>6, <1>8, <1>9, <1>10, <1>12, WriterStep

LEMMA ReceiveKeeps ==
  ASSUME IInv, NEW s \in Sessions, Receive(s)
  PROVE  IInv'
<1>1. /\ writer[s].pc = "receive" /\ queue[s] # <<>>
      /\ queue' = [queue EXCEPT ![s] = Tail(@)]
      /\ UNCHANGED <<status, stop, reader, closed, saved, caller, stopper, stops, torn, late, alone>>
  BY DEF Receive, unwritten, requests, history
<1>2. \/ /\ writer' = [writer EXCEPT ![s].pc = "insert", ![s].row = Head(queue[s])]
         /\ UNCHANGED <<dropped, faults>>
      \/ /\ writer[s].tx = {} /\ Fault
         /\ dropped' = [dropped EXCEPT ![s] = @ \cup {Head(queue[s])}]
         /\ UNCHANGED writer
  BY DEF Receive
<1> QED
  BY <1>1, <1>2, ReceivedKeeps, NotBegunKeeps

(* The writer's record when a batch has been dealt with.                   *)
Dealt(w, pc, last) ==
  IF last THEN [w EXCEPT !.pc = pc, !.tx = {}]
  ELSE [w EXCEPT !.pc = "receive", !.tx = {}, !.batch = @ + 1]

LEMMA NextBatch ==
  ASSUME NEW w \in WriterType, NEW pc \in {"finish", "fail"}, NEW last \in BOOLEAN
  PROVE  /\ Dealt(w, pc, last) \in WriterType /\ Dealt(w, pc, last).tx = {}
         /\ Dealt(w, pc, last).pc = (IF last THEN pc ELSE "receive")
<1>1. CASE last
  BY <1>1 DEF WriterType, Dealt
<1>2. CASE ~last
  <2>1. w.batch \in Nat
    BY DEF WriterType
  <2>2. PICK b \in Nat : b = w.batch + 1
    BY <2>1
  <2>3. Dealt(w, pc, last) = [w EXCEPT !.pc = "receive", !.tx = {}, !.batch = b]
    BY <1>2, <2>2 DEF Dealt
  <2> QED
    BY <1>2, <2>3 DEF WriterType
<1> QED
  BY <1>1, <1>2

(* A batch is committed; its rows are told of next.                        *)
LEMMA CommittedKeeps ==
  ASSUME IInv, NEW s \in Sessions, writer[s].pc \in {"commit", "last"},
         saved' = [saved EXCEPT ![s] = @ \cup writer[s].tx],
         writer' = [writer EXCEPT ![s].pc = IF writer[s].pc = "last" THEN "count last" ELSE "count"],
         UNCHANGED <<status, stop, reader, closed, queue, dropped, caller, stopper, stops, faults,
                     torn, late, alone>>
  PROVE  IInv'
<1>1. /\ OnePlace(s, writer[s], queue[s], saved[s], dropped[s]) /\ Emptied(s)
      /\ queue[s] \in Seq(Nat) /\ Len(queue[s]) <= BatchSize
      /\ saved[s] \in SUBSET Nat /\ dropped[s] \in SUBSET Nat /\ writer[s] \in WriterType
      /\ stops \in Nat /\ faults \in Nat /\ stops + faults <= MaxEvents /\ status \in StatusType
  BY PlacedBefore
<1>2. PICK pc \in {"count", "count last"} : pc = IF writer[s].pc = "last" THEN "count last" ELSE "count"
  OBVIOUS
<1>3. PICK w \in WriterType : /\ writer' = [writer EXCEPT ![s] = w]
                             /\ w.pc = pc /\ w.tx = writer[s].tx /\ w.tx \in SUBSET Nat
  <2>1. writer' = [writer EXCEPT ![s] = [writer[s] EXCEPT !.pc = pc]]
    BY <1>2
  <2>2. /\ [writer[s] EXCEPT !.pc = pc] \in WriterType
        /\ [writer[s] EXCEPT !.pc = pc].pc = pc
        /\ [writer[s] EXCEPT !.pc = pc].tx = writer[s].tx /\ writer[s].tx \in SUBSET Nat
    BY <1>1 DEF WriterType
  <2> QED
    BY <2>1, <2>2
<1>4. PICK S \in SUBSET Nat : S = saved[s] \cup w.tx
  BY <1>1, <1>3
<1>5. WriterMoves(s, w, queue[s], S, dropped[s])
  BY <1>3, <1>4, PlacedBefore DEF WriterMoves
<1>6. OnePlace(s, w, queue[s], S, dropped[s])
  <2> PICK W \in {Window(s)}, Q \in {Range(queue[s])}, X \in {w.tx} : TRUE
    OBVIOUS
  <2>1. /\ W \cup Q \cup {} \cup X \cup saved[s] \cup dropped[s] = Good(s) /\ Distinct(queue[s])
        /\ W \cap (Q \cup {} \cup X \cup saved[s] \cup dropped[s]) = {}
        /\ Q \cap ({} \cup X \cup saved[s] \cup dropped[s]) = {}
        /\ saved[s] \cap dropped[s] = {} /\ X \cap saved[s] = {} /\ X \cap dropped[s] = {}
    BY <1>1, <1>3 DEF OnePlace, Inserting
  <2>2. S = saved[s] \cup X
    BY <1>4
  <2>3. /\ W \cup Q \cup {} \cup X \cup S \cup dropped[s] = Good(s)
        /\ W \cap (Q \cup {} \cup X \cup S \cup dropped[s]) = {}
        /\ Q \cap ({} \cup X \cup S \cup dropped[s]) = {}
        /\ S \cap dropped[s] = {} /\ X \subseteq S /\ X \cap dropped[s] = {}
    BY <2>1, <2>2
  <2>4. Inserting(w) = {}
    BY <1>3 DEF Inserting
  <2> QED
    BY <1>3, <2>1, <2>3, <2>4 DEF OnePlace
<1>7. /\ dropped[s] # {} => faults > 0
      /\ w.pc = "count last" => closed[s] /\ queue[s] = <<>>
  BY <1>1, <1>2, <1>3 DEF Emptied
<1>8. Told(s) => /\ status.imported + Cardinality(w.tx) = Cardinality(S)
                 /\ status.failed + 0 <= Cardinality(dropped[s])
                 /\ status.st # "finished"
  <2>1. saved[s] \cap w.tx = {}
    BY <1>1, <1>3 DEF OnePlace
  <2>2. IsFiniteSet(w.tx) /\ IsFiniteSet(saved[s]) /\ Cardinality(saved[s]) \in Nat
    BY <1>3, PlacesFinite DEF Tx
  <2>3. Cardinality(S) = Cardinality(saved[s]) + Cardinality(w.tx)
    BY <1>4, <2>1, <2>2, SumOfTwo
  <2>4. Told(s) => /\ status.imported + 0 = Cardinality(saved[s])
                   /\ status.failed + 0 <= Cardinality(dropped[s])
                   /\ status.st # "finished"
    BY DEF Told
  <2>5. status.imported \in Nat
    BY <1>1 DEF StatusType
  <2>6. Told(s) => status.imported = Cardinality(saved[s])
    BY <2>2, <2>4, <2>5, PlusNothing
  <2> QED
    BY <2>3, <2>4, <2>6
<1>9. LeavesNothing(s, w, queue[s], dropped[s]) /\ StillTold(s, w, S, dropped[s])
  BY <1>3, <1>7, <1>8 DEF LeavesNothing, StillTold
<1>10. /\ writer[s].pc \notin {"none", "end"} /\ status' \in StatusType /\ status'.by = status.by
       /\ faults' \in Nat /\ faults' >= faults /\ stops + faults' <= MaxEvents
  BY <1>1, NoFault
<1> QED
  BY <1>1, <1>3, <1>5, <1>6, <1>9, <1>10, WriterStep

(* A commit fails: the rows of the batch are lost, and told of.            *)
LEMMA NotCommittedKeeps ==
  ASSUME IInv, NEW s \in Sessions, writer[s].pc \in {"commit", "last"}, Fault,
         dropped' = [dropped EXCEPT ![s] = @ \cup writer[s].tx],
         status' = [status EXCEPT !.failed = @ + Cardinality(writer[s].tx)],
         writer' = [writer EXCEPT ![s] =
                      IF writer[s].pc = "last" THEN [writer[s] EXCEPT !.pc = "fail", !.tx = {}]
                      ELSE [writer[s] EXCEPT !.pc = "receive", !.tx = {}, !.batch = @ + 1]],
         UNCHANGED <<stop, reader, closed, queue, saved, caller, stopper, stops, torn, late, alone>>
  PROVE  IInv'
<1>1. /\ OnePlace(s, writer[s], queue[s], saved[s], dropped[s]) /\ Emptied(s)
      /\ queue[s] \in Seq(Nat) /\ Len(queue[s]) <= BatchSize
      /\ saved[s] \in SUBSET Nat /\ dropped[s] \in SUBSET Nat /\ writer[s] \in WriterType
      /\ stops \in Nat /\ faults \in Nat /\ stops + faults <= MaxEvents /\ status \in StatusType
  BY PlacedBefore
<1>2. PICK w \in WriterType : /\ writer' = [writer EXCEPT ![s] = w]
                             /\ w.pc \in {"fail", "receive"} /\ w.tx = {}
  <2>1. PICK last \in BOOLEAN : last = (writer[s].pc = "last")
    OBVIOUS
  <2>2. writer' = [writer EXCEPT ![s] = Dealt(writer[s], "fail", last)]
    BY <2>1 DEF Dealt
  <2>3. /\ Dealt(writer[s], "fail", last) \in WriterType
        /\ Dealt(writer[s], "fail", last).tx = {}
        /\ Dealt(writer[s], "fail", last).pc = (IF last THEN "fail" ELSE "receive")
    BY <1>1, NextBatch
  <2> QED
    BY <2>1, <2>2, <2>3
<1>3. PICK X \in SUBSET Nat : X = writer[s].tx
  BY <1>1 DEF WriterType
<1>4. PICK D \in SUBSET Nat : D = dropped[s] \cup X
  BY <1>1
<1>5. WriterMoves(s, w, queue[s], saved[s], D)
  BY <1>2, <1>3, <1>4, PlacedBefore DEF WriterMoves
<1>6. X \cap saved[s] = {} /\ X \cap dropped[s] = {} /\ Inserting(writer[s]) = {} /\ Inserting(w) = {}
  BY <1>1, <1>2, <1>3 DEF OnePlace, Inserting
<1>7. OnePlace(s, w, queue[s], saved[s], D)
  <2> PICK W \in {Window(s)}, Q \in {Range(queue[s])} : TRUE
    OBVIOUS
  <2>1. /\ W \cup Q \cup {} \cup X \cup saved[s] \cup dropped[s] = Good(s) /\ Distinct(queue[s])
        /\ W \cap (Q \cup {} \cup X \cup saved[s] \cup dropped[s]) = {}
        /\ Q \cap ({} \cup X \cup saved[s] \cup dropped[s]) = {}
        /\ saved[s] \cap dropped[s] = {}
    BY <1>1, <1>3, <1>6 DEF OnePlace
  <2>2. /\ W \cup Q \cup {} \cup {} \cup saved[s] \cup D = Good(s)
        /\ W \cap (Q \cup {} \cup {} \cup saved[s] \cup D) = {}
        /\ Q \cap ({} \cup {} \cup saved[s] \cup D) = {}
        /\ saved[s] \cap D = {}
    BY <1>4, <1>6, <2>1
  <2> QED
    BY <1>2, <1>6, <2>1, <2>2 DEF OnePlace
<1>8. faults' \in Nat /\ faults' >= faults /\ faults' > 0 /\ stops + faults' <= MaxEvents
  BY OneFault
<1>9. PICK n \in Nat : n = Cardinality(X)
  BY <1>3, PlacesFinite DEF Tx
<1>10. /\ status' \in StatusType /\ status'.by = status.by /\ status'.imported = status.imported
       /\ status'.failed = status.failed + n
       /\ status'.skipped = status.skipped /\ status'.st = status.st
  <2>1. status' = [status EXCEPT !.failed = @ + n]
    BY <1>3, <1>9
  <2> QED
    BY <1>1, <2>1 DEF StatusType
<1>11. Told(s) => /\ status'.imported + 0 = Cardinality(saved[s])
                  /\ status'.failed + 0 <= Cardinality(D)
                  /\ status.st # "finished"
  <2>1. Told(s) => /\ status.imported + 0 = Cardinality(saved[s])
                   /\ status.failed + 0 <= Cardinality(dropped[s])
                   /\ status.st # "finished"
    BY DEF Told
  <2>2. IsFiniteSet(X) /\ IsFiniteSet(dropped[s]) /\ Cardinality(dropped[s]) \in Nat
    BY <1>3, PlacesFinite DEF Tx
  <2>3. Cardinality(D) = Cardinality(dropped[s]) + n
    BY <1>4, <1>6, <1>9, <2>2, SumOfTwo
  <2>4. status.failed \in Nat
    BY <1>1 DEF StatusType
  <2> QED
    BY <1>10, <2>1, <2>2, <2>3, <2>4
<1>12. LeavesNothing(s, w, queue[s], D) /\ StillTold(s, w, saved[s], D)
  BY <1>2, <1>8, <1>10, <1>11 DEF LeavesNothing, StillTold
<1> QED
  BY <1>1, <1>2, <1>5, <1>7, <1>8, <1>10, <1>12, WriterStep

LEMMA CommitKeeps ==
  ASSUME IInv, NEW s \in Sessions, Commit(s)
  PROVE  IInv'
<1>1. /\ writer[s].pc \in {"commit", "last"}
      /\ UNCHANGED <<stop, reader, closed, queue, caller, stopper, stops, torn, late, alone>>
  BY DEF Commit, unwritten, requests, history
<1>2. \/ /\ saved' = [saved EXCEPT ![s] = @ \cup writer[s].tx]
         /\ writer' = [writer EXCEPT ![s].pc = IF writer[s].pc = "last" THEN "count last" ELSE "count"]
         /\ UNCHANGED <<status, dropped, faults>>
      \/ /\ Fault
         /\ dropped' = [dropped EXCEPT ![s] = @ \cup writer[s].tx]
         /\ status' = [status EXCEPT !.failed = @ + Cardinality(writer[s].tx)]
         /\ writer' = [writer EXCEPT ![s] =
                         IF writer[s].pc = "last" THEN [writer[s] EXCEPT !.pc = "fail", !.tx = {}]
                         ELSE [writer[s] EXCEPT !.pc = "receive", !.tx = {}, !.batch = @ + 1]]
         /\ UNCHANGED saved
  BY DEF Commit
<1> QED
  BY <1>1, <1>2, CommittedKeeps, NotCommittedKeeps

(* The rows of the batch are told as imported.                             *)
LEMMA CountKeeps ==
  ASSUME IInv, NEW s \in Sessions, Count(s)
  PROVE  IInv'
<1>0. /\ writer[s].pc \in {"count", "count last"}
      /\ status' = [status EXCEPT !.imported = @ + Cardinality(writer[s].tx)]
      /\ writer' = [writer EXCEPT ![s] =
                      IF writer[s].pc = "count last" THEN [writer[s] EXCEPT !.pc = "finish", !.tx = {}]
                      ELSE [writer[s] EXCEPT !.pc = "receive", !.tx = {}, !.batch = @ + 1]]
      /\ UNCHANGED <<stop, reader, closed, queue, saved, dropped, caller, stopper, stops, faults,
                     torn, late, alone>>
  BY DEF Count, unwritten, requests, history
<1>1. /\ OnePlace(s, writer[s], queue[s], saved[s], dropped[s]) /\ Emptied(s)
      /\ queue[s] \in Seq(Nat) /\ Len(queue[s]) <= BatchSize
      /\ saved[s] \in SUBSET Nat /\ dropped[s] \in SUBSET Nat /\ writer[s] \in WriterType
      /\ stops \in Nat /\ faults \in Nat /\ stops + faults <= MaxEvents /\ status \in StatusType
  BY PlacedBefore
<1>2. PICK w \in WriterType : /\ writer' = [writer EXCEPT ![s] = w] /\ w.tx = {}
                             /\ w.pc = (IF writer[s].pc = "count last" THEN "finish" ELSE "receive")
  <2>1. PICK last \in BOOLEAN : last = (writer[s].pc = "count last")
    OBVIOUS
  <2>2. writer' = [writer EXCEPT ![s] = Dealt(writer[s], "finish", last)]
    BY <1>0, <2>1 DEF Dealt
  <2>3. /\ Dealt(writer[s], "finish", last) \in WriterType
        /\ Dealt(writer[s], "finish", last).tx = {}
        /\ Dealt(writer[s], "finish", last).pc = (IF last THEN "finish" ELSE "receive")
    BY <1>1, NextBatch
  <2> QED
    BY <2>1, <2>2, <2>3
<1>3. WriterMoves(s, w, queue[s], saved[s], dropped[s])
  BY <1>0, <1>2, PlacedBefore DEF WriterMoves
<1>4. OnePlace(s, w, queue[s], saved[s], dropped[s])
  <2>1. /\ Inserting(w) = {} /\ Inserting(writer[s]) = {} /\ writer[s].tx \subseteq saved[s]
        /\ w.pc \notin {"count", "count last", "rolled back"}
    BY <1>0, <1>1, <1>2 DEF OnePlace, Inserting
  <2> QED
    BY <1>0, <1>1, <1>2, <2>1 DEF OnePlace
<1>5. /\ dropped[s] # {} => faults > 0
      /\ w.pc = "finish" => closed[s] /\ queue[s] = <<>>
      /\ w.pc \in {"finish", "receive"}
  BY <1>0, <1>1, <1>2 DEF Emptied
<1>6. PICK n \in Nat : n = Cardinality(writer[s].tx)
  BY PlacesFinite DEF Tx
<1>7. /\ status' \in StatusType /\ status'.by = status.by /\ status'.imported = status.imported + n
      /\ status'.failed = status.failed
      /\ status'.skipped = status.skipped /\ status'.st = status.st
  <2>1. status' = [status EXCEPT !.imported = @ + n]
    BY <1>0, <1>6
  <2>2. status \in StatusType
    BY <1>1
  <2>3. status' \in StatusType /\ status'.imported = status.imported + n
    BY <2>1, <2>2 DEF StatusType
  <2> QED
    BY <2>1, <2>2, <2>3 DEF StatusType
<1>8. Told(s) => /\ status'.imported + 0 = Cardinality(saved[s])
                 /\ status'.failed + 0 <= Cardinality(dropped[s])
                 /\ status.st # "finished"
  <2>1. Told(s) => /\ status.imported + n = Cardinality(saved[s])
                   /\ status.failed + 0 <= Cardinality(dropped[s])
                   /\ status.st # "finished"
    BY <1>0, <1>6 DEF Told, Tx
  <2>2. status.imported \in Nat
    BY <1>1 DEF StatusType
  <2> QED
    BY <1>7, <2>1, <2>2
<1>9. faults' = faults
  BY <1>0
<1>10. LeavesNothing(s, w, queue[s], dropped[s])
  BY <1>2, <1>5, <1>9 DEF LeavesNothing
<1>11. StillTold(s, w, saved[s], dropped[s])
  BY <1>5, <1>7, <1>8 DEF StillTold
<1>12. /\ writer[s].pc \notin {"none", "end"}
       /\ faults' \in Nat /\ faults' >= faults /\ stops + faults' <= MaxEvents
  BY <1>0, <1>9, NoFault
<1> QED
  BY <1>1, <1>2, <1>3, <1>4, <1>7, <1>10, <1>11, <1>12, WriterStep

-----------------------------------------------------------------------------
(* Every step, and every state.                                            *)
LEMMA NextKeeps ==
  ASSUME IInv, [Next]_vars
  PROVE  IInv'
<1>1. CASE UNCHANGED vars
  <2>1. /\ \A t \in Sessions : SameSession(t)
        /\ faults' = faults /\ alone' = alone /\ status' = status
    BY <1>1 DEF vars, SameSession
  <2>2. Types'
    BY <1>1 DEF vars, IInv, Types
  <2>3. status' = [status EXCEPT !.st = status.st]
    BY <2>1 DEF IInv, Types, StatusType
  <2> QED
    BY <2>1, <2>2, <2>3, QuietStep
<1>2. ASSUME NEW s \in Sessions, Start(s) PROVE IInv'
  BY <1>2, ReceiveKeeps, InsertKeeps, InsertFailsKeeps, CommitRolledBackKeeps, DrainedKeeps,
     CommitKeeps, CountKeeps, FinishKeeps DEF Start
<1>3. ASSUME NEW s \in Sessions, CheckDone(s) \/ NewSession(s) \/ LoadCSV(s) PROVE IInv'
  BY <1>3, CheckDoneKeeps, NewSessionKeeps, LoadCSVKeeps
<1>4. CASE StopAsks \/ Stop
  BY <1>4, StopKeeps
<1> QED
  BY <1>1, <1>2, <1>3, <1>4 DEF Next

(* The inductive invariant holds in every reachable state.                 *)
THEOREM Invariant == Spec => []IInv
BY InitHolds, NextKeeps, PTL DEF Spec

-----------------------------------------------------------------------------
(* The properties follow.                                                  *)

(* The four places that TypeOK tells apart.                                *)
LEMMA FourPlaces ==
  ASSUME IInv, NEW s \in Sessions,
         NEW places, places = <<Range(reader[s].window), Range(queue[s]),
                                saved[s] \cup writer[s].tx, dropped[s]>>
  PROVE  /\ \A p, q \in DOMAIN places :
              p # q /\ writer[s].pc # "rolled back" => places[p] \cap places[q] = {}
         /\ \A p \in DOMAIN places : places[p] \subseteq 1..(reader[s].next - 1) \ Bad
<1>1. PICK W, Q, R, T, S, D : /\ W = Window(s) /\ Q = Waiting(s) /\ R = Row(s) /\ T = Tx(s)
                             /\ S = saved[s] /\ D = dropped[s]
  OBVIOUS
<1>2. /\ W \cup Q \cup R \cup T \cup S \cup D = Good(s)
      /\ W \cap (Q \cup R \cup T \cup S \cup D) = {}
      /\ Q \cap (R \cup T \cup S \cup D) = {}
      /\ S \cap D = {}
      /\ writer[s].pc # "rolled back" => T \cap D = {}
  BY <1>1 DEF IInv, SessionInv, Placed
<1>3. /\ DOMAIN places = 1..4
      /\ places[1] = W /\ places[2] = Q /\ places[3] = S \cup T /\ places[4] = D
  BY <1>1 DEF Window, Waiting, Tx
<1>4. \A p \in 1..4 : p = 1 \/ p = 2 \/ p = 3 \/ p = 4
  OBVIOUS
<1>5. \A p \in DOMAIN places : places[p] \subseteq Good(s)
  <2>1. W \subseteq Good(s) /\ Q \subseteq Good(s) /\ S \cup T \subseteq Good(s) /\ D \subseteq Good(s)
    BY <1>2
  <2> QED
    BY <1>3, <1>4, <2>1
<1>6. ASSUME writer[s].pc # "rolled back", NEW p \in DOMAIN places, NEW q \in DOMAIN places, p # q
      PROVE  places[p] \cap places[q] = {}
  <2>1. /\ W \cap Q = {} /\ W \cap (S \cup T) = {} /\ W \cap D = {}
        /\ Q \cap (S \cup T) = {} /\ Q \cap D = {} /\ (S \cup T) \cap D = {}
    BY <1>2, <1>6
  <2>2. /\ Q \cap W = {} /\ (S \cup T) \cap W = {} /\ D \cap W = {}
        /\ (S \cup T) \cap Q = {} /\ D \cap Q = {} /\ D \cap (S \cup T) = {}
    BY <2>1
  <2>3. /\ \A i \in {2, 3, 4} : places[1] \cap places[i] = {}
        /\ \A i \in {1, 3, 4} : places[2] \cap places[i] = {}
    BY <1>3, <2>1, <2>2
  <2>4. /\ \A i \in {1, 2, 4} : places[3] \cap places[i] = {}
        /\ \A i \in {1, 2, 3} : places[4] \cap places[i] = {}
    BY <1>3, <2>1, <2>2
  <2>5. p \in {1, 2, 3, 4} /\ q \in {1, 2, 3, 4}
    BY <1>3, <1>4
  <2>6. CASE p = 1
    BY <1>6, <2>3, <2>5, <2>6
  <2>7. CASE p = 2
    BY <1>6, <2>3, <2>5, <2>7
  <2>8. CASE p = 3
    BY <1>6, <2>4, <2>5, <2>8
  <2>9. CASE p = 4
    BY <1>6, <2>4, <2>5, <2>9
  <2> QED
    BY <2>5, <2>6, <2>7, <2>8, <2>9
<1> QED
  BY <1>5, <1>6 DEF Good

(* The window and the queue stay within a batch, and a row is in one place *)
(* only, whatever order it went there in.                                  *)
THEOREM TypesHold == Spec => []TypeOK
<1>1. ASSUME IInv PROVE TypeOK
  <2>1. /\ status \in StatusType /\ stop \in Sessions \cup {NoSession}
        /\ caller \in [Sessions -> {"idle", "checked", "made"}]
        /\ stopper \in [pc : {"idle", "clear", "signal", "mark"}, seen : Sessions \cup {NoSession}]
        /\ stops \in Nat /\ faults \in Nat /\ stops + faults <= MaxEvents
        /\ closed \in [Sessions -> BOOLEAN]
        /\ torn \in BOOLEAN /\ late \in BOOLEAN /\ alone \in BOOLEAN
    BY <1>1 DEF IInv, Types
  <2>2. ASSUME NEW s \in Sessions
        PROVE  Len(reader[s].window) <= BatchSize /\ Len(queue[s]) <= BatchSize
    BY <1>1 DEF IInv, SessionInv, Room
  <2>3. ASSUME NEW s \in Sessions
        PROVE  LET places == <<Range(reader[s].window), Range(queue[s]), saved[s] \cup writer[s].tx, dropped[s]>> IN
               /\ \A p, q \in DOMAIN places :
                    p # q /\ writer[s].pc # "rolled back" => places[p] \cap places[q] = {}
               /\ \A p \in DOMAIN places : places[p] \subseteq 1..(reader[s].next - 1) \ Bad
    BY <1>1, FourPlaces
  <2> QED
    BY <2>1, <2>2, <2>3 DEF TypeOK, StatusType
<1> QED
  BY <1>1, Invariant, PTL

(* The counters of the status are the rows of the database, but for the    *)
(* batch that is being counted.                                            *)
THEOREM CountsHold == Spec => []CountsMatch
<1>1. ASSUME IInv PROVE CountsMatch
  BY <1>1 DEF IInv, SessionInv, Counted, Told, Tx, CountsMatch
<1> QED
  BY <1>1, Invariant, PTL

(* A session that has finished with no failing call has its rows in the    *)
(* table: the queue is closed and empty, and nothing was lost.             *)
LEMMA FinishedHasAll ==
  ASSUME IInv, NEW s \in Sessions, alone, status.by = s, status.st = "finished", faults = 0
  PROVE  saved[s] = 1..(reader[s].next - 1) \ Bad
<1>1. Placed(s) /\ Emptied(s) /\ Told(s)
  BY DEF IInv, SessionInv, Counted
<1>2. writer[s].pc = "end"
  BY <1>1 DEF Told
<1>3. /\ closed[s] /\ queue[s] = <<>> /\ reader[s].window = <<>>
      /\ Tx(s) = {} /\ dropped[s] = {}
  BY <1>1, <1>2 DEF Emptied
<1>4. Window(s) = {} /\ Waiting(s) = {} /\ Row(s) = {}
  BY <1>2, <1>3 DEF Window, Waiting, Row, Range
<1> QED
  BY <1>1, <1>3, <1>4 DEF Placed, Good

(* An import that ends as finished with no call of the database failing    *)
(* has saved each good row that was read, and told of each row.            *)
THEOREM FinishedIsComplete == Spec => []FinishedSavesWhatWasRead
<1>1. ASSUME IInv, NEW s \in Sessions, alone, status.by = s, status.st = "finished", faults = 0
      PROVE  /\ saved[s] = 1..(reader[s].next - 1) \ Bad
             /\ status.imported + status.skipped = reader[s].next - 1
  <2>1. saved[s] = 1..(reader[s].next - 1) \ Bad
    BY <1>1, FinishedHasAll
  <2>2. Told(s) /\ reader[s].next \in Nat \ {0} /\ status.imported \in Nat
    BY <1>1 DEF IInv, SessionInv, Counted, Types, ReaderType, StatusType
  <2>3. writer[s].pc = "end"
    BY <1>1, <2>2 DEF Told
  <2>4. /\ status.imported + 0 = Cardinality(saved[s])
        /\ status.skipped = Cardinality((1..(reader[s].next - 1)) \cap Bad)
    BY <2>2, <2>3 DEF Told
  <2>5. /\ Cardinality(saved[s]) \in Nat
        /\ Cardinality(saved[s]) + Cardinality((1..(reader[s].next - 1)) \cap Bad) = reader[s].next - 1
    BY <2>1, <2>2, GoodAndBad
  <2>6. status.imported = Cardinality(saved[s])
    BY <2>2, <2>4, <2>5, PlusNothing
  <2> QED
    BY <2>1, <2>4, <2>5, <2>6
<1>2. ASSUME IInv PROVE FinishedSavesWhatWasRead
  BY <1>1, <1>2 DEF FinishedSavesWhatWasRead
<1> QED
  BY <1>2, Invariant, PTL
================================================================================
