--------------------------- MODULE MCStores_proofs ---------------------------
(***************************************************************************)
(* Proofs about the parts of MCStores, for any processes, workers, plans,  *)
(* stores, paths, vectors, letters, files and ids, and any number of       *)
(* starts and calls: the migrations of the database, the object store, the *)
(* memory adapters and the map that they implement, the memory layer, the  *)
(* passes of the two sources, the expiry filter, the rules for scopes and  *)
(* manifests, the search and the choice of a model.                        *)
(***************************************************************************)
EXTENDS MCStores, SequenceTheorems, FiniteSetTheorems, WellFoundedInduction, TLAPS

-----------------------------------------------------------------------------
(***************************************************************************)
(* The inductive invariant.  The rows of a store say exactly what its      *)
(* tables have had; the transaction under way belongs to the process that  *)
(* stands in it and is about the migration after the version it read; and  *)
(* what a process has read of a store is still there, since rows are only  *)
(* added.  Once the process has found that its row is not there yet, the   *)
(* version it read is therefore the last one.                              *)
(***************************************************************************)
MigrationStep == {"down", "read", "next", "record", "commit", "count", "seed", "open"}
Transaction == [by : Process, store : M!Store, version : Nat]

TablesTyped ==
  /\ applied \in [M!Store -> Seq(Nat)]
  /\ recorded \in [M!Store -> SUBSET Nat]
  /\ tx \in Transaction \union {None}
  /\ proc \in [Process -> [at : MigrationStep, todo : Seq(M!Store), version : Nat]]

InOrder(s) ==
  /\ recorded[s] = 1 .. Len(applied[s])
  /\ \A i \in DOMAIN applied[s] : applied[s][i] = i
  /\ Len(applied[s]) <= Versions[s]

InTransaction(p) ==
  /\ tx \in Transaction
  /\ tx.by = p /\ tx.store = M!Opening(p) /\ tx.version = proc[p].version + 1
  /\ proc[p].version < Versions[M!Opening(p)]

ProcessLocated(p) ==
  /\ proc[p].at # "down" => proc[p].todo # <<>>
  /\ proc[p].at \in {"next", "record", "commit"} => proc[p].version <= Len(applied[M!Opening(p)])
  /\ proc[p].at \in {"record", "commit"} => InTransaction(p)
  /\ proc[p].at = "commit" => tx.version \notin recorded[tx.store]
  /\ proc[p].at \in {"count", "seed", "open"} => Len(applied[M!Opening(p)]) = Versions[M!Opening(p)]

MigrationInv ==
  /\ TablesTyped
  /\ \A s \in M!Store : InOrder(s)
  /\ \A p \in Process : ProcessLocated(p)

-----------------------------------------------------------------------------
(* Steps.                                                                  *)

LEMMA OpeningIsStore ==
  ASSUME TablesTyped, NEW p \in Process, proc[p].todo # <<>>
  PROVE  /\ M!Opening(p) \in M!Store /\ Tail(proc[p].todo) \in Seq(M!Store)
         /\ Len(proc[p].todo) # 1 => Tail(proc[p].todo) # <<>>
<1> DEFINE todo == proc[p].todo
<1>1. todo \in Seq(M!Store)
  BY DEF TablesTyped
<1>2. Head(todo) \in M!Store /\ Tail(todo) \in Seq(M!Store) /\ Len(Tail(todo)) = Len(todo) - 1
  BY <1>1, HeadTailProperties
<1>3. Len(todo) \in Nat /\ Len(<<>>) = 0
  BY <1>1
<1> DEFINE n == Len(todo)
           m == Len(Tail(todo))
<1>4. n \in Nat /\ m = n - 1 /\ (Tail(todo) = <<>> => m = 0)
  BY <1>2, <1>3
<1> HIDE DEF n, m
<1>5. Tail(todo) = <<>> => n = 1
  BY <1>4
<1> QED
  BY <1>2, <1>5 DEF M!Opening, n

(* Where a step leaves the process that takes it. *)
LEMMA ProcessMoves ==
  ASSUME TablesTyped, NEW p \in Process, NEW to \in MigrationStep, M!Goes(p, to)
  PROVE  /\ proc' \in [Process -> [at : MigrationStep, todo : Seq(M!Store), version : Nat]]
         /\ proc'[p].at = to /\ proc'[p].todo = proc[p].todo /\ proc'[p].version = proc[p].version
         /\ M!Opening(p)' = M!Opening(p)
         /\ \A q \in Process \ {p} : proc'[q] = proc[q]
<1>1. proc[p] \in [at : MigrationStep, todo : Seq(M!Store), version : Nat]
  BY DEF TablesTyped
<1>2. proc' = [proc EXCEPT ![p] = [proc[p] EXCEPT !.at = to]]
  BY DEF M!Goes
<1>3. [proc[p] EXCEPT !.at = to] \in [at : MigrationStep, todo : Seq(M!Store), version : Nat]
  BY <1>1
<1>4. proc'[p] = [proc[p] EXCEPT !.at = to] /\ \A q \in Process \ {p} : proc'[q] = proc[q]
  BY <1>2 DEF TablesTyped
<1>5. proc' \in [Process -> [at : MigrationStep, todo : Seq(M!Store), version : Nat]]
  BY <1>2, <1>3 DEF TablesTyped
<1> QED
  BY <1>1, <1>4, <1>5 DEF M!Opening

(* The same where it takes a new version in hand too.                      *)
LEMMA ProcessMovesOn ==
  ASSUME TablesTyped, NEW p \in Process, NEW to \in MigrationStep, NEW n \in Nat,
         proc' = [proc EXCEPT ![p].at = to, ![p].version = n]
  PROVE  /\ proc' \in [Process -> [at : MigrationStep, todo : Seq(M!Store), version : Nat]]
         /\ proc'[p].at = to /\ proc'[p].todo = proc[p].todo /\ proc'[p].version = n
         /\ M!Opening(p)' = M!Opening(p)
         /\ \A q \in Process \ {p} : proc'[q] = proc[q]
<1> DEFINE next == [proc[p] EXCEPT !.at = to]
           moved == [next EXCEPT !.version = n]
<1>1. next \in [at : MigrationStep, todo : Seq(M!Store), version : Nat]
      /\ next.at = to /\ next.todo = proc[p].todo
  BY DEF TablesTyped
<1>2. moved \in [at : MigrationStep, todo : Seq(M!Store), version : Nat]
      /\ moved.at = to /\ moved.todo = proc[p].todo /\ moved.version = n
  <2> HIDE DEF next
  <2> QED
    BY <1>1
<1>3. proc' = [proc EXCEPT ![p] = moved]
  BY DEF TablesTyped
<1> HIDE DEF moved
<1>4. /\ proc' \in [Process -> [at : MigrationStep, todo : Seq(M!Store), version : Nat]]
      /\ proc'[p] = moved
      /\ \A q \in Process \ {p} : proc'[q] = proc[q]
  BY <1>2, <1>3 DEF TablesTyped
<1> QED
  BY <1>2, <1>4 DEF M!Opening

(* A process that does not move stays located, while rows are only added   *)
(* and the transaction it holds is left alone.                             *)
LEMMA ProcessStays ==
  ASSUME M!MigrationParameters, TablesTyped, TablesTyped', NEW q \in Process, ProcessLocated(q), proc'[q] = proc[q],
         \A s \in M!Store : InOrder(s)',
         \A s \in M!Store : Len(applied[s]) <= Len(applied'[s]),
         InTransaction(q) => tx' = tx /\ recorded' = recorded
  PROVE  ProcessLocated(q)'
<1>1. M!Opening(q)' = M!Opening(q)
  BY DEF M!Opening
<1>2. CASE proc[q].at = "down"
  BY <1>2 DEF ProcessLocated
<1>3. CASE proc[q].at # "down"
  <2>1. M!Opening(q) \in M!Store
    BY <1>3, OpeningIsStore DEF ProcessLocated
  <2>2. /\ Versions[M!Opening(q)] \in Nat /\ proc[q].version \in Nat
        /\ Len(applied[M!Opening(q)]) \in Nat /\ Len(applied'[M!Opening(q)]) \in Nat
        /\ Len(applied'[M!Opening(q)]) <= Versions[M!Opening(q)]
        /\ Len(applied[M!Opening(q)]) <= Len(applied'[M!Opening(q)])
    BY <2>1 DEF TablesTyped, M!MigrationParameters, M!Store, InOrder
  <2>3. InTransaction(q) => InTransaction(q)'
    BY <1>1 DEF InTransaction
  <2> QED
    BY <1>1, <1>3, <2>2, <2>3 DEF ProcessLocated
<1> QED
  BY <1>2, <1>3

(* A step that leaves tables and transaction alone.                        *)
LEMMA TablesStay ==
  ASSUME M!MigrationParameters, MigrationInv, NEW p \in Process, UNCHANGED <<applied, recorded, tx>>,
         proc' \in [Process -> [at : MigrationStep, todo : Seq(M!Store), version : Nat]],
         \A q \in Process \ {p} : proc'[q] = proc[q], ProcessLocated(p)'
  PROVE  MigrationInv'
<1>1. TablesTyped' /\ \A s \in M!Store : InOrder(s)' /\ Len(applied[s]) <= Len(applied'[s])
  BY DEF MigrationInv, TablesTyped, InOrder
<1>2. ASSUME NEW q \in Process \ {p} PROVE ProcessLocated(q)'
  BY <1>1, <1>2, ProcessStays DEF MigrationInv
<1> QED
  BY <1>1, <1>2 DEF MigrationInv

LEMMA OpenDatabaseKeeps ==
  ASSUME M!MigrationParameters, MigrationInv, NEW p \in Process, M!OpenDatabase(p)
  PROVE  MigrationInv'
<1>1. PICK plan \in Plan : proc' = [proc EXCEPT ![p] = [at |-> "read", todo |-> plan, version |-> 0]]
  BY DEF M!OpenDatabase
<1>2. plan \in Seq(M!Store) /\ plan # <<>>
  BY DEF M!MigrationParameters, M!Store
<1>3. /\ proc' \in [Process -> [at : MigrationStep, todo : Seq(M!Store), version : Nat]]
      /\ proc'[p] = [at |-> "read", todo |-> plan, version |-> 0]
      /\ \A q \in Process \ {p} : proc'[q] = proc[q]
  BY <1>1, <1>2 DEF MigrationInv, TablesTyped, MigrationStep
<1>4. ProcessLocated(p)'
  BY <1>2, <1>3 DEF ProcessLocated
<1> QED
  BY <1>3, <1>4, TablesStay DEF M!OpenDatabase

(* The version that is read is that of the newest row, and the rows run    *)
(* from the first migration to the last that was applied.                  *)
LEMMA ReadVersionKeeps ==
  ASSUME M!MigrationParameters, MigrationInv, NEW p \in Process, M!ReadVersion(p)
  PROVE  MigrationInv'
<1> DEFINE s == M!Opening(p)
           newest == M!Newest(recorded[s])
<1>1. s \in M!Store /\ proc[p] \in [at : MigrationStep, todo : Seq(M!Store), version : Nat] /\ proc[p].todo # <<>>
  BY OpeningIsStore DEF M!ReadVersion, MigrationInv, TablesTyped, ProcessLocated
<1>2. Len(applied[s]) \in Nat /\ recorded[s] = 1 .. Len(applied[s])
  BY <1>1 DEF MigrationInv, TablesTyped, InOrder
<1>3. newest \in Nat /\ newest <= Len(applied[s])
  <2>1. CASE Len(applied[s]) = 0
    BY <1>2, <2>1 DEF M!Newest
  <2>2. CASE Len(applied[s]) > 0
    <3>1. Len(applied[s]) \in recorded[s] /\ \A w \in recorded[s] : w <= Len(applied[s])
      BY <1>2, <2>2
    <3>2. newest \in recorded[s]
      BY <3>1 DEF M!Newest
    <3> QED
      BY <1>2, <3>2
  <2> QED
    BY <1>2, <2>1, <2>2
<1> HIDE DEF newest
<1>4. proc' = [proc EXCEPT ![p].at = "next", ![p].version = newest]
  BY DEF M!ReadVersion, newest
<1>5. /\ proc' \in [Process -> [at : MigrationStep, todo : Seq(M!Store), version : Nat]]
      /\ proc'[p].at = "next" /\ proc'[p].todo = proc[p].todo /\ proc'[p].version = newest
      /\ M!Opening(p)' = s
      /\ \A q \in Process \ {p} : proc'[q] = proc[q]
  BY <1>3, <1>4, ProcessMovesOn DEF MigrationInv, MigrationStep
<1>6. UNCHANGED <<applied, recorded, tx>>
  BY DEF M!ReadVersion
<1>7. ProcessLocated(p)'
  BY <1>1, <1>3, <1>5, <1>6 DEF ProcessLocated
<1> QED
  BY <1>5, <1>6, <1>7, TablesStay

LEMMA ApplyKeeps ==
  ASSUME M!MigrationParameters, MigrationInv, NEW p \in Process, M!Apply(p)
  PROVE  MigrationInv'
<1>1. M!Opening(p) \in M!Store /\ proc[p].version \in Nat /\ proc[p].todo # <<>>
  BY OpeningIsStore DEF M!Apply, MigrationInv, TablesTyped, ProcessLocated
<1>2. /\ proc' \in [Process -> [at : MigrationStep, todo : Seq(M!Store), version : Nat]]
      /\ proc'[p].at = "record" /\ proc'[p].todo = proc[p].todo /\ proc'[p].version = proc[p].version
      /\ M!Opening(p)' = M!Opening(p)
      /\ \A q \in Process \ {p} : proc'[q] = proc[q]
  BY ProcessMoves DEF M!Apply, MigrationInv, MigrationStep
<1>3. UNCHANGED <<applied, recorded>> /\ tx' = [by |-> p, store |-> M!Opening(p), version |-> proc[p].version + 1]
  BY DEF M!Apply
<1>4. tx' \in Transaction /\ TablesTyped' /\ \A s \in M!Store : InOrder(s)'
  BY <1>1, <1>2, <1>3 DEF MigrationInv, TablesTyped, InOrder, Transaction
<1>5. \A s \in M!Store : Len(applied[s]) <= Len(applied'[s])
  BY <1>3 DEF MigrationInv, TablesTyped
<1>6. ProcessLocated(p)'
  <2>1. InTransaction(p)'
    BY <1>2, <1>3, <1>4 DEF InTransaction, M!Apply
  <2> QED
    BY <1>1, <1>2, <1>3, <2>1 DEF ProcessLocated, MigrationInv, M!Apply
<1>7. ASSUME NEW q \in Process \ {p} PROVE ProcessLocated(q)'
  <2>1. ~ InTransaction(q)
    BY DEF InTransaction, M!Apply, M!MigrationParameters, Transaction, M!Store
  <2> QED
    BY <1>2, <1>4, <1>5, <1>7, <2>1, ProcessStays DEF MigrationInv
<1> QED
  BY <1>4, <1>6, <1>7 DEF MigrationInv

(* A process that stops drops its transaction and no other's.              *)
LEMMA ProcessStops ==
  ASSUME M!MigrationParameters, MigrationInv, NEW p \in Process, proc' = [proc EXCEPT ![p] = M!Down],
         UNCHANGED <<applied, recorded>>, tx' \in {tx, None},
         \A q \in Process \ {p} : InTransaction(q) => tx' = tx
  PROVE  MigrationInv'
<1>1. /\ proc' \in [Process -> [at : MigrationStep, todo : Seq(M!Store), version : Nat]]
      /\ proc'[p] = M!Down
      /\ \A q \in Process \ {p} : proc'[q] = proc[q]
  <2>1. M!Down \in [at : MigrationStep, todo : Seq(M!Store), version : Nat]
    BY DEF M!Down, MigrationStep
  <2> QED
    BY <2>1 DEF MigrationInv, TablesTyped
<1>2. TablesTyped' /\ \A s \in M!Store : InOrder(s)' /\ Len(applied[s]) <= Len(applied'[s])
  BY <1>1 DEF MigrationInv, TablesTyped, InOrder
<1>3. ProcessLocated(p)'
  BY <1>1 DEF ProcessLocated, M!Down
<1>4. ASSUME NEW q \in Process \ {p} PROVE ProcessLocated(q)'
  BY <1>1, <1>2, <1>4, ProcessStays DEF MigrationInv
<1> QED
  BY <1>2, <1>3, <1>4 DEF MigrationInv

LEMMA RecordKeeps ==
  ASSUME M!MigrationParameters, MigrationInv, NEW p \in Process, M!Record(p)
  PROVE  MigrationInv'
<1>1. InTransaction(p) /\ \A q \in Process \ {p} : ~ InTransaction(q)
  BY DEF M!Record, MigrationInv, ProcessLocated, InTransaction
<1>2. CASE tx.version \in recorded[tx.store]
  BY <1>1, <1>2, ProcessStops DEF M!Record
<1>3. CASE tx.version \notin recorded[tx.store]
  <2>1. M!Goes(p, "commit") /\ UNCHANGED <<applied, recorded, tx>>
    BY <1>3 DEF M!Record
  <2>2. /\ proc' \in [Process -> [at : MigrationStep, todo : Seq(M!Store), version : Nat]]
        /\ proc'[p].at = "commit" /\ proc'[p].todo = proc[p].todo /\ proc'[p].version = proc[p].version
        /\ M!Opening(p)' = M!Opening(p)
        /\ \A q \in Process \ {p} : proc'[q] = proc[q]
    BY <2>1, ProcessMoves DEF MigrationInv, MigrationStep
  <2>3. InTransaction(p)'
    BY <1>1, <2>1, <2>2 DEF InTransaction
  <2>4. ProcessLocated(p)'
    BY <1>3, <2>1, <2>2, <2>3 DEF ProcessLocated, MigrationInv, M!Record
  <2> QED
    BY <2>1, <2>2, <2>4, TablesStay
<1> QED
  BY <1>2, <1>3

LEMMA StopKeeps ==
  ASSUME M!MigrationParameters, MigrationInv, NEW p \in Process, M!Stop(p)
  PROVE  MigrationInv'
<1>1. \A q \in Process \ {p} : InTransaction(q) => tx.by # p
  BY DEF InTransaction
<1> QED
  BY <1>1, ProcessStops DEF M!Stop

(* The migration that is committed is the one after the last.              *)
LEMMA CommitKeeps ==
  ASSUME M!MigrationParameters, MigrationInv, NEW p \in Process, M!Commit(p)
  PROVE  MigrationInv'
<1> DEFINE s == M!Opening(p)
           n == Len(applied[s])
<1>1. s \in M!Store /\ proc[p].version \in Nat /\ proc[p].todo # <<>>
  BY OpeningIsStore DEF M!Commit, MigrationInv, TablesTyped, ProcessLocated
<1>2. InTransaction(p) /\ tx.version \notin recorded[s] /\ proc[p].version <= n
  BY DEF M!Commit, MigrationInv, ProcessLocated, InTransaction
<1>3. n \in Nat /\ Versions[s] \in Nat /\ recorded[s] = 1 .. n /\ applied[s] \in Seq(Nat)
  BY <1>1 DEF MigrationInv, TablesTyped, InOrder, M!MigrationParameters, M!Store
<1>4. tx.version = n + 1 /\ n + 1 <= Versions[s] /\ proc[p].version = n
  <2>1. tx.version = proc[p].version + 1 /\ proc[p].version < Versions[s] /\ tx.version \notin 1 .. n
    BY <1>2, <1>3 DEF InTransaction
  <2> DEFINE v == proc[p].version
  <2>2. v \in Nat /\ n \in Nat /\ v <= n /\ v + 1 \notin 1 .. n /\ v < Versions[s] /\ Versions[s] \in Nat
    BY <1>1, <1>2, <1>3, <2>1
  <2> HIDE DEF n, v
  <2>3. v = n
    BY <2>2
  <2> QED
    BY <2>1, <2>2, <2>3 DEF v
<1>5. /\ applied' = [applied EXCEPT ![s] = Append(applied[s], n + 1)]
      /\ recorded' = [recorded EXCEPT ![s] = recorded[s] \union {n + 1}]
      /\ tx' = None
  BY <1>2, <1>4 DEF M!Commit, InTransaction
<1>6. proc' = [proc EXCEPT ![p].at = "next", ![p].version = n + 1]
  <2>1. proc' = [proc EXCEPT ![p].at = "next", ![p].version = proc[p].version + 1]
    BY DEF M!Commit, MigrationInv, TablesTyped
  <2> QED
    BY <1>4, <2>1
<1>7. /\ proc' \in [Process -> [at : MigrationStep, todo : Seq(M!Store), version : Nat]]
      /\ proc'[p].at = "next" /\ proc'[p].todo = proc[p].todo /\ proc'[p].version = n + 1
      /\ M!Opening(p)' = s
      /\ \A q \in Process \ {p} : proc'[q] = proc[q]
  <2>1. n + 1 \in Nat /\ "next" \in MigrationStep
    BY <1>3 DEF MigrationStep
  <2> HIDE DEF n
  <2> QED
    BY <1>6, <2>1, ProcessMovesOn DEF MigrationInv
<1>8. /\ applied'[s] = Append(applied[s], n + 1) /\ Len(applied'[s]) = n + 1
      /\ recorded'[s] = 1 .. n + 1
      /\ \A t \in M!Store \ {s} : applied'[t] = applied[t] /\ recorded'[t] = recorded[t]
  BY <1>1, <1>3, <1>5 DEF MigrationInv, TablesTyped
<1>9. TablesTyped'
  <2>1. applied' \in [M!Store -> Seq(Nat)]
    BY <1>1, <1>3, <1>5 DEF MigrationInv, TablesTyped
  <2>2. recorded' \in [M!Store -> SUBSET Nat]
    BY <1>1, <1>3, <1>5 DEF MigrationInv, TablesTyped
  <2> QED
    BY <1>5, <1>7, <2>1, <2>2 DEF TablesTyped
<1>10. ASSUME NEW t \in M!Store PROVE InOrder(t)'
  <2>1. CASE t = s
    <3>1. \A i \in DOMAIN applied'[s] : applied'[s][i] = i
      <4>1. \A i \in 1 .. n : applied[s][i] = i
        BY <1>1, <1>3 DEF MigrationInv, InOrder
      <4>2. \A i \in 1 .. n + 1 : applied'[s][i] = IF i = n + 1 THEN n + 1 ELSE applied[s][i]
        BY <1>3, <1>8
      <4>3. DOMAIN applied'[s] = 1 .. n + 1
        BY <1>3, <1>8
      <4> QED
        BY <1>3, <4>1, <4>2, <4>3
    <3> QED
      BY <1>4, <1>8, <2>1, <3>1 DEF InOrder
  <2>2. CASE t # s
    BY <1>8, <2>2 DEF MigrationInv, InOrder
  <2> QED
    BY <2>1, <2>2
<1>11. \A t \in M!Store : Len(applied[t]) <= Len(applied'[t])
  <2>1. \A t \in M!Store : Len(applied[t]) \in Nat
    BY DEF MigrationInv, TablesTyped
  <2> QED
    BY <1>3, <1>8, <2>1
<1>12. ProcessLocated(p)'
  BY <1>1, <1>7, <1>8, <1>3 DEF ProcessLocated
<1>13. ASSUME NEW q \in Process \ {p} PROVE ProcessLocated(q)'
  <2>1. ~ InTransaction(q)
    BY <1>2 DEF InTransaction
  <2> QED
    BY <1>7, <1>9, <1>10, <1>11, <2>1, ProcessStays DEF MigrationInv
<1> QED
  BY <1>9, <1>10, <1>12, <1>13 DEF MigrationInv

-----------------------------------------------------------------------------
(* A store is open when its tables are of the last version.                *)
LEMMA OpenedKeeps ==
  ASSUME M!MigrationParameters, MigrationInv, NEW p \in Process, proc[p].todo # <<>>, M!Opened(p),
         Len(applied[M!Opening(p)]) = Versions[M!Opening(p)], UNCHANGED <<applied, recorded, tx>>
  PROVE  MigrationInv'
<1> DEFINE todo == proc[p].todo
           open == [proc[p] EXCEPT !.at = "open"]
           read == [at |-> "read", todo |-> Tail(todo), version |-> 0]
<1>1. Tail(todo) \in Seq(M!Store) /\ (Len(todo) # 1 => Tail(todo) # <<>>)
  BY OpeningIsStore DEF MigrationInv
<1>2. open \in [at : MigrationStep, todo : Seq(M!Store), version : Nat] /\ open.at = "open" /\ open.todo = todo
  BY DEF MigrationInv, TablesTyped, MigrationStep
<1>3. read \in [at : MigrationStep, todo : Seq(M!Store), version : Nat]
  BY <1>1 DEF MigrationStep
<1>4. proc' = [proc EXCEPT ![p] = IF Len(todo) = 1 THEN open ELSE read]
  BY DEF M!Opened, MigrationInv, TablesTyped
<1> HIDE DEF open, todo
<1>5. /\ proc' \in [Process -> [at : MigrationStep, todo : Seq(M!Store), version : Nat]]
      /\ proc'[p] = IF Len(todo) = 1 THEN open ELSE read
      /\ \A q \in Process \ {p} : proc'[q] = proc[q]
  BY <1>2, <1>3, <1>4 DEF MigrationInv, TablesTyped
<1>6. CASE Len(todo) = 1
  <2>1. M!Opening(p)' = M!Opening(p) /\ proc'[p].at = "open" /\ proc'[p].todo = proc[p].todo
    BY <1>2, <1>5, <1>6 DEF M!Opening, todo
  <2>2. ProcessLocated(p)'
    BY <2>1 DEF ProcessLocated
  <2> QED
    BY <1>5, <2>2, TablesStay
<1>7. CASE Len(todo) # 1
  <2>1. proc'[p].at = "read" /\ proc'[p].todo # <<>>
    BY <1>1, <1>5, <1>7
  <2>2. ProcessLocated(p)'
    BY <2>1 DEF ProcessLocated
  <2> QED
    BY <1>5, <2>2, TablesStay
<1> QED
  BY <1>6, <1>7

LEMMA MigratedKeeps ==
  ASSUME M!MigrationParameters, MigrationInv, NEW p \in Process, M!Migrated(p)
  PROVE  MigrationInv'
<1> DEFINE s == M!Opening(p)
<1>1. s \in M!Store /\ proc[p].version \in Nat /\ proc[p].todo # <<>>
  BY OpeningIsStore DEF M!Migrated, MigrationInv, TablesTyped, ProcessLocated
<1>2. Len(applied[s]) = Versions[s]
  <2>1. Len(applied[s]) \in Nat /\ Versions[s] \in Nat /\ Len(applied[s]) <= Versions[s]
    BY <1>1 DEF MigrationInv, TablesTyped, InOrder, M!MigrationParameters, M!Store
  <2>2. proc[p].version <= Len(applied[s]) /\ proc[p].version >= Versions[s]
    BY DEF M!Migrated, MigrationInv, ProcessLocated
  <2> QED
    BY <1>1, <2>1, <2>2
<1>3. UNCHANGED <<applied, recorded, tx>>
  BY DEF M!Migrated
<1>4. CASE s = "permission"
  <2>1. /\ proc' \in [Process -> [at : MigrationStep, todo : Seq(M!Store), version : Nat]]
        /\ proc'[p].at = "count" /\ proc'[p].todo = proc[p].todo /\ M!Opening(p)' = s
        /\ \A q \in Process \ {p} : proc'[q] = proc[q]
    BY <1>4, ProcessMoves DEF M!Migrated, MigrationInv, MigrationStep
  <2>2. ProcessLocated(p)'
    BY <1>1, <1>2, <1>3, <2>1 DEF ProcessLocated
  <2> QED
    BY <1>3, <2>1, <2>2, TablesStay
<1>5. CASE s # "permission"
  BY <1>1, <1>2, <1>3, <1>5, OpenedKeeps DEF M!Migrated
<1> QED
  BY <1>4, <1>5

(* Seeding leaves the tables of the migrations alone.                      *)
LEMMA SeedingKeeps ==
  ASSUME M!MigrationParameters, MigrationInv, NEW p \in Process, M!CountCapabilities(p) \/ M!SeedCapability(p)
  PROVE  MigrationInv'
<1>1. /\ proc[p].at \in {"count", "seed"} /\ proc[p].todo # <<>> /\ proc[p].version \in Nat
      /\ Len(applied[M!Opening(p)]) = Versions[M!Opening(p)]
      /\ UNCHANGED <<applied, recorded, tx>>
  BY DEF M!CountCapabilities, M!SeedCapability, MigrationInv, TablesTyped, ProcessLocated
<1>2. CASE M!Opened(p)
  BY <1>1, <1>2, OpenedKeeps
<1>3. CASE proc' = [proc EXCEPT ![p] = M!Down]
  BY <1>1, <1>3, ProcessStops
<1>4. ASSUME NEW n \in Nat, proc' = [proc EXCEPT ![p].at = "seed", ![p].version = n] PROVE MigrationInv'
  <2>1. /\ proc' \in [Process -> [at : MigrationStep, todo : Seq(M!Store), version : Nat]]
        /\ proc'[p].at = "seed" /\ proc'[p].todo = proc[p].todo /\ M!Opening(p)' = M!Opening(p)
        /\ \A q \in Process \ {p} : proc'[q] = proc[q]
    BY <1>4, ProcessMovesOn DEF MigrationInv, MigrationStep
  <2>2. ProcessLocated(p)'
    BY <1>1, <2>1 DEF ProcessLocated
  <2> QED
    BY <1>1, <2>1, <2>2, TablesStay
<1>5. CASE M!CountCapabilities(p)
  BY <1>2, <1>4, <1>5 DEF M!CountCapabilities
<1>6. CASE M!SeedCapability(p) /\ proc' = [proc EXCEPT ![p].version = @ + 1]
  <2>1. proc[p] \in [at : MigrationStep, todo : Seq(M!Store), version : Nat] /\ proc[p].at = "seed"
    BY <1>6 DEF M!SeedCapability, MigrationInv, TablesTyped
  <2>2. [proc[p] EXCEPT !.at = "seed"] = proc[p]
    BY <2>1
  <2>3. proc' = [proc EXCEPT ![p] = [proc[p] EXCEPT !.version = proc[p].version + 1]]
    BY <1>6 DEF MigrationInv, TablesTyped
  <2>4. proc' = [proc EXCEPT ![p].at = "seed", ![p].version = proc[p].version + 1]
    BY <2>2, <2>3 DEF MigrationInv, TablesTyped
  <2>5. proc[p].version + 1 \in Nat
    BY <1>1
  <2> QED
    BY <1>4, <2>4, <2>5
<1> QED
  BY <1>2, <1>3, <1>5, <1>6 DEF M!SeedCapability

-----------------------------------------------------------------------------
LEMMA MigrationInitHolds ==
  ASSUME M!MigrationParameters, M!MigrationInit
  PROVE  MigrationInv
<1>1. TablesTyped
  <2>1. M!Down \in [at : MigrationStep, todo : Seq(M!Store), version : Nat]
    BY DEF M!Down, MigrationStep
  <2>2. applied \in [M!Store -> Seq(Nat)] /\ recorded \in [M!Store -> SUBSET Nat]
    BY DEF M!MigrationInit
  <2> QED
    BY <2>1, <2>2 DEF M!MigrationInit, TablesTyped
<1>2. ASSUME NEW s \in M!Store PROVE InOrder(s)
  BY DEF M!MigrationInit, InOrder, M!MigrationParameters, M!Store
<1>3. ASSUME NEW p \in Process PROVE ProcessLocated(p)
  BY DEF M!MigrationInit, ProcessLocated, M!Down
<1> QED
  BY <1>1, <1>2, <1>3 DEF MigrationInv

LEMMA MigrationNextKeeps ==
  ASSUME M!MigrationParameters, MigrationInv, [M!MigrationNext]_M!migrationVars
  PROVE  MigrationInv'
<1>1. CASE UNCHANGED M!migrationVars
  BY <1>1 DEF M!migrationVars, MigrationInv, TablesTyped, InOrder, ProcessLocated, InTransaction, M!Opening
<1>2. ASSUME NEW p \in Process,
             \/ M!OpenDatabase(p) \/ M!ReadVersion(p) \/ M!Apply(p) \/ M!Record(p) \/ M!Commit(p)
             \/ M!Migrated(p) \/ M!CountCapabilities(p) \/ M!SeedCapability(p) \/ M!Stop(p)
      PROVE  MigrationInv'
  BY <1>2, OpenDatabaseKeeps, ReadVersionKeeps, ApplyKeeps, RecordKeeps, CommitKeeps,
     MigratedKeeps, SeedingKeeps, StopKeeps
<1> QED
  BY <1>1, <1>2 DEF M!MigrationNext

(* The tables of any stores, whatever processes migrate them, in whatever  *)
(* order, and wherever they stop.                                          *)
THEOREM MigrationInvariance ==
  ASSUME M!MigrationParameters
  PROVE  M!MigrationSpec => []MigrationInv
<1>1. M!MigrationInit => MigrationInv
  BY MigrationInitHolds
<1>2. MigrationInv /\ [M!MigrationNext]_M!migrationVars => MigrationInv'
  BY MigrationNextKeeps
<1> QED
  BY <1>1, <1>2, PTL DEF M!MigrationSpec

(* However many processes open the database together, die in it and come   *)
(* back, every migration is applied once, in order, with its row, and an   *)
(* open store has them all: the row is the primary key of its version and  *)
(* written in the transaction of its statements.                           *)
THEOREM AlwaysMigratedOnce ==
  ASSUME M!MigrationParameters
  PROVE  M!MigrationSpec => []M!MigratedOnce
<1>1. MigrationInv => M!MigratedOnce
  BY DEF MigrationInv, InOrder, ProcessLocated, M!MigratedOnce
<1> QED
  BY <1>1, MigrationInvariance, PTL

-----------------------------------------------------------------------------
(***************************************************************************)
(* The inductive invariant.  A directory without a key, or with one that   *)
(* was made and not written, holds no object; the process that makes the   *)
(* key is the only one there, so the file is as it left it; and whoever    *)
(* writes an object holds the key of the file.                             *)
(***************************************************************************)
Writing == {"write", "fill", "rename", "put", "delete"}

FilesTyped ==
  /\ keyFile \in Nat \union {None}
  /\ mine \in [at : {"closed", "draw", "write", "open"}, key : Nat]
  /\ keys \in Nat
  /\ DOMAIN objects = Path
  /\ DOMAIN access = Worker

KeyKept ==
  /\ mine.at = "draw" => keyFile = None
  /\ mine.at = "write" => keyFile = O!Short /\ mine.key > 0
  /\ mine.at = "open" => keyFile = mine.key /\ mine.key > 0
  /\ keyFile \in {None, O!Short} => \A p \in Path : objects[p] = None

OnlyOpenWrites ==
  \A c \in Worker : access[c].at \in Writing => mine.at = "open" /\ access[c].at # "put"

ObjectsInv ==
  /\ FilesTyped
  /\ service = "fs" => KeyKept /\ OnlyOpenWrites /\ O!ReadableForever

-----------------------------------------------------------------------------
(* Steps of Init and of a crash: they leave the objects alone.             *)
LEMMA LoadKeyKeeps == ASSUME O!StoreParameters, ObjectsInv, O!LoadKey PROVE ObjectsInv'
<1>1. /\ UNCHANGED <<service, keyFile, objects, access, keys>> /\ mine.at = "closed"
      /\ \/ keyFile = None /\ mine' = [at |-> "draw", key |-> 0]
         \/ mine' = mine
         \/ keyFile \notin {None, O!Short} /\ mine' = [at |-> "open", key |-> keyFile]
  BY DEF O!LoadKey
<1>2. OnlyOpenWrites' \/ ~ OnlyOpenWrites
  BY <1>1 DEF OnlyOpenWrites
<1> QED
  BY <1>1, <1>2 DEF ObjectsInv, FilesTyped, KeyKept, O!ReadableForever, O!Short

LEMMA DrawKeyKeeps == ASSUME O!StoreParameters, ObjectsInv, O!DrawKey PROVE ObjectsInv'
<1>1. /\ UNCHANGED <<service, objects, access>> /\ mine.at = "draw" /\ keys' = keys + 1
      /\ mine' = [at |-> "write", key |-> keys + 1] /\ keyFile' = O!Short
  BY DEF O!DrawKey
<1>2. OnlyOpenWrites' \/ ~ OnlyOpenWrites
  BY <1>1 DEF OnlyOpenWrites
<1> QED
  BY <1>1, <1>2 DEF ObjectsInv, FilesTyped, KeyKept, O!ReadableForever, O!Short

LEMMA WriteKeyKeeps == ASSUME O!StoreParameters, ObjectsInv, O!WriteKey PROVE ObjectsInv'
<1>1. /\ UNCHANGED <<service, objects, access, keys>> /\ mine.at = "write"
      /\ \/ keyFile' = mine.key /\ mine' = [mine EXCEPT !.at = "open"]
         \/ mine' = [at |-> "closed", key |-> 0] /\ UNCHANGED keyFile
  BY DEF O!WriteKey
<1>2. OnlyOpenWrites' \/ ~ OnlyOpenWrites
  BY <1>1 DEF OnlyOpenWrites
<1> QED
  BY <1>1, <1>2 DEF ObjectsInv, FilesTyped, KeyKept, O!ReadableForever, O!Short, O!StoreParameters

LEMMA CrashKeeps == ASSUME O!StoreParameters, ObjectsInv, O!Crash PROVE ObjectsInv'
<1>1. /\ UNCHANGED <<service, keyFile, objects, keys>>
      /\ mine' = [at |-> "closed", key |-> 0] /\ access' = [c \in Worker |-> O!Resting]
  BY DEF O!Crash
<1>2. OnlyOpenWrites'
  BY <1>1 DEF OnlyOpenWrites, O!Resting, Writing
<1> QED
  BY <1>1, <1>2 DEF ObjectsInv, FilesTyped, KeyKept, O!ReadableForever

LEMMA OpenBucketKeeps == ASSUME ObjectsInv, O!OpenBucket PROVE ObjectsInv'
BY DEF O!OpenBucket, ObjectsInv, FilesTyped

-----------------------------------------------------------------------------
(* Calls.                                                                  *)

(* A call that moves without touching an object.                           *)
LEMMA AccessMoves ==
  ASSUME ObjectsInv, NEW c \in Worker, NEW entry, access' = [access EXCEPT ![c] = entry],
         UNCHANGED <<service, keyFile, mine, objects, keys>>,
         service = "fs" /\ entry.at \in Writing => mine.at = "open" /\ entry.at # "put"
  PROVE  ObjectsInv'
<1>1. service = "fs" => OnlyOpenWrites'
  BY DEF ObjectsInv, FilesTyped, OnlyOpenWrites
<1>2. FilesTyped' /\ (service = "fs" => KeyKept' /\ O!ReadableForever')
  BY DEF ObjectsInv, FilesTyped, KeyKept, O!ReadableForever
<1> QED
  BY <1>1, <1>2 DEF ObjectsInv

LEMMA AccessBegins ==
  ASSUME ObjectsInv, NEW c \in Worker, NEW p, NEW b, O!Write(c, p, b) \/ O!Delete(c, p)
  PROVE  ObjectsInv'
<1>1. ASSUME NEW to, NEW body, O!Call(c, to, p, body), service = "fs" => to # "put" PROVE ObjectsInv'
  BY <1>1, AccessMoves DEF O!Call
<1> QED
  BY <1>1 DEF O!Write, O!Delete

LEMMA AccessGoes ==
  ASSUME ObjectsInv, NEW c \in Worker, NEW to, O!Goes(c, to), access[c].at \in Writing, to # "put",
         UNCHANGED <<service, keyFile, mine, objects, keys>>
  PROVE  ObjectsInv'
<1> DEFINE entry == [access[c] EXCEPT !.at = to]
<1>1. access' = [access EXCEPT ![c] = entry]
  BY DEF O!Goes
<1>2. entry.at \in {to, access[c].at}
  OBVIOUS
<1> QED
  BY <1>1, <1>2, AccessMoves DEF ObjectsInv, OnlyOpenWrites

LEMMA TempsKeep ==
  ASSUME ObjectsInv, NEW c \in Worker, O!CreateTemp(c) \/ O!FillTemp(c) \/ O!RemoveTemp(c)
  PROVE  ObjectsInv'
<1>1. CASE O!CreateTemp(c)
  BY <1>1, AccessGoes DEF O!CreateTemp, Writing
<1>2. CASE O!FillTemp(c)
  BY <1>2, AccessGoes DEF O!FillTemp, Writing
<1>3. CASE O!RemoveTemp(c)
  BY <1>3, AccessGoes DEF O!RemoveTemp, Writing
<1> QED
  BY <1>1, <1>2, <1>3

(* A call that ends with an object replaced or gone.                       *)
LEMMA ObjectReplaced ==
  ASSUME O!StoreParameters, ObjectsInv, NEW c \in Worker, NEW to, to \notin Writing, O!Goes(c, to), NEW p, NEW file,
         objects' = [objects EXCEPT ![p] = file],
         UNCHANGED <<service, keyFile, mine, keys>>,
         service = "fs" => mine.at = "open" /\ (file # None => file.whole /\ file.key = keyFile)
  PROVE  ObjectsInv'
<1>1. FilesTyped'
  BY DEF ObjectsInv, FilesTyped, O!Goes
<1>2. ASSUME service = "fs" PROVE OnlyOpenWrites'
  <2> DEFINE entry == [access[c] EXCEPT !.at = to]
  <2>1. access' = [access EXCEPT ![c] = entry]
    BY DEF O!Goes
  <2>2. entry.at \in {to, access[c].at}
    OBVIOUS
  <2> HIDE DEF entry
  <2> QED
    BY <1>2, <2>1, <2>2 DEF ObjectsInv, FilesTyped, OnlyOpenWrites
<1>3. ASSUME service = "fs" PROVE KeyKept' /\ O!ReadableForever'
  <2>1. keyFile = mine.key /\ mine.key > 0 /\ mine.key \in Nat
    BY <1>3 DEF ObjectsInv, KeyKept, FilesTyped
  <2>2. keyFile \notin {None, O!Short}
    BY <2>1 DEF O!StoreParameters, O!Short
  <2>3. \A q \in Path : objects'[q] \in {objects[q], file}
    BY DEF ObjectsInv, FilesTyped
  <2>4. KeyKept'
    BY <1>3, <2>1, <2>2 DEF KeyKept, ObjectsInv
  <2> QED
    BY <1>3, <2>3, <2>4 DEF O!ReadableForever, ObjectsInv
<1> QED
  BY <1>1, <1>2, <1>3 DEF ObjectsInv

LEMMA RenameKeeps == ASSUME O!StoreParameters, ObjectsInv, NEW c \in Worker, O!Rename(c) PROVE ObjectsInv'
<1> DEFINE file == O!Sealed(c, TRUE)
<1>1. service = "fs" => mine.at = "open" /\ keyFile = mine.key
  BY DEF O!Rename, ObjectsInv, OnlyOpenWrites, KeyKept, Writing
<1>2. file.whole /\ file.key = mine.key
  BY DEF O!Sealed
<1>3. objects' = [objects EXCEPT ![access[c].path] = file] /\ O!Goes(c, "ok")
      /\ UNCHANGED <<service, keyFile, mine, keys>>
  BY DEF O!Rename
<1> HIDE DEF file
<1> QED
  BY <1>1, <1>2, <1>3, ObjectReplaced DEF Writing

LEMMA RemoveKeeps == ASSUME O!StoreParameters, ObjectsInv, NEW c \in Worker, O!Remove(c) PROVE ObjectsInv'
<1>1. UNCHANGED <<service, keyFile, mine, keys>> /\ access[c].at = "delete"
  BY DEF O!Remove
<1>2. service = "fs" => mine.at = "open"
  BY <1>1 DEF ObjectsInv, OnlyOpenWrites, Writing
<1>3. ASSUME NEW answer \in {"ok", "error"}, O!Goes(c, answer), objects' = [objects EXCEPT ![access[c].path] = None]
      PROVE  ObjectsInv'
  BY <1>1, <1>2, <1>3, ObjectReplaced DEF Writing
<1>4. CASE O!Goes(c, "error") /\ UNCHANGED objects
  BY <1>1, <1>4, AccessGoes DEF Writing
<1> QED
  BY <1>3, <1>4 DEF O!Remove

(* The buckets have no key.                                                *)
LEMMA PutKeeps == ASSUME ObjectsInv, NEW c \in Worker, O!PutS3(c) \/ O!PutGCS(c) PROVE ObjectsInv'
<1>1. service # "fs" /\ UNCHANGED <<service, keyFile, mine, keys>>
  BY DEF O!PutS3, O!PutGCS
<1>2. DOMAIN objects' = DOMAIN objects /\ DOMAIN access' = DOMAIN access
  BY DEF O!PutS3, O!PutGCS, O!Goes
<1> QED
  BY <1>1, <1>2 DEF ObjectsInv, FilesTyped

-----------------------------------------------------------------------------
(* The files of the store and the key that seals them, after any starts,   *)
(* crashes and calls.                                                      *)
THEOREM ObjectsInvariance ==
  ASSUME O!StoreParameters
  PROVE  O!StoreSpec => []ObjectsInv
<1>1. O!StoreInit => ObjectsInv
  BY DEF O!StoreInit, ObjectsInv, FilesTyped, KeyKept, OnlyOpenWrites, O!ReadableForever, O!Resting, Writing
<1>2. ObjectsInv /\ [O!StoreNext]_O!storeVars => ObjectsInv'
  <2> SUFFICES ASSUME ObjectsInv, [O!StoreNext]_O!storeVars PROVE ObjectsInv'
    OBVIOUS
  <2>1. CASE UNCHANGED O!storeVars
    BY <2>1 DEF O!storeVars, ObjectsInv, FilesTyped, KeyKept, OnlyOpenWrites, O!ReadableForever
  <2>2. CASE O!LoadKey \/ O!DrawKey \/ O!WriteKey \/ O!OpenBucket \/ O!Crash
    BY <2>2, LoadKeyKeeps, DrawKeyKeeps, WriteKeyKeeps, OpenBucketKeeps, CrashKeeps
  <2>3. ASSUME NEW c \in Worker,
               \/ \E p \in Path, b \in Body : O!Write(c, p, b)
               \/ \E p \in Path : O!Delete(c, p)
               \/ O!CreateTemp(c) \/ O!FillTemp(c) \/ O!Rename(c) \/ O!RemoveTemp(c)
               \/ O!PutS3(c) \/ O!PutGCS(c) \/ O!Remove(c)
        PROVE  ObjectsInv'
    BY <2>3, AccessBegins, TempsKeep, RenameKeeps, RemoveKeeps, PutKeeps
  <2> QED
    BY <2>1, <2>2, <2>3 DEF O!StoreNext
<1> QED
  BY <1>1, <1>2, PTL DEF O!StoreSpec

(* What the encrypted directory holds can be read back after any number of *)
(* starts and crashes: the key is on disk before the first object is, it   *)
(* never changes, and an object appears under its path whole.              *)
THEOREM AlwaysReadable ==
  ASSUME O!StoreParameters
  PROVE  O!StoreSpec => []O!ReadableForever
<1>1. ObjectsInv => O!ReadableForever
  BY DEF ObjectsInv, O!ReadableForever
<1> QED
  BY <1>1, ObjectsInvariance, PTL

-----------------------------------------------------------------------------
(* The types, with the bounds on the keys that are drawn. *)
ObjectsTyped ==
  /\ O!StoreTypeOK
  /\ keys \in 0 .. MaxStarts /\ DOMAIN objects = Path
  /\ mine.at = "draw" => keys < MaxStarts
  /\ mine.at = "write" => mine.key \in 1 .. MaxStarts
  /\ \A c \in Worker : access[c].at \in {"write", "fill", "rename", "put"} => access[c].body \in Body

Access == [at : {"idle", "write", "fill", "rename", "put", "delete", "ok", "error"},
           path : Path \union {None}, body : Body \union {None}]

LEMMA KeysTyped ==
  ASSUME O!StoreParameters, ObjectsTyped, O!LoadKey \/ O!DrawKey \/ O!WriteKey \/ O!OpenBucket \/ O!Crash
  PROVE  ObjectsTyped'
<1>1. UNCHANGED <<service, objects, temps>> /\ MaxStarts \in Nat
  BY DEF O!LoadKey, O!DrawKey, O!WriteKey, O!OpenBucket, O!Crash, O!StoreParameters
<1>2. CASE O!LoadKey
  BY <1>1, <1>2 DEF O!LoadKey, ObjectsTyped, O!StoreTypeOK, O!Short
<1>3. CASE O!DrawKey
  BY <1>1, <1>3 DEF O!DrawKey, ObjectsTyped, O!StoreTypeOK, O!Short
<1>4. CASE O!WriteKey
  BY <1>1, <1>4 DEF O!WriteKey, ObjectsTyped, O!StoreTypeOK, O!Short
<1>5. CASE O!OpenBucket
  BY <1>1, <1>5 DEF O!OpenBucket, ObjectsTyped, O!StoreTypeOK, O!Short
<1>6. CASE O!Crash
  <2>1. O!Resting \in Access
    BY DEF O!Resting, Access
  <2> QED
    BY <1>1, <1>6, <2>1 DEF O!Crash, ObjectsTyped, O!StoreTypeOK, O!Resting, Access
<1> QED
  BY <1>2, <1>3, <1>4, <1>5, <1>6

(* A call takes its next step, and an object is replaced, if at all, by    *)
(* what the call was given.                                                *)
LEMMA AccessTyped ==
  ASSUME ObjectsTyped, NEW c \in Worker, NEW entry \in Access, access' = [access EXCEPT ![c] = entry],
         UNCHANGED <<keyFile, mine, keys>>,
         entry.at \in {"write", "fill", "rename", "put"} => entry.body \in Body,
         DOMAIN objects' = DOMAIN objects,
         \A p \in Path : objects'[p] = objects[p] \/ objects'[p] = None \/ objects'[p].body \in Body
  PROVE  ObjectsTyped'
<1>1. access' \in [Worker -> Access]
  BY DEF ObjectsTyped, O!StoreTypeOK, Access
<1>2. \A d \in Worker : access'[d].at \in {"write", "fill", "rename", "put"} => access'[d].body \in Body
  BY DEF ObjectsTyped, O!StoreTypeOK
<1>3. \A p \in Path : objects'[p] # None => objects'[p].body \in Body
  BY DEF ObjectsTyped, O!StoreTypeOK
<1> QED
  BY <1>1, <1>2, <1>3 DEF ObjectsTyped, O!StoreTypeOK, Access

LEMMA GoesTyped ==
  ASSUME ObjectsTyped, NEW c \in Worker, NEW to \in {"fill", "rename", "ok", "error"}, O!Goes(c, to),
         access[c].at \in {"write", "fill", "rename", "put"} \/ to \in {"ok", "error"},
         UNCHANGED <<keyFile, mine, keys>>, DOMAIN objects' = DOMAIN objects,
         \A p \in Path : objects'[p] = objects[p] \/ objects'[p] = None \/ objects'[p].body \in Body
  PROVE  ObjectsTyped'
<1> DEFINE entry == [access[c] EXCEPT !.at = to]
<1>1. access[c] \in Access
  BY DEF ObjectsTyped, O!StoreTypeOK, Access
<1>2. entry \in Access /\ entry.at = to /\ entry.body = access[c].body
  BY <1>1 DEF Access
<1>3. access' = [access EXCEPT ![c] = entry]
  BY DEF O!Goes
<1>4. entry.at \in {"write", "fill", "rename", "put"} => entry.body \in Body
  BY <1>2 DEF ObjectsTyped
<1> HIDE DEF entry
<1> QED
  BY <1>2, <1>3, <1>4, AccessTyped

LEMMA CallsTyped ==
  ASSUME ObjectsTyped, NEW c \in Worker,
         \/ \E p \in Path, b \in Body : O!Write(c, p, b)
         \/ \E p \in Path : O!Delete(c, p)
         \/ O!CreateTemp(c) \/ O!FillTemp(c) \/ O!Rename(c) \/ O!RemoveTemp(c)
         \/ O!PutS3(c) \/ O!PutGCS(c) \/ O!Remove(c)
  PROVE  ObjectsTyped'
<1>1. ASSUME NEW to \in {"write", "put", "delete"}, NEW p \in Path, NEW b \in Body \union {None},
             to # "delete" => b \in Body, O!Call(c, to, p, b)
      PROVE  ObjectsTyped'
  <2>1. [at |-> to, path |-> p, body |-> b] \in Access
    BY DEF Access
  <2> QED
    BY <1>1, <2>1, AccessTyped DEF O!Call
<1>2. CASE \E p \in Path, b \in Body : O!Write(c, p, b)
  BY <1>1, <1>2 DEF O!Write
<1>3. CASE \E p \in Path : O!Delete(c, p)
  BY <1>1, <1>3 DEF O!Delete
<1>4. CASE O!CreateTemp(c) \/ O!FillTemp(c) \/ O!RemoveTemp(c)
  BY <1>4, GoesTyped DEF O!CreateTemp, O!FillTemp, O!RemoveTemp
<1>5. ASSUME NEW p, NEW file, NEW to \in {"ok", "error"}, objects' = [objects EXCEPT ![p] = file],
             file = None \/ file.body \in Body, O!Goes(c, to), UNCHANGED <<keyFile, mine, keys>>
      PROVE  ObjectsTyped'
  <2>1. DOMAIN objects' = DOMAIN objects /\ \A q \in Path : objects'[q] = objects[q] \/ objects'[q] = file
    BY <1>5 DEF ObjectsTyped
  <2> QED
    BY <1>5, <2>1, GoesTyped
<1>6. ASSUME NEW whole, access[c].at \in {"rename", "put"} PROVE O!Sealed(c, whole).body \in Body
  BY <1>6 DEF O!Sealed, ObjectsTyped
<1> DEFINE file == O!Sealed(c, TRUE)
<1>7. CASE O!Rename(c)
  <2>1. objects' = [objects EXCEPT ![access[c].path] = file] /\ O!Goes(c, "ok") /\ UNCHANGED <<keyFile, mine, keys>>
    BY <1>7 DEF O!Rename
  <2>2. file.body \in Body
    BY <1>7 DEF O!Rename, O!Sealed, ObjectsTyped
  <2> HIDE DEF file
  <2> QED
    BY <1>5, <2>1, <2>2
<1>8. CASE O!PutS3(c)
  <2>1. /\ UNCHANGED <<keyFile, mine, keys>>
        /\ \/ /\ objects' = [objects EXCEPT ![access[c].path] = file]
              /\ \E answer \in {"ok", "error"} : O!Goes(c, answer)
           \/ O!Goes(c, "error") /\ UNCHANGED objects
    BY <1>8 DEF O!PutS3
  <2>2. file.body \in Body
    BY <1>8 DEF O!PutS3, O!Sealed, ObjectsTyped
  <2> HIDE DEF file
  <2> QED
    BY <1>5, <2>1, <2>2, GoesTyped
<1>9. CASE O!PutGCS(c)
  BY <1>5, <1>6, <1>9, GoesTyped DEF O!PutGCS
<1>10. CASE O!Remove(c)
  BY <1>5, <1>10, GoesTyped DEF O!Remove
<1> QED
  BY <1>2, <1>3, <1>4, <1>7, <1>8, <1>9, <1>10

(* The store keeps its types, which the run checks with what can be read.  *)
THEOREM ObjectsTypes ==
  ASSUME O!StoreParameters
  PROVE  O!StoreSpec => []O!StoreTypeOK
<1>1. O!StoreInit => ObjectsTyped
  <2>1. O!Resting \in Access
    BY DEF O!Resting, Access
  <2> QED
    BY <2>1 DEF O!StoreInit, ObjectsTyped, O!StoreTypeOK, O!StoreParameters, O!Resting, Access
<1>2. ObjectsTyped /\ [O!StoreNext]_O!storeVars => ObjectsTyped'
  <2>1. CASE UNCHANGED O!storeVars
    BY <2>1 DEF O!storeVars, ObjectsTyped, O!StoreTypeOK
  <2> QED
    BY <2>1, KeysTyped, CallsTyped DEF O!StoreNext
<1>3. ObjectsTyped => O!StoreTypeOK
  BY DEF ObjectsTyped
<1> QED
  BY <1>1, <1>2, <1>3, PTL DEF O!StoreSpec
-----------------------------------------------------------------------------
(***************************************************************************)
(* The memory adapters.  Whoever is about to write has measured every      *)
(* vector: against the dimension of the handle it works with, or, with     *)
(* sqlite, against the dimension of the index, which the handle that all   *)
(* calls share has too.  A handle is taken away with the calls that use it.*)
(***************************************************************************)
Batches  == UNION {[ids -> Vector] : ids \in (SUBSET Id) \ {{}}}
Removals == {[y \in {x} |-> None] : x \in Id}
Dimension == V!Dims \union {0}
IndexCall == [at : {"idle", "check", "set", "write", "delete", "scan", "done", "error"},
              batch : Batches \union Removals \union {<<>>}, left : SUBSET Id, query : Dimension]

IndexTyped ==
  /\ backend \in V!Backend /\ config \in [Handle -> V!Dims] /\ uses \in [Worker -> Handle]
  /\ table \in Dimension /\ stored \in [Id -> Vector \union {None}]
  /\ handle \in [Handle -> [at : {"closed", "create", "open"}, dim : Dimension]]
  /\ op \in [Worker -> IndexCall]

OneHandle ==
  /\ \A h \in Handle : handle[h].at = "create" => backend = "qdrant"
  /\ backend = "sqlite" =>
       \A v, w \in Worker : uses[v] = uses[w] /\ (V!Held(w) = table \/ handle[uses[w]].at # "open")

InHand(w) ==
  /\ op[w].left \subseteq DOMAIN op[w].batch
  /\ op[w].at \in {"check", "set", "write", "delete", "scan"} => handle[uses[w]].at = "open"
  /\ op[w].at \in {"check", "set", "write"} => op[w].batch \in Batches
  /\ op[w].at = "delete" => op[w].batch \in Removals

Measured(w) ==
  /\ backend = "sqlite" =>
       /\ op[w].at \in {"check", "set", "write"} =>
            \A x \in DOMAIN op[w].batch \ op[w].left : V!DimOf(w, x) = table
       /\ op[w].at = "write" => op[w].left = {}
  /\ backend # "sqlite" =>
       /\ op[w].at # "set"
       /\ op[w].at = "check" => op[w].left = DOMAIN op[w].batch
       /\ op[w].at = "write" => \A x \in DOMAIN op[w].batch : V!DimOf(w, x) = V!Held(w)

IndexInv ==
  /\ IndexTyped /\ OneHandle
  /\ \A w \in Worker : InHand(w) /\ Measured(w)
  /\ V!OneDimension

-----------------------------------------------------------------------------
(* Steps of the handles.                                                   *)
LEMMA NoneStored ==
  ASSUME V!IndexParameters, IndexInv, table = 0
  PROVE  \A x \in Id : stored[x] = None
BY DEF IndexInv, IndexTyped, V!OneDimension, V!IndexParameters

LEMMA HandleOpens ==
  ASSUME V!IndexParameters, IndexInv, NEW h \in Handle, NEW h2, NEW t \in Dimension, V!Opens(h, h2, t),
         h2 \in [at : {"closed", "create", "open"}, dim : Dimension],
         h2.at = "create" => backend = "qdrant",
         backend = "sqlite" => t = table /\ h2.dim = table,
         t = table \/ table = 0
  PROVE  IndexInv'
<1>1. /\ handle[h].at = "closed" /\ handle' = [handle EXCEPT ![h] = h2] /\ table' = t
      /\ UNCHANGED <<backend, config, uses, stored, op>>
  BY DEF V!Opens
<1>2. handle \in [Handle -> [at : {"closed", "create", "open"}, dim : Dimension]]
  BY DEF IndexInv, IndexTyped
<1>3. handle'[h] = h2 /\ \A g \in Handle \ {h} : handle'[g] = handle[g]
  BY <1>1, <1>2
<1>4. IndexTyped'
  BY <1>1, <1>2 DEF IndexInv, IndexTyped
<1>5. OneHandle'
  BY <1>1, <1>3 DEF IndexInv, IndexTyped, OneHandle, V!Held
<1>6. ASSUME NEW w \in Worker PROVE InHand(w)' /\ Measured(w)'
  <2>1. InHand(w) /\ Measured(w) /\ uses[w] \in Handle
    BY DEF IndexInv, IndexTyped
  <2>2. op[w].at \in {"check", "set", "write", "delete", "scan"} => handle'[uses[w]] = handle[uses[w]]
    BY <1>1, <1>3, <2>1 DEF InHand
  <2>3. InHand(w)'
    BY <1>1, <2>1, <2>2 DEF InHand
  <2>4. backend = "sqlite" => table' = table
    BY <1>1
  <2> QED
    BY <1>1, <2>1, <2>2, <2>3, <2>4 DEF Measured, V!DimOf, V!Held
<1>7. V!OneDimension'
  BY <1>1, NoneStored DEF IndexInv, V!OneDimension
<1> QED
  BY <1>4, <1>5, <1>6, <1>7 DEF IndexInv

LEMMA HandlesKeep ==
  ASSUME V!IndexParameters, IndexInv, NEW h \in Handle,
         V!SqliteInit(h) \/ V!PgvectorInit(h) \/ V!QdrantInit(h) \/ V!ChromaInit(h)
  PROVE  IndexInv'
<1>1. table \in Dimension /\ config[h] \in Dimension
  BY DEF IndexInv, IndexTyped, Dimension
<1>2. CASE V!SqliteInit(h)
  <2>1. [at |-> "open", dim |-> table] \in [at : {"closed", "create", "open"}, dim : Dimension]
    BY <1>1
  <2> QED
    BY <1>1, <1>2, <2>1, HandleOpens DEF V!SqliteInit
<1>3. CASE V!PgvectorInit(h)
  <2> DEFINE t == IF table = 0 THEN config[h] ELSE table
  <2>1. [at |-> "open", dim |-> config[h]] \in [at : {"closed", "create", "open"}, dim : Dimension]
        /\ t \in Dimension /\ (t = table \/ table = 0)
    BY <1>1
  <2>2. backend = "pgvector" /\ V!Opens(h, [at |-> "open", dim |-> config[h]], t)
    BY <1>3 DEF V!PgvectorInit
  <2> HIDE DEF t
  <2> QED
    BY <2>1, <2>2, HandleOpens
<1>4. CASE V!QdrantInit(h)
  <2> DEFINE to == IF table = 0 THEN "create" ELSE "open"
  <2>1. [at |-> to, dim |-> config[h]] \in [at : {"closed", "create", "open"}, dim : Dimension]
    BY <1>1
  <2>2. backend = "qdrant" /\ V!Opens(h, [at |-> to, dim |-> config[h]], table)
    BY <1>4 DEF V!QdrantInit
  <2> HIDE DEF to
  <2> QED
    BY <1>1, <2>1, <2>2, HandleOpens
<1>5. CASE V!ChromaInit(h)
  <2>1. [at |-> "open", dim |-> config[h]] \in [at : {"closed", "create", "open"}, dim : Dimension]
    BY <1>1
  <2> QED
    BY <1>1, <1>5, <2>1, HandleOpens DEF V!ChromaInit
<1> QED
  BY <1>2, <1>3, <1>4, <1>5

LEMMA CreateKeeps ==
  ASSUME V!IndexParameters, IndexInv, NEW h \in Handle, V!CreateCollection(h)
  PROVE  IndexInv'
<1> DEFINE to == IF table = 0 THEN "open" ELSE "closed"
           h2 == [handle[h] EXCEPT !.at = to]
<1>1. /\ handle[h].at = "create" /\ backend = "qdrant" /\ UNCHANGED <<backend, config, uses, stored, op>>
      /\ table' = IF table = 0 THEN handle[h].dim ELSE table
  BY DEF V!CreateCollection, IndexInv, OneHandle
<1>2. handle[h] \in [at : {"closed", "create", "open"}, dim : Dimension] /\ table' \in Dimension
  BY <1>1 DEF IndexInv, IndexTyped
<1>3. h2 \in [at : {"closed", "create", "open"}, dim : Dimension] /\ h2.at # "create"
  BY <1>2
<1>4. handle' = [handle EXCEPT ![h] = h2]
  BY DEF V!CreateCollection
<1> HIDE DEF h2
<1>5. /\ handle' \in [Handle -> [at : {"closed", "create", "open"}, dim : Dimension]]
      /\ handle'[h] = h2 /\ \A g \in Handle \ {h} : handle'[g] = handle[g]
  BY <1>3, <1>4 DEF IndexInv, IndexTyped
<1>6. IndexTyped'
  BY <1>1, <1>2, <1>5 DEF IndexInv, IndexTyped
<1>7. OneHandle'
  BY <1>1, <1>3, <1>5 DEF OneHandle
<1>8. ASSUME NEW w \in Worker PROVE InHand(w)' /\ Measured(w)'
  <2>1. InHand(w) /\ Measured(w) /\ uses[w] \in Handle
    BY DEF IndexInv, IndexTyped
  <2>2. op[w].at \in {"check", "set", "write", "delete", "scan"} => handle'[uses[w]] = handle[uses[w]]
    BY <1>1, <1>5, <2>1 DEF InHand
  <2>3. InHand(w)'
    BY <1>1, <2>1, <2>2 DEF InHand
  <2> QED
    BY <1>1, <2>1, <2>2, <2>3 DEF Measured, V!DimOf, V!Held
<1>9. V!OneDimension'
  BY <1>1, NoneStored DEF IndexInv, V!OneDimension
<1> QED
  BY <1>6, <1>7, <1>8, <1>9 DEF IndexInv

LEMMA CloseKeeps ==
  ASSUME V!IndexParameters, IndexInv, NEW h \in Handle, V!Close(h)
  PROVE  IndexInv'
<1> DEFINE h2 == [handle[h] EXCEPT !.at = "closed"]
           failed == [V!NoOp EXCEPT !.at = "error"]
<1>1. UNCHANGED <<backend, config, uses, table, stored>>
  BY DEF V!Close
<1>2. h2 \in [at : {"closed", "create", "open"}, dim : Dimension] /\ h2.at = "closed" /\ h2.dim = handle[h].dim
  BY DEF IndexInv, IndexTyped
<1>3. handle' = [handle EXCEPT ![h] = h2]
  BY DEF V!Close
<1> HIDE DEF h2
<1>4. /\ handle' \in [Handle -> [at : {"closed", "create", "open"}, dim : Dimension]]
      /\ handle'[h] = h2 /\ \A g \in Handle \ {h} : handle'[g] = handle[g]
  BY <1>2, <1>3 DEF IndexInv, IndexTyped
<1>5. failed \in IndexCall /\ failed.at = "error" /\ failed.left = {} /\ V!NoOp.at = "idle"
  BY DEF V!NoOp, IndexCall, Dimension
<1>6. op' = [w \in Worker |-> IF uses[w] = h /\ op[w] # V!NoOp THEN failed ELSE op[w]]
  BY DEF V!Close
<1> HIDE DEF failed
<1>7. op' \in [Worker -> IndexCall]
  BY <1>5, <1>6 DEF IndexInv, IndexTyped
<1>8. IndexTyped'
  BY <1>1, <1>4, <1>7 DEF IndexInv, IndexTyped
<1>9. OneHandle'
  <2>1. \A g \in Handle : handle'[g].at # handle[g].at => handle'[g].at = "closed"
    BY <1>2, <1>4
  <2>2. \A g \in Handle : handle'[g].dim = handle[g].dim
    BY <1>2, <1>4
  <2>3. \A w \in Worker : uses[w] \in Handle
    BY DEF IndexInv, IndexTyped
  <2> QED
    BY <1>1, <2>1, <2>2, <2>3 DEF IndexInv, OneHandle, V!Held
<1>10. ASSUME NEW w \in Worker PROVE InHand(w)' /\ Measured(w)'
  <2>1. InHand(w) /\ Measured(w) /\ uses[w] \in Handle
    BY DEF IndexInv, IndexTyped
  <2>2. CASE uses[w] = h /\ op[w] # V!NoOp
    BY <1>5, <1>6, <2>2 DEF InHand, Measured
  <2>3. CASE uses[w] = h /\ op[w] = V!NoOp
    <3>1. op'[w] = op[w] /\ op[w].at = "idle"
      BY <1>5, <1>6, <2>3
    <3> QED
      BY <2>1, <3>1 DEF InHand, Measured
  <2>4. CASE uses[w] # h
    <3>1. op'[w] = op[w] /\ handle'[uses[w]] = handle[uses[w]]
      BY <1>4, <1>6, <2>1, <2>4
    <3> QED
      BY <1>1, <2>1, <3>1 DEF InHand, Measured, V!DimOf, V!Held
  <2> QED
    BY <2>2, <2>3, <2>4
<1>11. V!OneDimension'
  BY <1>1 DEF IndexInv, V!OneDimension
<1> QED
  BY <1>8, <1>9, <1>10, <1>11 DEF IndexInv

-----------------------------------------------------------------------------
(* Steps of the calls.                                                     *)
LEMMA OpMoves ==
  ASSUME IndexInv, NEW w \in Worker, NEW o \in IndexCall, op' = [op EXCEPT ![w] = o],
         UNCHANGED <<backend, config, uses, handle, table, stored>>,
         InHand(w)', Measured(w)'
  PROVE  IndexInv'
<1>1. op' \in [Worker -> IndexCall] /\ \A v \in Worker \ {w} : op'[v] = op[v]
  BY DEF IndexInv, IndexTyped
<1>2. ASSUME NEW v \in Worker \ {w} PROVE InHand(v)' /\ Measured(v)'
  BY <1>1 DEF IndexInv, InHand, Measured, V!DimOf, V!Held
<1>3. OneHandle' /\ V!OneDimension'
  BY DEF IndexInv, OneHandle, V!Held, V!OneDimension
<1> QED
  BY <1>1, <1>2, <1>3 DEF IndexInv, IndexTyped

(* A call begins with its adapter open.                                    *)
LEMMA CallBegins ==
  ASSUME IndexInv, NEW w \in Worker, NEW o \in IndexCall, V!Call(w, o),
         o.left \subseteq DOMAIN o.batch,
         \/ o.at = "check" /\ o.batch \in Batches /\ o.left = DOMAIN o.batch
         \/ o.at = "delete" /\ o.batch \in Removals
         \/ o.at = "scan"
  PROVE  IndexInv'
<1>1. op' = [op EXCEPT ![w] = o] /\ handle[uses[w]].at = "open"
      /\ UNCHANGED <<backend, config, uses, handle, table, stored>>
  BY DEF V!Call
<1>2. op'[w] = o
  BY <1>1 DEF IndexInv, IndexTyped
<1>3. InHand(w)'
  BY <1>1, <1>2 DEF InHand
<1>4. Measured(w)'
  BY <1>1, <1>2 DEF Measured
<1> QED
  BY <1>1, <1>3, <1>4, OpMoves

LEMMA CallsKeep ==
  ASSUME IndexInv, NEW w \in Worker,
         \/ \E x \in Id, v \in Vector : V!Upsert(w, x, v)
         \/ \E batch \in V!Batch : V!BatchUpsert(w, batch)
         \/ \E x \in Id : V!Delete(w, x)
         \/ \E d \in V!Dims : V!Search(w, d)
  PROVE  IndexInv'
<1>1. CASE \E x \in Id, v \in Vector : V!Upsert(w, x, v)
  <2>1. PICK x \in Id, v \in Vector : V!Upsert(w, x, v)
    BY <1>1
  <2> DEFINE batch == [y \in {x} |-> v]
             o == [V!NoOp EXCEPT !.at = "check", !.batch = batch, !.left = {x}]
  <2>2. batch \in Batches /\ DOMAIN batch = {x}
    <3>1. {x} \in (SUBSET Id) \ {{}} /\ batch \in [{x} -> Vector]
      OBVIOUS
    <3> QED
      BY <3>1 DEF Batches
  <2> HIDE DEF batch
  <2>3. o \in IndexCall /\ o.at = "check" /\ o.batch = batch /\ o.left = {x}
    BY <2>2 DEF V!NoOp, IndexCall, Dimension
  <2>4. V!Call(w, o)
    BY <2>1 DEF V!Upsert, batch
  <2> HIDE DEF o
  <2> QED
    BY <2>2, <2>3, <2>4, CallBegins
<1>2. CASE \E batch \in V!Batch : V!BatchUpsert(w, batch)
  <2>1. PICK batch \in V!Batch : V!BatchUpsert(w, batch)
    BY <1>2
  <2> DEFINE Large == {I \in SUBSET Id : \E x, y \in I : x # y}
  <2>2. PICK ids \in Large : batch \in [ids -> Vector]
    <3> HIDE DEF Large
    <3>1. V!Batch = UNION {[ids -> Vector] : ids \in Large}
      BY DEF V!Batch, Large
    <3> QED
      BY <3>1
  <2>3. ids # {}
    OBVIOUS
  <2>4. batch \in Batches /\ DOMAIN batch \subseteq Id
    BY <2>2, <2>3 DEF Batches
  <2> DEFINE o == [V!NoOp EXCEPT !.at = "check", !.batch = batch, !.left = DOMAIN batch]
  <2>5. o \in IndexCall /\ o.at = "check" /\ o.batch = batch /\ o.left = DOMAIN batch
    BY <2>4 DEF V!NoOp, IndexCall, Dimension
  <2>6. V!Call(w, o)
    BY <2>1 DEF V!BatchUpsert
  <2> HIDE DEF o
  <2> QED
    BY <2>4, <2>5, <2>6, CallBegins
<1>3. CASE \E x \in Id : V!Delete(w, x)
  <2>1. PICK x \in Id : V!Delete(w, x)
    BY <1>3
  <2> DEFINE batch == [y \in {x} |-> None]
             o == [V!NoOp EXCEPT !.at = "delete", !.batch = batch]
  <2>2. batch \in Removals
    BY DEF Removals
  <2> HIDE DEF batch
  <2>3. o \in IndexCall /\ o.at = "delete" /\ o.batch = batch /\ o.left = {}
    BY <2>2 DEF V!NoOp, IndexCall, Dimension
  <2>4. V!Call(w, o)
    BY <2>1 DEF V!Delete, batch
  <2> HIDE DEF o
  <2> QED
    BY <2>2, <2>3, <2>4, CallBegins
<1>4. CASE \E d \in V!Dims : V!Search(w, d)
  <2>1. PICK d \in V!Dims : V!Search(w, d)
    BY <1>4
  <2> DEFINE o == [V!NoOp EXCEPT !.at = "scan", !.query = d]
  <2>2. o \in IndexCall /\ o.at = "scan" /\ o.left = {}
    BY DEF V!NoOp, IndexCall, Dimension
  <2>3. V!Call(w, o)
    BY <2>1 DEF V!Search
  <2> HIDE DEF o
  <2> QED
    BY <2>2, <2>3, CallBegins
<1> QED
  BY <1>1, <1>2, <1>3, <1>4

(* A call goes on in another place with what it has.                       *)
LEMMA StepKeeps ==
  ASSUME IndexInv, NEW w \in Worker, NEW to \in {"set", "write", "done", "error"},
         V!Step(w, [op[w] EXCEPT !.at = to]),
         to \in {"set", "write"} => op[w].at = "check",
         to = "set" => backend = "sqlite",
         to = "write" => IF backend = "sqlite" THEN op[w].left = {}
                         ELSE \A x \in op[w].left : V!DimOf(w, x) = V!Held(w)
  PROVE  IndexInv'
<1> DEFINE o == [op[w] EXCEPT !.at = to]
<1>1. op' = [op EXCEPT ![w] = o] /\ UNCHANGED <<backend, config, uses, handle, table, stored>>
  BY DEF V!Step
<1>2. op[w] \in IndexCall /\ InHand(w) /\ Measured(w)
  BY DEF IndexInv, IndexTyped
<1>3. o \in IndexCall /\ o.at = to /\ o.batch = op[w].batch /\ o.left = op[w].left
  BY <1>2 DEF IndexCall
<1> HIDE DEF o
<1>4. op'[w] = o
  BY <1>1 DEF IndexInv, IndexTyped
<1>5. InHand(w)'
  BY <1>1, <1>2, <1>3, <1>4 DEF InHand
<1>6. Measured(w)'
  BY <1>1, <1>2, <1>3, <1>4 DEF Measured, V!DimOf, V!Held
<1> QED
  BY <1>1, <1>3, <1>5, <1>6, OpMoves

LEMMA ChecksKeep ==
  ASSUME IndexInv, NEW w \in Worker, V!CheckConfigured(w) \/ V!CheckDimension(w) \/ V!Scan(w) \/ V!OpFails(w)
  PROVE  IndexInv'
<1>1. CASE V!CheckConfigured(w)
  <2> DEFINE to == IF \A x \in op[w].left : V!DimOf(w, x) = V!Held(w) THEN "write" ELSE "error"
  <2>1. /\ op[w].at = "check" /\ backend # "sqlite" /\ V!Step(w, [op[w] EXCEPT !.at = to])
        /\ to \in {"write", "error"}
        /\ to = "write" => \A x \in op[w].left : V!DimOf(w, x) = V!Held(w)
    BY <1>1 DEF V!CheckConfigured
  <2> HIDE DEF to
  <2> QED
    BY <2>1, StepKeeps
<1>2. CASE V!CheckDimension(w)
  <2>1. op[w].at = "check" /\ backend = "sqlite"
    BY <1>2 DEF V!CheckDimension
  <2>2. CASE op[w].left = {} /\ V!Step(w, [op[w] EXCEPT !.at = "write"])
    BY <2>1, <2>2, StepKeeps
  <2>3. ASSUME NEW x \in op[w].left, V!Held(w) = V!DimOf(w, x), V!Step(w, [op[w] EXCEPT !.left = op[w].left \ {x}])
        PROVE  IndexInv'
    <3> DEFINE o == [op[w] EXCEPT !.left = op[w].left \ {x}]
    <3>1. op' = [op EXCEPT ![w] = o] /\ UNCHANGED <<backend, config, uses, handle, table, stored>>
      BY <2>3 DEF V!Step
    <3>2. op[w] \in IndexCall /\ InHand(w) /\ Measured(w) /\ V!Held(w) = table
      BY <2>1 DEF IndexInv, IndexTyped, OneHandle, InHand
    <3>3. o \in IndexCall /\ o.at = "check" /\ o.batch = op[w].batch /\ o.left = op[w].left \ {x}
      BY <2>1, <3>2 DEF IndexCall
    <3> HIDE DEF o
    <3>4. op'[w] = o
      BY <3>1 DEF IndexInv, IndexTyped
    <3>5. InHand(w)'
      BY <2>1, <3>1, <3>2, <3>3, <3>4 DEF InHand
    <3>6. Measured(w)'
      BY <2>1, <2>3, <3>1, <3>2, <3>3, <3>4 DEF Measured, V!DimOf
    <3> QED
      BY <3>1, <3>3, <3>5, <3>6, OpMoves
  <2>4. ASSUME NEW x \in op[w].left, V!Step(w, [op[w] EXCEPT !.at = IF V!Held(w) = 0 THEN "set" ELSE "error"])
        PROVE  IndexInv'
    <3> DEFINE to == IF V!Held(w) = 0 THEN "set" ELSE "error"
    <3>1. to \in {"set", "error"} /\ V!Step(w, [op[w] EXCEPT !.at = to])
      BY <2>4
    <3> HIDE DEF to
    <3> QED
      BY <2>1, <3>1, StepKeeps
  <2> QED
    BY <1>2, <2>2, <2>3, <2>4 DEF V!CheckDimension
<1>3. CASE V!Scan(w)
  BY <1>3, StepKeeps DEF V!Scan
<1>4. CASE V!OpFails(w)
  BY <1>4, StepKeeps DEF V!OpFails
<1> QED
  BY <1>1, <1>2, <1>3, <1>4

-----------------------------------------------------------------------------
(* Writes.                                                                 *)
LEMMA WritesKeep ==
  ASSUME V!IndexParameters, IndexInv, NEW w \in Worker, NEW t \in Dimension, V!Writes(w, t),
         op[w].at \in {"write", "delete"},
         op[w].at = "delete" => t = table,
         op[w].at = "write" => \A x \in DOMAIN op[w].batch : V!DimOf(w, x) = t,
         backend = "sqlite" => t = table,
         t = table \/ table = 0
  PROVE  IndexInv'
<1> DEFINE o == [op[w] EXCEPT !.at = "done"]
           batch == op[w].batch
<1>1. /\ stored' = [x \in Id |-> IF x \in DOMAIN batch THEN batch[x] ELSE stored[x]]
      /\ table' = t /\ op' = [op EXCEPT ![w] = o] /\ UNCHANGED <<backend, config, uses, handle>>
  BY DEF V!Writes
<1>2. op[w] \in IndexCall /\ InHand(w)
  BY DEF IndexInv, IndexTyped
<1>3. o \in IndexCall /\ o.at = "done" /\ o.batch = batch /\ o.left = op[w].left
  BY <1>2 DEF IndexCall
<1>4. \A x \in DOMAIN batch : IF op[w].at = "write" THEN batch[x] \in Vector ELSE batch[x] = None
  BY <1>2 DEF InHand, Batches, Removals
<1> HIDE DEF o, batch
<1>5. op' \in [Worker -> IndexCall] /\ op'[w] = o /\ \A v \in Worker \ {w} : op'[v] = op[v]
  BY <1>1, <1>3 DEF IndexInv, IndexTyped
<1>6. stored' \in [Id -> Vector \union {None}]
  BY <1>1, <1>4 DEF IndexInv, IndexTyped
<1>7. IndexTyped'
  BY <1>1, <1>5, <1>6 DEF IndexInv, IndexTyped
<1>8. OneHandle'
  BY <1>1 DEF IndexInv, OneHandle, V!Held
<1>9. ASSUME NEW v \in Worker PROVE InHand(v)' /\ Measured(v)'
  <2>1. CASE v = w
    BY <1>1, <1>2, <1>3, <1>5, <2>1 DEF InHand, Measured, batch
  <2>2. CASE v # w
    <3>1. op'[v] = op[v] /\ InHand(v) /\ Measured(v) /\ (backend = "sqlite" => table' = table)
      BY <1>1, <1>5, <2>2 DEF IndexInv
    <3> QED
      BY <1>1, <3>1 DEF InHand, Measured, V!DimOf, V!Held
  <2> QED
    BY <2>1, <2>2
<1>10. V!OneDimension'
  <2> SUFFICES ASSUME NEW x \in Id, stored'[x] # None PROVE Dim[stored'[x]] = t
    BY <1>1 DEF V!OneDimension
  <2>1. CASE x \in DOMAIN batch
    BY <1>1, <1>4, <2>1 DEF V!DimOf, batch
  <2>2. CASE x \notin DOMAIN batch
    BY <1>1, <2>2, NoneStored DEF IndexInv, V!OneDimension
  <2> QED
    BY <2>1, <2>2
<1> QED
  BY <1>7, <1>8, <1>9, <1>10 DEF IndexInv

LEMMA WritingKeeps ==
  ASSUME V!IndexParameters, IndexInv, NEW w \in Worker,
         V!SqliteWrite(w) \/ V!PgvectorWrite(w) \/ V!QdrantWrite(w) \/ V!ChromaWrite(w) \/ V!Remove(w)
  PROVE  IndexInv'
<1>1. table \in Dimension /\ V!Held(w) \in Dimension /\ InHand(w) /\ Measured(w)
  BY DEF IndexInv, IndexTyped, V!Held
<1>2. CASE V!SqliteWrite(w)
  BY <1>1, <1>2, WritesKeep DEF V!SqliteWrite, Measured
<1>3. CASE V!PgvectorWrite(w)
  BY <1>1, <1>3, WritesKeep DEF V!PgvectorWrite
<1>4. CASE V!QdrantWrite(w)
  BY <1>1, <1>4, WritesKeep DEF V!QdrantWrite
<1>5. CASE V!ChromaWrite(w)
  <2>1. /\ op[w].at = "write" /\ backend = "chroma" /\ V!Writes(w, V!Held(w))
        /\ \A x \in DOMAIN op[w].batch : V!DimOf(w, x) = (IF table = 0 THEN V!Held(w) ELSE table)
    BY <1>5 DEF V!ChromaWrite
  <2>2. \A x \in DOMAIN op[w].batch : V!DimOf(w, x) = V!Held(w)
    BY <1>1, <2>1 DEF Measured
  <2>3. \E x \in DOMAIN op[w].batch : TRUE
    BY <1>1, <2>1 DEF InHand, Batches
  <2> HIDE DEF IndexInv
  <2> QED
    BY <1>1, <2>1, <2>2, <2>3, WritesKeep
<1>6. CASE V!Remove(w)
  BY <1>1, <1>6, WritesKeep DEF V!Remove
<1> QED
  BY <1>2, <1>3, <1>4, <1>5, <1>6

(* The dimension of an empty index is set once: whoever comes second looks *)
(* again.                                                                  *)
LEMMA SetKeeps ==
  ASSUME V!IndexParameters, IndexInv, NEW w \in Worker, V!SetDimension(w)
  PROVE  IndexInv'
<1> DEFINE o == [op[w] EXCEPT !.at = "check"]
           h == uses[w]
<1>1. op[w].at = "set" /\ op' = [op EXCEPT ![w] = o] /\ UNCHANGED <<backend, config, uses, stored>>
  BY DEF V!SetDimension
<1>2. op[w] \in IndexCall /\ InHand(w) /\ Measured(w) /\ h \in Handle
  BY DEF IndexInv, IndexTyped
<1>3. backend = "sqlite" /\ V!Held(w) = table /\ op[w].batch \in Batches /\ \A v \in Worker : uses[v] = h
  BY <1>1, <1>2 DEF IndexInv, OneHandle, InHand, Measured
<1>4. o \in IndexCall /\ o.at = "check" /\ o.batch = op[w].batch /\ o.left = op[w].left
  BY <1>2 DEF IndexCall
<1> HIDE DEF o
<1>5. op' \in [Worker -> IndexCall] /\ op'[w] = o /\ \A v \in Worker \ {w} : op'[v] = op[v]
  BY <1>1, <1>4 DEF IndexInv, IndexTyped
<1>6. CASE V!Held(w) # 0
  <2>1. UNCHANGED <<handle, table>>
    BY <1>6 DEF V!SetDimension
  <2>2. InHand(w)' /\ Measured(w)'
    BY <1>1, <1>2, <1>3, <1>4, <1>5, <2>1 DEF InHand, Measured, V!DimOf
  <2> QED
    BY <1>1, <1>4, <2>1, <2>2, OpMoves
<1>7. CASE V!Held(w) = 0
  <2>1. PICK x \in op[w].left : table' = V!DimOf(w, x) /\ handle' = [handle EXCEPT ![h].dim = V!DimOf(w, x)]
    BY <1>7 DEF V!SetDimension
  <2> DEFINE d == V!DimOf(w, x)
             h2 == [handle[h] EXCEPT !.dim = d]
  <2>2. d \in Dimension /\ d # 0
    BY <1>2, <1>3, <2>1 DEF V!IndexParameters, InHand, Batches, Dimension, V!Dims, V!DimOf
  <2>3. h2 \in [at : {"closed", "create", "open"}, dim : Dimension] /\ h2.at = handle[h].at /\ h2.dim = d
    BY <1>2, <2>2 DEF IndexInv, IndexTyped
  <2>4. handle' = [handle EXCEPT ![h] = h2] /\ table' = d
    BY <2>1
  <2> HIDE DEF d, h2
  <2>5. /\ handle' \in [Handle -> [at : {"closed", "create", "open"}, dim : Dimension]]
        /\ handle'[h] = h2 /\ \A g \in Handle : handle'[g].at = handle[g].at
    BY <1>2, <2>3, <2>4 DEF IndexInv, IndexTyped
  <2>6. IndexTyped'
    BY <1>1, <1>5, <2>2, <2>4, <2>5 DEF IndexInv, IndexTyped
  <2>7. OneHandle'
    BY <1>1, <1>3, <2>3, <2>4, <2>5 DEF IndexInv, OneHandle, V!Held
  <2>8. \A y \in Id : stored'[y] = None
    BY <1>1, <1>3, <1>7, NoneStored
  <2>9. ASSUME NEW v \in Worker PROVE InHand(v)' /\ Measured(v)'
    <3>1. InHand(v) /\ Measured(v) /\ op'[v].batch = op[v].batch /\ op'[v].left = op[v].left
          /\ (op'[v].at = op[v].at \/ (op'[v].at = "check" /\ op[v].at = "set"))
      BY <1>1, <1>4, <1>5 DEF IndexInv
    <3>2. InHand(v)'
      BY <1>1, <1>2, <1>3, <2>5, <3>1 DEF InHand
    <3>3. op[v].at \in {"check", "set", "write"} => DOMAIN op[v].batch \ op[v].left = {}
      <4> SUFFICES ASSUME op[v].at \in {"check", "set", "write"}, NEW y \in DOMAIN op[v].batch \ op[v].left PROVE FALSE
        OBVIOUS
      <4>1. V!DimOf(v, y) = 0 /\ op[v].batch[y] \in Vector
        BY <1>3, <1>7, <3>1 DEF Measured, InHand, Batches
      <4> QED
        BY <4>1 DEF V!DimOf, V!IndexParameters
    <3>4. Measured(v)'
      BY <1>1, <1>3, <3>1, <3>3 DEF Measured
    <3> QED
      BY <3>2, <3>4
  <2> QED
    BY <2>6, <2>7, <2>8, <2>9 DEF IndexInv, V!OneDimension
<1> QED
  BY <1>6, <1>7

-----------------------------------------------------------------------------
LEMMA IndexInitHolds ==
  ASSUME V!IndexInit
  PROVE  IndexInv
<1>1. V!NoOp \in IndexCall /\ V!NoOp.at = "idle" /\ V!NoOp.left = {}
  BY DEF V!NoOp, IndexCall, Dimension
<1> QED
  BY <1>1 DEF V!IndexInit, IndexInv, IndexTyped, OneHandle, InHand, Measured, V!OneDimension, V!Held, Dimension

LEMMA IndexNextKeeps ==
  ASSUME V!IndexParameters, IndexInv, [V!IndexNext]_(V!indexVars)
  PROVE  IndexInv'
<1>1. CASE UNCHANGED V!indexVars
  BY <1>1 DEF V!indexVars, IndexInv, IndexTyped, OneHandle, InHand, Measured, V!OneDimension, V!Held, V!DimOf
<1> QED
  BY <1>1, HandlesKeep, CreateKeeps, CloseKeeps, CallsKeep, ChecksKeep, SetKeeps, WritingKeeps DEF V!IndexNext

(* Every adapter measures before it writes, whatever else is under way.    *)
THEOREM IndexInvariance ==
  ASSUME V!IndexParameters
  PROVE  V!IndexSpec => []IndexInv
<1>1. V!IndexInit => IndexInv
  BY IndexInitHolds
<1>2. IndexInv /\ [V!IndexNext]_(V!indexVars) => IndexInv'
  BY IndexNextKeeps
<1> QED
  BY <1>1, <1>2, PTL DEF V!IndexSpec

-----------------------------------------------------------------------------
(* The abstract specification: what the calls that are open have asked     *)
(* for, and the step of the map that a step of the adapters is.            *)
Asks(o) == IF o.at \in {"check", "set", "write", "delete"} THEN o.batch ELSE <<>>
Asked == [w \in Worker |-> Asks(op[w])]

MapStep == [V!VS!Next]_(V!VS!vars)

LEMMA StoresNothing ==
  ASSUME UNCHANGED stored, UNCHANGED Asked
  PROVE  MapStep
BY DEF MapStep, V!VS!vars, Asked, Asks

LEMMA AsksFor ==
  ASSUME NEW w \in Worker, NEW change \in V!VS!Changes, Asked[w] = <<>>,
         Asked' = [Asked EXCEPT ![w] = change], UNCHANGED stored
  PROVE  MapStep
<1>1. V!VS!Ask(w, change)
  BY DEF V!VS!Ask, Asked, Asks
<1> QED
  BY <1>1 DEF MapStep, V!VS!Next

LEMMA WritesAll ==
  ASSUME NEW w \in Worker, Asked' = [Asked EXCEPT ![w] = <<>>],
         stored' = [x \in Id |-> IF x \in DOMAIN Asked[w] THEN Asked[w][x] ELSE stored[x]]
  PROVE  MapStep
<1>1. V!VS!Write(w)
  BY DEF V!VS!Write, Asked, Asks
<1> QED
  BY <1>1 DEF MapStep, V!VS!Next

LEMMA RefusesSome ==
  ASSUME NEW ws \in SUBSET Worker, Asked' = [w \in Worker |-> IF w \in ws THEN <<>> ELSE Asked[w]],
         UNCHANGED stored
  PROVE  MapStep
<1>1. V!VS!Refuse(ws)
  BY DEF V!VS!Refuse, Asked, Asks
<1> QED
  BY <1>1 DEF MapStep, V!VS!Next

LEMMA OneAsks ==
  ASSUME IndexInv, NEW w \in Worker, NEW o, op' = [op EXCEPT ![w] = o]
  PROVE  Asked' = [Asked EXCEPT ![w] = Asks(o)]
BY DEF IndexInv, IndexTyped, Asked

(* A call goes on, and has asked for what it had, or for nothing any more. *)
LEMMA OneGoesOn ==
  ASSUME IndexInv, NEW w \in Worker, NEW o, op' = [op EXCEPT ![w] = o], UNCHANGED stored,
         Asks(o) = Asks(op[w]) \/ Asks(o) = <<>>
  PROVE  MapStep
<1>1. Asked' = [Asked EXCEPT ![w] = Asks(o)]
  BY OneAsks
<1>2. CASE Asks(o) = Asks(op[w])
  <2>1. Asked' = Asked
    BY <1>1, <1>2 DEF Asked
  <2> QED
    BY <2>1, StoresNothing
<1>3. CASE Asks(o) = <<>>
  <2>1. Asked' = [v \in Worker |-> IF v \in {w} THEN <<>> ELSE Asked[v]]
    BY <1>1, <1>3 DEF Asked
  <2> QED
    BY <2>1, RefusesSome
<1> QED
  BY <1>2, <1>3

LEMMA OneBegins ==
  ASSUME IndexInv, NEW w \in Worker, NEW o, V!Call(w, o), Asks(o) \in V!VS!Changes \/ Asks(o) = <<>>
  PROVE  MapStep
<1>1. op' = [op EXCEPT ![w] = o] /\ UNCHANGED stored /\ Asks(op[w]) = <<>>
  BY DEF V!Call, Asks
<1>2. Asked' = [Asked EXCEPT ![w] = Asks(o)] /\ Asked[w] = <<>>
  BY <1>1, OneAsks DEF Asked
<1>3. CASE Asks(o) \in V!VS!Changes
  BY <1>1, <1>2, <1>3, AsksFor
<1> QED
  BY <1>1, <1>3, OneGoesOn

LEMMA BeginningsMap ==
  ASSUME IndexInv, NEW w \in Worker,
         \/ \E x \in Id, v \in Vector : V!Upsert(w, x, v)
         \/ \E batch \in V!Batch : V!BatchUpsert(w, batch)
         \/ \E x \in Id : V!Delete(w, x)
         \/ \E d \in V!Dims : V!Search(w, d)
  PROVE  MapStep
<1>1. ASSUME NEW ids \in SUBSET Id, NEW batch \in [ids -> Vector] PROVE batch \in V!VS!Changes
  BY <1>1 DEF V!VS!Changes
<1>2. ASSUME NEW to \in {"check", "delete"}, NEW batch \in V!VS!Changes, NEW left,
             V!Call(w, [V!NoOp EXCEPT !.at = to, !.batch = batch, !.left = left])
      PROVE  MapStep
  <2> DEFINE o == [V!NoOp EXCEPT !.at = to, !.batch = batch, !.left = left]
  <2>1. Asks(o) = batch
    BY DEF Asks, V!NoOp
  <2> HIDE DEF o
  <2> QED
    BY <1>2, <2>1, OneBegins DEF o
<1>3. CASE \E x \in Id, v \in Vector : V!Upsert(w, x, v)
  <2>1. PICK x \in Id, v \in Vector : V!Upsert(w, x, v)
    BY <1>3
  <2> DEFINE batch == [y \in {x} |-> v]
  <2>2. {x} \in SUBSET Id /\ batch \in [{x} -> Vector]
    OBVIOUS
  <2>3. batch \in V!VS!Changes
    <3> HIDE DEF batch
    <3> QED
      BY <1>1, <2>2
  <2>4. V!Call(w, [V!NoOp EXCEPT !.at = "check", !.batch = batch, !.left = {x}])
    BY <2>1 DEF V!Upsert
  <2> HIDE DEF batch
  <2> QED
    BY <1>2, <2>3, <2>4
<1>4. CASE \E batch \in V!Batch : V!BatchUpsert(w, batch)
  <2>1. PICK batch \in V!Batch : V!BatchUpsert(w, batch)
    BY <1>4
  <2> DEFINE Large == {I \in SUBSET Id : \E x, y \in I : x # y}
  <2>2. PICK ids \in Large : batch \in [ids -> Vector]
    <3> HIDE DEF Large
    <3>1. V!Batch = UNION {[ids -> Vector] : ids \in Large}
      BY DEF V!Batch, Large
    <3> QED
      BY <3>1
  <2>3. batch \in V!VS!Changes
    BY <1>1, <2>2
  <2> QED
    BY <1>2, <2>1, <2>3 DEF V!BatchUpsert
<1>5. CASE \E x \in Id : V!Delete(w, x)
  <2>1. PICK x \in Id : V!Delete(w, x)
    BY <1>5
  <2> DEFINE batch == [y \in {x} |-> None]
             o == [V!NoOp EXCEPT !.at = "delete", !.batch = batch]
  <2>2. batch \in V!VS!Changes
    BY DEF V!VS!Changes
  <2> HIDE DEF batch
  <2>3. Asks(o) = batch
    BY DEF Asks, V!NoOp
  <2>4. V!Call(w, o)
    BY <2>1 DEF V!Delete, batch
  <2> HIDE DEF o
  <2> QED
    BY <2>2, <2>3, <2>4, OneBegins
<1>6. CASE \E d \in V!Dims : V!Search(w, d)
  <2>1. PICK d \in V!Dims : V!Search(w, d)
    BY <1>6
  <2> DEFINE o == [V!NoOp EXCEPT !.at = "scan", !.query = d]
  <2>2. Asks(o) = <<>>
    BY DEF Asks, V!NoOp
  <2>3. V!Call(w, o)
    BY <2>1 DEF V!Search
  <2> HIDE DEF o
  <2> QED
    BY <2>2, <2>3, OneBegins
<1> QED
  BY <1>3, <1>4, <1>5, <1>6

LEMMA GoingOnMaps ==
  ASSUME IndexInv, NEW w \in Worker,
         V!CheckConfigured(w) \/ V!CheckDimension(w) \/ V!SetDimension(w) \/ V!Scan(w) \/ V!OpFails(w)
  PROVE  MapStep
<1>1. op[w] \in IndexCall
  BY DEF IndexInv, IndexTyped
<1>2. ASSUME NEW to \in {"set", "write", "check", "done", "error"}, op' = [op EXCEPT ![w] = [op[w] EXCEPT !.at = to]],
             UNCHANGED stored, to \in {"done", "error"} \/ op[w].at \in {"check", "set"}
      PROVE  MapStep
  <2> DEFINE o == [op[w] EXCEPT !.at = to]
  <2>1. o.at = to /\ o.batch = op[w].batch
    BY <1>1 DEF IndexCall
  <2> HIDE DEF o
  <2>2. Asks(o) = Asks(op[w]) \/ Asks(o) = <<>>
    BY <1>2, <2>1 DEF Asks
  <2> QED
    BY <1>2, <2>2, OneGoesOn DEF o
<1>3. CASE V!CheckConfigured(w)
  <2> DEFINE to == IF \A x \in op[w].left : V!DimOf(w, x) = V!Held(w) THEN "write" ELSE "error"
  <2>1. to \in {"write", "error"} /\ op[w].at = "check" /\ op' = [op EXCEPT ![w] = [op[w] EXCEPT !.at = to]] /\ UNCHANGED stored
    BY <1>3 DEF V!CheckConfigured, V!Step
  <2> HIDE DEF to
  <2> QED
    BY <1>2, <2>1
<1>4. CASE V!CheckDimension(w)
  <2>1. op[w].at = "check" /\ UNCHANGED stored
    BY <1>4 DEF V!CheckDimension, V!Step
  <2>2. CASE op' = [op EXCEPT ![w] = [op[w] EXCEPT !.at = "write"]]
    BY <1>2, <2>1, <2>2
  <2>3. ASSUME NEW left, op' = [op EXCEPT ![w] = [op[w] EXCEPT !.left = left]] PROVE MapStep
    <3> DEFINE o == [op[w] EXCEPT !.left = left]
    <3>1. o.at = op[w].at /\ o.batch = op[w].batch
      BY <1>1 DEF IndexCall
    <3> HIDE DEF o
    <3>2. Asks(o) = Asks(op[w])
      BY <3>1 DEF Asks
    <3> QED
      BY <2>1, <2>3, <3>2, OneGoesOn DEF o
  <2>4. CASE \E x \in op[w].left : op' = [op EXCEPT ![w] = [op[w] EXCEPT !.at = IF V!Held(w) = 0 THEN "set" ELSE "error"]]
    <3> DEFINE to == IF V!Held(w) = 0 THEN "set" ELSE "error"
    <3>1. to \in {"set", "error"} /\ op' = [op EXCEPT ![w] = [op[w] EXCEPT !.at = to]]
      BY <2>4
    <3> HIDE DEF to
    <3> QED
      BY <1>2, <2>1, <3>1
  <2> QED
    BY <1>4, <2>2, <2>3, <2>4 DEF V!CheckDimension, V!Step
<1>5. CASE V!SetDimension(w)
  BY <1>2, <1>5 DEF V!SetDimension
<1>6. CASE V!Scan(w)
  BY <1>2, <1>6 DEF V!Scan, V!Step
<1>7. CASE V!OpFails(w)
  BY <1>2, <1>7 DEF V!OpFails, V!Step
<1> QED
  BY <1>3, <1>4, <1>5, <1>6, <1>7

LEMMA WritesMap ==
  ASSUME IndexInv, NEW w \in Worker, NEW t, V!Writes(w, t), op[w].at \in {"write", "delete"}
  PROVE  MapStep
<1> DEFINE o == [op[w] EXCEPT !.at = "done"]
<1>1. op[w] \in IndexCall
  BY DEF IndexInv, IndexTyped
<1>2. op' = [op EXCEPT ![w] = o] /\ Asked[w] = op[w].batch
  BY DEF V!Writes, Asked, Asks
<1>3. Asks(o) = <<>>
  BY <1>1 DEF Asks, IndexCall
<1> HIDE DEF o
<1>4. Asked' = [Asked EXCEPT ![w] = <<>>]
  BY <1>2, <1>3, OneAsks
<1> QED
  BY <1>2, <1>4, WritesAll DEF V!Writes

LEMMA CloseMaps ==
  ASSUME IndexInv, NEW h \in Handle, V!Close(h)
  PROVE  MapStep
<1> DEFINE ws == {w \in Worker : uses[w] = h /\ op[w] # V!NoOp}
           failed == [V!NoOp EXCEPT !.at = "error"]
<1>1. op' = [w \in Worker |-> IF w \in ws THEN failed ELSE op[w]] /\ UNCHANGED stored
  BY DEF V!Close
<1>2. Asks(failed) = <<>>
  BY DEF Asks, V!NoOp
<1> HIDE DEF failed
<1>3. Asked' = [w \in Worker |-> IF w \in ws THEN <<>> ELSE Asked[w]]
  BY <1>1, <1>2 DEF Asked
<1> QED
  BY <1>1, <1>3, RefusesSome

LEMMA HandlesMap ==
  ASSUME NEW h \in Handle,
         \/ V!SqliteInit(h) \/ V!PgvectorInit(h) \/ V!QdrantInit(h) \/ V!ChromaInit(h)
         \/ V!CreateCollection(h)
  PROVE  MapStep
<1>1. UNCHANGED <<stored, op>>
  BY DEF V!SqliteInit, V!PgvectorInit, V!QdrantInit, V!ChromaInit, V!Opens, V!CreateCollection
<1> QED
  BY <1>1, StoresNothing DEF Asked

(* Whichever the backend and whatever fails or is closed, every step of an *)
(* adapter is one step of the map of adapter.go, or none.                  *)
LEMMA IndexStepMaps ==
  ASSUME IndexInv, [V!IndexNext]_(V!indexVars)
  PROVE  MapStep
<1>1. CASE UNCHANGED V!indexVars
  BY <1>1, StoresNothing DEF V!indexVars, Asked
<1>2. ASSUME NEW w \in Worker,
             V!SqliteWrite(w) \/ V!PgvectorWrite(w) \/ V!QdrantWrite(w) \/ V!ChromaWrite(w) \/ V!Remove(w)
      PROVE  MapStep
  BY <1>2, WritesMap DEF V!SqliteWrite, V!PgvectorWrite, V!QdrantWrite, V!ChromaWrite, V!Remove
<1> QED
  BY <1>1, <1>2, HandlesMap, CloseMaps, BeginningsMap, GoingOnMaps DEF V!IndexNext

(* Each adapter is the map of adapter.go, for any vectors and ids.         *)
THEOREM AdaptersImplementStore ==
  ASSUME V!IndexParameters
  PROVE  V!IndexSpec => V!ImplementsStore
<1>1. V!IndexInit => V!VS!Init
  BY DEF V!IndexInit, V!VS!Init, V!NoOp
<1>2. IndexInv /\ [V!IndexNext]_(V!indexVars) => [V!VS!Next]_(V!VS!vars)
  BY IndexStepMaps DEF MapStep
<1> QED
  BY <1>1, <1>2, IndexInvariance, PTL DEF V!IndexSpec, V!ImplementsStore, V!VS!Spec
-----------------------------------------------------------------------------
(***************************************************************************)
(* The memory layer.  Whoever is between two statements that belong        *)
(* together holds the mutex, so what it has read is still so: the entity   *)
(* an alias points at, and what is linked to the entry of a delete.  An    *)
(* address points at the entity that has it, and only the links of the row *)
(* that a call is about to count differ from its count.  What is linked to *)
(* a row has widened its bracket before, and brackets never shrink.        *)
(***************************************************************************)
LayerStep == {"idle", "done", "find", "write", "link", "count", "thread", "linkThread", "countThread",
              "linked", "unlink", "unlinkThread", "recount"}
Locking == {"write", "count", "thread", "countThread", "unlink", "unlinkThread", "recount"}
Deriving == {"find", "write", "link", "count", "thread", "linkThread", "countThread"}
Removing == {"linked", "unlink", "unlinkThread", "recount"}

EntityRow == [aliases : SUBSET L!Alias, first : Nat, last : Nat, count : Nat]
ThreadRow == [first : Nat, last : Nat, count : Nat]
LinkRow == [entity : Nat, entry : L!Entry, role : Nat, date : Nat \union {None}]
ThreadLink == [thread : L!Conversation, entry : L!Entry, date : Nat \union {None}]
Groups == ({"entity"} \X Nat) \union ({"thread"} \X L!Conversation)
LayerCall == [at : LayerStep, letter : Letter \union {None}, who : Nat, id : Nat,
              entry : L!Entry \union {None}, ids : SUBSET Groups, ok : BOOLEAN]

LayerTyped ==
  /\ index \in [L!Entry -> Letter \union {None}]
  /\ entities \in Seq(EntityRow)
  /\ owner \in [L!Alias -> 0 .. Len(entities)]
  /\ links \subseteq LinkRow /\ IsFiniteSet(links)
  /\ threads \in [L!Conversation -> ThreadRow \union {None}]
  /\ threadLinks \subseteq ThreadLink /\ IsFiniteSet(threadLinks)
  /\ mu \in [{"daemon"} -> Worker \union {None}]
  /\ call \in [Worker -> LayerCall]

(* A group is a row with a count: a person or a conversation.              *)
There(g) == IF g[1] = "entity" THEN g[2] \in DOMAIN entities ELSE threads[g[2]] # None

Dated(row, date) == date # None => date \in row.first .. row.last

InDerivation(w) ==
  LET c == call[w] IN
  /\ c.at \in Deriving => c.letter \in Letter /\ c.entry = c.letter.entry
  /\ c.at = "write" => c.who \in DOMAIN c.letter.people /\ c.id = L!FindAlias(w)
  /\ c.at \in {"link", "count"} => c.id \in DOMAIN entities
  /\ c.at = "link" => Dated(entities[c.id], c.letter.date)
  /\ c.at \in {"thread", "linkThread", "countThread"} => c.letter.conversation # None
  /\ c.at \in {"linkThread", "countThread"} => threads[c.letter.conversation] # None
  /\ c.at = "linkThread" => Dated(threads[c.letter.conversation], c.letter.date)

InRemoval(w) ==
  LET c == call[w] IN
  /\ c.at \in Removing => c.entry \in L!Entry
  /\ c.at \in {"unlink", "unlinkThread", "recount"} => \A g \in c.ids : There(g)
  /\ c.at = "unlink" => L!LinkedTo(c.entry) \subseteq c.ids
  /\ c.at = "unlinkThread" => \A l \in threadLinks : l.entry = c.entry => <<"thread", l.thread>> \in c.ids

InLayer(w) ==
  /\ call[w].at \in Locking => mu["daemon"] = w
  /\ InDerivation(w)
  /\ InRemoval(w)

Unsettled == torn \union (UNION {L!Counting(w) : w \in Worker})

EmailsOwned ==
  \A i \in DOMAIN entities : \A a \in entities[i].aliases : a[1] = "email" => owner[a] = i

EntitiesCounted ==
  \A i \in DOMAIN entities :
    <<"entity", i>> \notin Unsettled => entities[i].count = Cardinality(L!EntriesOf(i))

ThreadsCounted ==
  \A c \in L!Conversation :
    threads[c] # None /\ <<"thread", c>> \notin Unsettled => threads[c].count = Cardinality(L!InThread(c))

PeopleKept ==
  /\ EmailsOwned /\ EntitiesCounted
  /\ \A l \in links : l.entity \in DOMAIN entities /\ Dated(entities[l.entity], l.date)

ThreadsKept ==
  /\ ThreadsCounted
  /\ \A l \in threadLinks : threads[l.thread] # None /\ Dated(threads[l.thread], l.date)

LayerInv == LayerTyped /\ PeopleKept /\ ThreadsKept /\ \A w \in Worker : InLayer(w)


LEMMA SameCount == \A x : L!Cardinality(x) = Cardinality(x)
BY DEF L!Cardinality, Cardinality
Counted(c) ==
  IF c.at = "count" THEN {<<"entity", c.id>>}
  ELSE IF c.at = "countThread" THEN {<<"thread", c.letter.conversation>>}
  ELSE IF c.at \in {"unlink", "unlinkThread", "recount"} THEN c.ids ELSE {}

LEMMA CountingIs ==
  ASSUME NEW w \in Worker
  PROVE  L!Counting(w) = Counted(call[w]) /\ L!Counting(w)' = Counted(call[w])'
BY DEF L!Counting, Counted, L!Thread

LEMMA MutexIs ==
  ASSUME LayerTyped, NEW w \in Worker
  PROVE  /\ L!Lock(w) => mu["daemon"] = None /\ mu'["daemon"] = w /\ mu' \in [{"daemon"} -> Worker \union {None}]
         /\ L!Unlock(w) => mu'["daemon"] = None /\ mu' \in [{"daemon"} -> Worker \union {None}]
         /\ L!Locked(w) <=> mu["daemon"] = w
<1>1. [v \in Worker |-> "daemon"][w] = "daemon"
  OBVIOUS
<1>2. mu \in [{"daemon"} -> Worker \union {None}]
  BY DEF LayerTyped
<1> QED
  BY <1>1, <1>2 DEF L!Lock, L!Unlock, L!Locked

LEMMA CallMoves ==
  ASSUME LayerTyped, NEW w \in Worker, NEW c \in LayerCall, call' = [call EXCEPT ![w] = c]
  PROVE  /\ call' \in [Worker -> LayerCall] /\ call'[w] = c
         /\ \A v \in Worker \ {w} : call'[v] = call[v]
BY DEF LayerTyped

LEMMA CallGoes ==
  ASSUME LayerTyped, NEW w \in Worker, NEW to \in LayerStep, L!Goes(w, to)
  PROVE  \E c \in LayerCall : /\ call' = [call EXCEPT ![w] = c]
                              /\ c.at = to /\ c.letter = call[w].letter /\ c.who = call[w].who
                              /\ c.id = call[w].id /\ c.entry = call[w].entry /\ c.ids = call[w].ids
<1> DEFINE c == [call[w] EXCEPT !.at = to]
<1>1. call[w] \in LayerCall
  BY DEF LayerTyped
<1>2. /\ c \in LayerCall /\ c.at = to /\ c.letter = call[w].letter /\ c.who = call[w].who
      /\ c.id = call[w].id /\ c.entry = call[w].entry /\ c.ids = call[w].ids
  BY <1>1 DEF LayerCall
<1>3. call' = [call EXCEPT ![w] = c]
  BY DEF L!Goes
<1> HIDE DEF c
<1> QED
  BY <1>2, <1>3

(* What is counted is finite.                                              *)
LEMMA CountsAreNumbers ==
  ASSUME LayerTyped
  PROVE  /\ \A i : Cardinality(L!EntriesOf(i)) \in Nat
         /\ \A c : Cardinality(L!InThread(c)) \in Nat
<1>1. ASSUME NEW i PROVE Cardinality(L!EntriesOf(i)) \in Nat
  <2> DEFINE linked == {k \in links : k.entity = i}
             f == [l \in linked |-> l.entry]
  <2>1. IsFiniteSet(linked)
    BY FS_Subset DEF LayerTyped
  <2>2. f \in Surjection(linked, L!EntriesOf(i))
    BY DEF Surjection, L!EntriesOf
  <2> HIDE DEF linked, f
  <2>3. IsFiniteSet(L!EntriesOf(i))
    BY <2>1, <2>2, FS_Surjection
  <2> QED
    BY <2>3, FS_CardinalityType
<1>2. ASSUME NEW c PROVE Cardinality(L!InThread(c)) \in Nat
  <2>1. IsFiniteSet(L!InThread(c))
    BY FS_Subset DEF LayerTyped, L!InThread
  <2> QED
    BY <2>1, FS_CardinalityType
<1> QED
  BY <1>1, <1>2

(* A row that is counted keeps everything else.                            *)
LEMMA EntityCounted ==
  ASSUME LayerTyped, NEW i \in DOMAIN entities, NEW n \in Nat, entities' = [entities EXCEPT ![i].count = n]
  PROVE  /\ entities' \in Seq(EntityRow) /\ Len(entities') = Len(entities) /\ DOMAIN entities' = DOMAIN entities
         /\ \A j \in DOMAIN entities :
              /\ entities'[j].aliases = entities[j].aliases
              /\ entities'[j].first = entities[j].first /\ entities'[j].last = entities[j].last
              /\ entities'[j].count = IF j = i THEN n ELSE entities[j].count
<1> DEFINE r == [entities[i] EXCEPT !.count = n]
<1>1. entities \in Seq(EntityRow) /\ entities[i] \in EntityRow
  BY DEF LayerTyped
<1>2. /\ r \in EntityRow /\ r.aliases = entities[i].aliases /\ r.first = entities[i].first
      /\ r.last = entities[i].last /\ r.count = n
  BY <1>1 DEF EntityRow
<1>3. entities' = [entities EXCEPT ![i] = r]
  OBVIOUS
<1> HIDE DEF r
<1> QED
  BY <1>1, <1>2, <1>3

LEMMA ThreadCounted ==
  ASSUME LayerTyped, L!LayerParameters, NEW c \in L!Conversation, threads[c] # None, NEW n \in Nat,
         threads' = [threads EXCEPT ![c].count = n]
  PROVE  /\ threads' \in [L!Conversation -> ThreadRow \union {None}]
         /\ \A d \in L!Conversation \ {c} : threads'[d] = threads[d]
         /\ threads'[c] # None /\ threads'[c].first = threads[c].first /\ threads'[c].last = threads[c].last
         /\ threads'[c].count = n
<1> DEFINE r == [threads[c] EXCEPT !.count = n]
<1>1. threads \in [L!Conversation -> ThreadRow \union {None}] /\ threads[c] \in ThreadRow
  BY DEF LayerTyped
<1>2. r \in ThreadRow /\ r.first = threads[c].first /\ r.last = threads[c].last /\ r.count = n
  BY <1>1 DEF ThreadRow
<1>3. threads' = [threads EXCEPT ![c] = r]
  OBVIOUS
<1>4. None \notin ThreadRow
  BY DEF L!LayerParameters, ThreadRow
<1> HIDE DEF r
<1> QED
  BY <1>1, <1>2, <1>3, <1>4

-----------------------------------------------------------------------------
(* Rows are only added, and their brackets only widened.                   *)
Wider ==
  /\ \A i \in DOMAIN entities : /\ i \in DOMAIN entities'
                                /\ \A d \in Nat \union {None} : Dated(entities[i], d) => Dated(entities'[i], d)
  /\ \A c \in L!Conversation : threads[c] # None =>
       /\ threads'[c] # None
       /\ \A d \in Nat \union {None} : Dated(threads[c], d) => Dated(threads'[c], d)

LEMMA NotNarrower ==
  ASSUME UNCHANGED <<entities, threads>>
  PROVE  Wider
BY DEF Wider

(* A call that does not move keeps what it has in hand while no one, or    *)
(* the one that moves, has the mutex.                                      *)
LEMMA CallStays ==
  ASSUME L!LayerParameters, LayerInv, NEW w \in Worker, NEW v \in Worker \ {w}, call'[v] = call[v],
         \/ UNCHANGED <<entities, owner, links, threads, threadLinks, mu>>
         \/ mu["daemon"] \in {w, None} /\ Wider
  PROVE  InLayer(v)'
<1>1. InLayer(v) /\ call[v] \in LayerCall
  BY DEF LayerInv, LayerTyped
<1>2. CASE UNCHANGED <<entities, owner, links, threads, threadLinks, mu>>
  <2>1. L!FindAlias(v)' = L!FindAlias(v) /\ \A x : L!LinkedTo(x)' = L!LinkedTo(x)
    BY <1>2 DEF L!FindAlias, L!Someone, L!LinkedTo
  <2>2. \A g : There(g)' = There(g)
    BY <1>2 DEF There
  <2>3. InDerivation(v)'
    BY <1>1, <1>2, <2>1 DEF InLayer, InDerivation
  <2>4. InRemoval(v)'
    BY <1>1, <1>2, <2>1, <2>2 DEF InLayer, InRemoval
  <2> QED
    BY <1>1, <1>2, <2>3, <2>4 DEF InLayer
<1>3. CASE mu["daemon"] \in {w, None} /\ Wider
  <2>1. call[v].at \notin Locking
    BY <1>1, <1>3 DEF InLayer, L!LayerParameters
  <2>2. InDerivation(v)'
    <3> DEFINE c == call[v]
    <3>1. c.at \in Deriving => c.letter \in Letter /\ c.entry = c.letter.entry
      BY <1>1 DEF InLayer, InDerivation
    <3>2. c.at \in {"link", "count"} => c.id \in DOMAIN entities'
      BY <1>1, <1>3 DEF InLayer, InDerivation, Wider
    <3>0. c.letter \in Letter => c.letter.date \in Nat \union {None}
      BY DEF L!LayerParameters
    <3>3. c.at = "link" => Dated(entities'[c.id], c.letter.date)
      BY <1>1, <1>3, <3>0 DEF InLayer, InDerivation, Deriving, Wider
    <3>4. ASSUME c.at = "linkThread"
          PROVE  c.letter.conversation # None /\ threads'[c.letter.conversation] # None
                 /\ Dated(threads'[c.letter.conversation], c.letter.date)
      <4>1. c.letter \in Letter /\ c.letter.conversation # None /\ threads[c.letter.conversation] # None
            /\ Dated(threads[c.letter.conversation], c.letter.date)
        BY <1>1, <3>4 DEF InLayer, InDerivation, Deriving
      <4>2. c.letter.conversation \in L!Conversation
        BY <4>1 DEF L!Conversation
      <4> QED
        BY <1>3, <3>0, <4>1, <4>2 DEF Wider
    <3> QED
      BY <2>1, <3>1, <3>2, <3>3, <3>4 DEF InDerivation, Locking
  <2>3. InRemoval(v)'
    BY <1>1, <2>1 DEF InLayer, InRemoval, Locking
  <2> QED
    BY <2>1, <2>2, <2>3 DEF InLayer
<1> QED
  BY <1>2, <1>3

(* A row that a step does not count is as settled before it as after.      *)
LEMMA SettledBefore ==
  ASSUME NEW w \in Worker, NEW c, c = call'[w], \A v \in Worker \ {w} : call'[v] = call[v],
         NEW g, g \notin Unsettled', g \in torn => g \in torn', g \in Counted(call[w]) => g \in torn' \/ g \in Counted(c)
  PROVE  g \notin Unsettled
<1>1. g \notin torn' /\ \A v \in Worker : g \notin L!Counting(v)'
  BY DEF Unsettled
<1>2. ASSUME NEW v \in Worker PROVE g \notin L!Counting(v)
  <2>1. CASE v = w
    BY <1>1, <2>1, CountingIs DEF Counted
  <2>2. CASE v # w
    BY <1>1, <2>2, CountingIs DEF Counted
  <2> QED
    BY <2>1, <2>2
<1> QED
  BY <1>1, <1>2 DEF Unsettled
-----------------------------------------------------------------------------
LEMMA PeopleStay ==
  ASSUME PeopleKept, UNCHANGED <<entities, owner, links>>,
         \A i : <<"entity", i>> \notin Unsettled' => <<"entity", i>> \notin Unsettled
  PROVE  PeopleKept'
<1>1. EmailsOwned' /\ \A l \in links' : l.entity \in DOMAIN entities' /\ Dated(entities'[l.entity], l.date)
  BY DEF PeopleKept, EmailsOwned
<1>2. EntitiesCounted'
  BY DEF PeopleKept, EntitiesCounted, L!EntriesOf
<1> QED
  BY <1>1, <1>2 DEF PeopleKept, Dated

LEMMA ThreadsStay ==
  ASSUME ThreadsKept, UNCHANGED <<threads, threadLinks>>,
         \A c : <<"thread", c>> \notin Unsettled' => <<"thread", c>> \notin Unsettled
  PROVE  ThreadsKept'
<1>1. \A l \in threadLinks' : threads'[l.thread] # None /\ Dated(threads'[l.thread], l.date)
  BY DEF ThreadsKept
<1>2. ThreadsCounted'
  BY DEF ThreadsKept, ThreadsCounted, L!InThread
<1> QED
  BY <1>1, <1>2 DEF ThreadsKept, Dated

LEMMA LayerStepKeeps ==
  ASSUME L!LayerParameters, LayerInv, NEW w \in Worker, NEW c \in LayerCall, call' = [call EXCEPT ![w] = c],
         LayerTyped', PeopleKept', ThreadsKept', InLayer(w)',
         \/ UNCHANGED <<entities, owner, links, threads, threadLinks, mu>>
         \/ mu["daemon"] \in {w, None} /\ Wider
  PROVE  LayerInv'
<1>1. \A v \in Worker \ {w} : call'[v] = call[v]
  BY CallMoves DEF LayerInv
<1>2. ASSUME NEW v \in Worker \ {w} PROVE InLayer(v)'
  BY <1>1, CallStays
<1> QED
  BY <1>2 DEF LayerInv

(* Steps that leave every row as it is.                                    *)
LEMMA RowsStay ==
  ASSUME L!LayerParameters, LayerInv, NEW w \in Worker, NEW c \in LayerCall, call' = [call EXCEPT ![w] = c],
         UNCHANGED <<entities, owner, links, threads, threadLinks>>,
         index' \in [L!Entry -> Letter \union {None}], mu' \in [{"daemon"} -> Worker \union {None}],
         mu' = mu \/ mu["daemon"] \in {w, None},
         torn \subseteq torn', Counted(call[w]) \subseteq torn' \union Counted(c), InLayer(w)'
  PROVE  LayerInv'
<1>1. /\ call' \in [Worker -> LayerCall] /\ call'[w] = c
      /\ \A v \in Worker \ {w} : call'[v] = call[v]
  BY CallMoves DEF LayerInv
<1>2. LayerTyped'
  BY <1>1 DEF LayerInv, LayerTyped
<1>3. \A g : g \notin Unsettled' => g \notin Unsettled
  BY <1>1, SettledBefore
<1>4. PeopleKept' /\ ThreadsKept'
  BY <1>3, PeopleStay, ThreadsStay DEF LayerInv
<1> QED
  BY <1>2, <1>4, NotNarrower, LayerStepKeeps

LEMMA IdleCall ==
  /\ L!Idle \in LayerCall /\ L!Idle.at = "idle"
  /\ Counted(L!Idle) = {}
BY DEF L!Idle, LayerCall, LayerStep, Counted

LEMMA UpsertKeeps ==
  ASSUME L!LayerParameters, LayerInv, NEW w \in Worker, NEW l \in Letter, L!Upsert(w, l)
  PROVE  LayerInv'
<1> DEFINE c == [L!Idle EXCEPT !.at = "find", !.letter = l, !.who = 1, !.entry = l.entry, !.ok = TRUE]
           d == [L!Idle EXCEPT !.at = "done", !.letter = l, !.entry = l.entry]
<1>1. l.entry \in L!Entry
  BY DEF L!Entry
<1>2. c \in LayerCall /\ c.at = "find" /\ c.letter = l /\ c.entry = l.entry
  BY <1>1, IdleCall DEF LayerCall, LayerStep
<1>3. d \in LayerCall /\ d.at = "done"
  BY <1>1, IdleCall DEF LayerCall, LayerStep
<1>4. call' = [call EXCEPT ![w] = c] \/ call' = [call EXCEPT ![w] = d]
  BY DEF L!Upsert
<1>5. /\ index' \in [L!Entry -> Letter \union {None}] /\ mu' \in [{"daemon"} -> Worker \union {None}]
      /\ UNCHANGED <<entities, owner, links, threads, threadLinks, mu, torn>>
      /\ Counted(call[w]) = {}
  BY <1>1 DEF L!Upsert, LayerInv, LayerTyped, Counted
<1> HIDE DEF c, d
<1>6. CASE call' = [call EXCEPT ![w] = c]
  <2>1. call'[w] = c
    BY <1>2, <1>6, CallMoves DEF LayerInv
  <2>2. InLayer(w)'
    BY <1>2, <2>1 DEF InLayer, InDerivation, InRemoval, Locking, Removing
  <2> QED
    BY <1>2, <1>5, <1>6, <2>2, RowsStay
<1>7. CASE call' = [call EXCEPT ![w] = d]
  <2>1. call'[w] = d
    BY <1>3, <1>7, CallMoves DEF LayerInv
  <2>2. InLayer(w)'
    BY <1>3, <2>1 DEF InLayer, InDerivation, InRemoval, Locking, Removing, Deriving
  <2> QED
    BY <1>3, <1>5, <1>7, <2>2, RowsStay
<1> QED
  BY <1>4, <1>6, <1>7

LEMMA DeleteKeeps ==
  ASSUME L!LayerParameters, LayerInv, NEW w \in Worker, NEW x \in L!Entry, L!Delete(w, x)
  PROVE  LayerInv'
<1> DEFINE c == [L!Idle EXCEPT !.at = "linked", !.entry = x]
           d == [L!Idle EXCEPT !.at = "done", !.entry = x]
<1>2. c \in LayerCall /\ c.at = "linked" /\ c.entry = x
  BY IdleCall DEF LayerCall, LayerStep
<1>3. d \in LayerCall /\ d.at = "done"
  BY IdleCall DEF LayerCall, LayerStep
<1>4. call' = [call EXCEPT ![w] = c] \/ call' = [call EXCEPT ![w] = d]
  BY DEF L!Delete
<1>5. /\ index' \in [L!Entry -> Letter \union {None}] /\ mu' \in [{"daemon"} -> Worker \union {None}]
      /\ UNCHANGED <<entities, owner, links, threads, threadLinks, mu, torn>>
      /\ Counted(call[w]) = {}
  BY DEF L!Delete, LayerInv, LayerTyped, Counted
<1> HIDE DEF c, d
<1>6. CASE call' = [call EXCEPT ![w] = c]
  <2>1. call'[w] = c
    BY <1>2, <1>6, CallMoves DEF LayerInv
  <2>2. InLayer(w)'
    BY <1>2, <2>1 DEF InLayer, InDerivation, InRemoval, Locking, Deriving
  <2> QED
    BY <1>2, <1>5, <1>6, <2>2, RowsStay
<1>7. CASE call' = [call EXCEPT ![w] = d]
  <2>1. call'[w] = d
    BY <1>3, <1>7, CallMoves DEF LayerInv
  <2>2. InLayer(w)'
    BY <1>3, <2>1 DEF InLayer, InDerivation, InRemoval, Locking, Removing, Deriving
  <2> QED
    BY <1>3, <1>5, <1>7, <2>2, RowsStay
<1> QED
  BY <1>4, <1>6, <1>7

(* The address and the name of a person of a letter are aliases.           *)
LEMMA AliasesKnown ==
  ASSUME NEW l \in Letter, NEW i \in DOMAIN l.people
  PROVE  L!Aliases(l.people[i]) \subseteq L!Alias /\ <<"email", l.people[i].email>> \in L!Alias
<1>1. l.people[i] \in L!Person
  BY DEF L!Person
<1>2. L!Aliases(l.people[i]) \subseteq L!Alias
  BY <1>1 DEF L!Alias
<1> QED
  BY <1>2 DEF L!Aliases

LEMMA FoundIsNumber ==
  ASSUME LayerTyped, NEW w \in Worker, call[w].letter \in Letter, call[w].who \in DOMAIN call[w].letter.people
  PROVE  L!FindAlias(w) \in 0 .. Len(entities)
<1> DEFINE p == L!Someone(w)
<1>1. p = call[w].letter.people[call[w].who]
  BY DEF L!Someone
<1>2. <<"email", p.email>> \in L!Alias /\ L!Aliases(p) \subseteq L!Alias
  BY <1>1, AliasesKnown
<1>3. p.name # None => <<"name", p.name>> \in L!Alias
  BY <1>2 DEF L!Aliases
<1>4. owner \in [L!Alias -> 0 .. Len(entities)]
  BY DEF LayerTyped
<1> HIDE DEF p
<1> QED
  BY <1>2, <1>3, <1>4 DEF L!FindAlias, p

LEMMA FindEntityKeeps ==
  ASSUME L!LayerParameters, LayerInv, NEW w \in Worker, L!FindEntity(w)
  PROVE  LayerInv'
<1> DEFINE c == [call[w] EXCEPT !.at = "write", !.id = L!FindAlias(w)]
<1>1. /\ call[w] \in LayerCall /\ call[w].letter \in Letter /\ call[w].entry = call[w].letter.entry
      /\ call[w].who \in DOMAIN call[w].letter.people /\ Counted(call[w]) = {}
  BY DEF L!FindEntity, LayerInv, LayerTyped, InLayer, InDerivation, Deriving, Counted
<1>2. L!FindAlias(w) \in Nat
  <2>1. L!FindAlias(w) \in 0 .. Len(entities)
    BY <1>1, FoundIsNumber DEF LayerInv
  <2> QED
    BY <2>1
<1>3. /\ c \in LayerCall /\ c.at = "write" /\ c.letter = call[w].letter /\ c.who = call[w].who
      /\ c.entry = call[w].entry /\ c.id = L!FindAlias(w)
  BY <1>1, <1>2 DEF LayerCall, LayerStep
<1>4. call' = [call EXCEPT ![w] = c] /\ UNCHANGED <<index, entities, owner, links, threads, threadLinks, torn>>
  BY DEF L!FindEntity
<1> HIDE DEF c
<1>5. mu["daemon"] = None /\ mu'["daemon"] = w /\ mu' \in [{"daemon"} -> Worker \union {None}]
  BY MutexIs DEF LayerInv, L!FindEntity
<1>6. call'[w] = c
  BY <1>3, <1>4, CallMoves DEF LayerInv
<1>7. L!FindAlias(w)' = L!FindAlias(w)
  BY <1>3, <1>4, <1>6 DEF L!FindAlias, L!Someone
<1>8. InLayer(w)'
  BY <1>1, <1>3, <1>5, <1>6, <1>7 DEF InLayer, InDerivation, InRemoval, Removing
<1>9. index' \in [L!Entry -> Letter \union {None}]
  BY <1>4 DEF LayerInv, LayerTyped
<1> QED
  BY <1>1, <1>3, <1>4, <1>5, <1>8, <1>9, RowsStay

LEMMA DeriveThreadKeeps ==
  ASSUME L!LayerParameters, LayerInv, NEW w \in Worker, L!DeriveThread(w)
  PROVE  LayerInv'
<1>1. /\ call[w].letter \in Letter /\ call[w].entry = call[w].letter.entry /\ Counted(call[w]) = {}
      /\ UNCHANGED <<index, entities, owner, links, threads, threadLinks, torn>>
      /\ index' \in [L!Entry -> Letter \union {None}]
  BY DEF L!DeriveThread, LayerInv, LayerTyped, InLayer, InDerivation, Deriving, Counted
<1>2. CASE L!Goes(w, "done") /\ UNCHANGED mu
  <2>1. PICK c \in LayerCall : call' = [call EXCEPT ![w] = c] /\ c.at = "done"
    BY <1>2, CallGoes DEF LayerInv, LayerStep
  <2>2. call'[w] = c /\ mu' \in [{"daemon"} -> Worker \union {None}]
    BY <1>2, <2>1, CallMoves DEF LayerInv, LayerTyped
  <2>3. InLayer(w)'
    BY <2>1, <2>2 DEF InLayer, InDerivation, InRemoval, Locking, Removing, Deriving
  <2> QED
    BY <1>1, <1>2, <2>1, <2>2, <2>3, RowsStay
<1>3. CASE L!Thread(w) # None /\ L!Lock(w) /\ L!Goes(w, "thread")
  <2>1. PICK c \in LayerCall : call' = [call EXCEPT ![w] = c] /\ c.at = "thread"
                               /\ c.letter = call[w].letter /\ c.entry = call[w].entry
    BY <1>3, CallGoes DEF LayerInv, LayerStep
  <2>2. call'[w] = c
    BY <2>1, CallMoves DEF LayerInv
  <2>3. mu["daemon"] = None /\ mu'["daemon"] = w /\ mu' \in [{"daemon"} -> Worker \union {None}]
    BY <1>3, MutexIs DEF LayerInv
  <2>4. InLayer(w)'
    BY <1>1, <1>3, <2>1, <2>2, <2>3 DEF InLayer, InDerivation, InRemoval, Removing, L!Thread
  <2> QED
    BY <1>1, <2>1, <2>3, <2>4, RowsStay
<1> QED
  BY <1>2, <1>3 DEF L!DeriveThread

LEMMA ReadLinkedKeeps ==
  ASSUME L!LayerParameters, LayerInv, NEW w \in Worker, L!ReadLinked(w)
  PROVE  LayerInv'
<1> DEFINE ids == L!LinkedTo(call[w].entry)
           c == [call[w] EXCEPT !.at = "unlink", !.ids = ids]
<1>1. /\ call[w] \in LayerCall /\ call[w].entry \in L!Entry /\ Counted(call[w]) = {}
      /\ UNCHANGED <<index, entities, owner, links, threads, threadLinks, torn>>
      /\ index' \in [L!Entry -> Letter \union {None}]
  BY DEF L!ReadLinked, LayerInv, LayerTyped, InLayer, InRemoval, Removing, Counted
<1>2. ids \subseteq Groups /\ \A g \in ids : There(g)
  <2>1. ASSUME NEW l \in links PROVE <<"entity", l.entity>> \in Groups /\ There(<<"entity", l.entity>>)
    BY DEF LayerInv, LayerTyped, LinkRow, PeopleKept, Groups, There
  <2>2. ASSUME NEW l \in threadLinks PROVE <<"thread", l.thread>> \in Groups /\ There(<<"thread", l.thread>>)
    BY DEF LayerInv, LayerTyped, ThreadLink, ThreadsKept, Groups, There
  <2> QED
    BY <2>1, <2>2 DEF L!LinkedTo
<1> HIDE DEF ids
<1>3. c \in LayerCall /\ c.at = "unlink" /\ c.entry = call[w].entry /\ c.ids = ids
  BY <1>1, <1>2 DEF LayerCall, LayerStep
<1>4. call' = [call EXCEPT ![w] = c]
  BY DEF L!ReadLinked, ids
<1> HIDE DEF c
<1>5. mu["daemon"] = None /\ mu'["daemon"] = w /\ mu' \in [{"daemon"} -> Worker \union {None}]
  BY MutexIs DEF LayerInv, L!ReadLinked
<1>6. call'[w] = c
  BY <1>3, <1>4, CallMoves DEF LayerInv
<1>7. (\A x : L!LinkedTo(x)' = L!LinkedTo(x)) /\ (\A g : There(g)' = There(g))
  BY <1>1 DEF L!LinkedTo, There
<1>8. ids = L!LinkedTo(call'[w].entry)
  BY <1>3, <1>6 DEF ids
<1>9. call'[w].at = "unlink" /\ call'[w].entry \in L!Entry /\ call'[w].ids = ids
  BY <1>1, <1>3, <1>6
<1>10. InLayer(w)'
  BY <1>2, <1>5, <1>7, <1>8, <1>9 DEF InLayer, InDerivation, InRemoval, Deriving
<1> QED
  BY <1>1, <1>3, <1>4, <1>5, <1>10, RowsStay

LEMMA UnlinkedKeeps ==
  ASSUME L!LayerParameters, LayerInv, NEW w \in Worker, L!Unlinked(w)
  PROVE  LayerInv'
<1>1. /\ call[w].at = "recount" /\ Counted(call[w]) = {} /\ mu["daemon"] = w
      /\ UNCHANGED <<index, entities, owner, links, threads, threadLinks, torn>>
      /\ index' \in [L!Entry -> Letter \union {None}]
  BY DEF L!Unlinked, LayerInv, LayerTyped, InLayer, Locking, Counted
<1>2. mu' \in [{"daemon"} -> Worker \union {None}]
  BY MutexIs DEF LayerInv, L!Unlinked
<1>3. PICK c \in LayerCall : call' = [call EXCEPT ![w] = c] /\ c.at = "done"
  BY CallGoes DEF LayerInv, LayerStep, L!Unlinked
<1>4. call'[w] = c
  BY <1>3, CallMoves DEF LayerInv
<1>5. InLayer(w)'
  BY <1>3, <1>4 DEF InLayer, InDerivation, InRemoval, Locking, Removing, Deriving
<1> QED
  BY <1>1, <1>2, <1>3, <1>5, RowsStay

LEMMA FailsKeeps ==
  ASSUME L!LayerParameters, LayerInv, NEW w \in Worker, L!Fails(w)
  PROVE  LayerInv'
<1>1. /\ call[w] \in LayerCall /\ mu["daemon"] = w /\ InLayer(w)
      /\ UNCHANGED <<index, entities, owner, links, threads, threadLinks>>
      /\ index' \in [L!Entry -> Letter \union {None}]
      /\ torn' = torn \union Counted(call[w])
  BY MutexIs, CountingIs DEF L!Fails, LayerInv, LayerTyped
<1>2. mu' \in [{"daemon"} -> Worker \union {None}]
  BY DEF L!Fails, LayerInv, LayerTyped
<1>3. CASE call[w].at \in {"write", "count"}
  <2> DEFINE n == Len(call[w].letter.people) + 1
             c == [call[w] EXCEPT !.at = "find", !.who = n]
  <2>1. call[w].letter \in Letter /\ call[w].entry = call[w].letter.entry
    BY <1>1, <1>3 DEF InLayer, InDerivation, Deriving
  <2>2. n \in Nat
    BY <2>1 DEF L!LayerParameters
  <2> HIDE DEF n
  <2>3. c \in LayerCall /\ c.at = "find" /\ c.letter = call[w].letter /\ c.entry = call[w].entry
    BY <1>1, <2>2 DEF LayerCall, LayerStep
  <2>4. call' = [call EXCEPT ![w] = c]
    BY <1>3 DEF L!Fails, n
  <2> HIDE DEF c
  <2>5. call'[w] = c
    BY <2>3, <2>4, CallMoves DEF LayerInv
  <2>6. InLayer(w)'
    BY <2>1, <2>3, <2>5 DEF InLayer, InDerivation, InRemoval, Locking, Removing
  <2> QED
    BY <1>1, <1>2, <2>3, <2>4, <2>6, RowsStay
<1>4. CASE call[w].at \notin {"write", "count"}
  <2> DEFINE c == [call[w] EXCEPT !.at = "done"]
  <2>1. c \in LayerCall /\ c.at = "done"
    BY <1>1 DEF LayerCall, LayerStep
  <2>2. call' = [call EXCEPT ![w] = c]
    BY <1>4 DEF L!Fails
  <2> HIDE DEF c
  <2>3. call'[w] = c
    BY <2>1, <2>2, CallMoves DEF LayerInv
  <2>4. InLayer(w)'
    BY <2>1, <2>3 DEF InLayer, InDerivation, InRemoval, Locking, Removing, Deriving
  <2> QED
    BY <1>1, <1>2, <2>1, <2>2, <2>4, RowsStay
<1> QED
  BY <1>3, <1>4
-----------------------------------------------------------------------------
(* The people.                                                             *)
LEMMA DateTyped ==
  ASSUME L!LayerParameters, NEW l \in Letter
  PROVE  L!DateOf(l) \in Nat /\ (l.date # None => L!DateOf(l) = l.date) /\ l.date \in Nat \union {None}
BY DEF L!LayerParameters, L!DateOf

LEMMA EntityPlaced ==
  ASSUME LayerTyped, NEW id \in 1 .. Len(entities) + 1, NEW row \in EntityRow,
         entities' = [i \in DOMAIN entities \union {id} |-> IF i = id THEN row ELSE entities[i]]
  PROVE  /\ entities' \in Seq(EntityRow) /\ DOMAIN entities' = DOMAIN entities \union {id}
         /\ Len(entities) <= Len(entities')
         /\ entities'[id] = row /\ \A i \in DOMAIN entities \ {id} : entities'[i] = entities[i]
<1> DEFINE n == IF id = Len(entities) + 1 THEN id ELSE Len(entities)
<1>1. entities \in Seq(EntityRow) /\ Len(entities) \in Nat /\ DOMAIN entities = 1 .. Len(entities)
  BY DEF LayerTyped
<1>2. DOMAIN entities \union {id} = 1 .. n /\ n \in Nat /\ Len(entities) <= n
  BY <1>1
<1>3. \A i \in 1 .. Len(entities) : entities[i] \in EntityRow
  BY <1>1
<1> HIDE DEF n
<1>4. entities' \in [1 .. n -> EntityRow]
  BY <1>1, <1>2, <1>3
<1>5. entities' \in Seq(EntityRow) /\ DOMAIN entities' = 1 .. n
  <2>1. DOMAIN entities' = 1 .. n
    BY <1>4
  <2>2. entities' \in UNION {[1 .. m -> EntityRow] : m \in Nat}
    BY <1>2, <1>4
  <2> QED
    BY <2>1, <2>2, SeqDef
<1>6. Len(entities') = n
  BY <1>2, <1>5
<1>7. entities'[id] = row /\ \A i \in DOMAIN entities \ {id} : entities'[i] = entities[i]
  OBVIOUS
<1> QED
  BY <1>1, <1>2, <1>5, <1>6, <1>7

LEMMA RowMerged ==
  ASSUME NEW e \in EntityRow, NEW p, L!Aliases(p) \subseteq L!Alias, NEW date \in Nat,
         NEW r, r = L!MergeEntity(e, p, date)
  PROVE  /\ r \in EntityRow /\ r.aliases = e.aliases \union L!Aliases(p) /\ r.count = e.count
         /\ \A d \in Nat \union {None} : Dated(e, d) => Dated(r, d)
         /\ \A d \in Nat \union {None} : (d # None => d = date) => Dated(r, d)
<1> DEFINE both == e.aliases \union L!Aliases(p)
           first == L!Min2(e.first, date)
           last == L!Max2(e.last, date)
<1>1. e.first \in Nat /\ e.last \in Nat /\ e.count \in Nat /\ both \in SUBSET L!Alias
  BY DEF EntityRow
<1>2. /\ first \in Nat /\ last \in Nat /\ first <= e.first /\ e.last <= last
      /\ first <= date /\ date <= last
  BY <1>1 DEF L!Min2, L!Max2
<1>3. r = [e EXCEPT !.aliases = both, !.first = first, !.last = last]
  BY DEF L!MergeEntity
<1> HIDE DEF both, first, last
<1>4. r \in EntityRow /\ r.aliases = both /\ r.first = first /\ r.last = last /\ r.count = e.count
  BY <1>1, <1>2, <1>3 DEF EntityRow
<1>5. ASSUME NEW d \in Nat \union {None}, Dated(e, d) PROVE Dated(r, d)
  BY <1>1, <1>2, <1>4, <1>5 DEF Dated
<1>6. ASSUME NEW d \in Nat \union {None}, d # None => d = date PROVE Dated(r, d)
  BY <1>2, <1>4, <1>6 DEF Dated
<1> QED
  BY <1>4, <1>5, <1>6 DEF both

(* Whoever writes a person has found under the mutex whom the address      *)
(* points at.                                                              *)
LEMMA WriteEntityKeeps ==
  ASSUME L!LayerParameters, LayerInv, NEW w \in Worker, L!WriteEntity(w)
  PROVE  LayerInv'
<1> DEFINE p == L!Someone(w)
           l == call[w].letter
           date == L!DateOf(l)
           found == call[w].id
           id == IF found = 0 THEN Len(entities) + 1 ELSE found
           new == [aliases |-> L!Aliases(p), first |-> date, last |-> date, count |-> 0]
           row == IF found = 0 THEN new ELSE L!MergeEntity(entities[id], p, date)
           c == [call[w] EXCEPT !.at = "link", !.id = id]
<1>1. /\ call[w] \in LayerCall /\ call[w].at = "write" /\ mu["daemon"] = w
      /\ l \in Letter /\ call[w].entry = l.entry /\ call[w].who \in DOMAIN l.people
      /\ found = L!FindAlias(w) /\ found \in 0 .. Len(entities)
  <2>1. /\ call[w] \in LayerCall /\ call[w].at = "write" /\ mu["daemon"] = w
        /\ l \in Letter /\ call[w].entry = l.entry /\ call[w].who \in DOMAIN l.people
        /\ found = L!FindAlias(w)
    BY DEF L!WriteEntity, LayerInv, LayerTyped, InLayer, InDerivation, Locking, Deriving
  <2> QED
    BY <2>1, FoundIsNumber DEF LayerInv
<1>2. /\ L!Aliases(p) \subseteq L!Alias /\ <<"email", p.email>> \in L!Alias
      /\ \A a \in L!Aliases(p) : a[1] = "email" => a = <<"email", p.email>>
  <2>1. L!Aliases(p) \subseteq L!Alias /\ <<"email", p.email>> \in L!Alias
    BY <1>1, AliasesKnown DEF L!Someone
  <2> QED
    BY <2>1 DEF L!Aliases
<1>3. date \in Nat /\ (l.date # None => date = l.date) /\ l.date \in Nat \union {None}
  BY <1>1, DateTyped
<1>4. entities \in Seq(EntityRow) /\ Len(entities) \in Nat /\ DOMAIN entities = 1 .. Len(entities)
      /\ owner \in [L!Alias -> 0 .. Len(entities)]
  BY DEF LayerInv, LayerTyped
<1>5. /\ entities' = [i \in DOMAIN entities \union {id} |-> IF i = id THEN row ELSE entities[i]]
      /\ owner' = [a \in L!Alias |-> IF a \in row.aliases /\ owner[a] = 0 THEN id ELSE owner[a]]
      /\ call' = [call EXCEPT ![w] = c]
      /\ UNCHANGED <<index, links, threads, threadLinks, calls, torn>>
  BY DEF L!WriteEntity
<1>6. id \in 1 .. Len(entities) + 1 /\ (found = 0 => id = Len(entities) + 1)
      /\ (found # 0 => id = found /\ id \in DOMAIN entities)
  BY <1>1, <1>4
<1>7. found = 0 => owner[<<"email", p.email>>] = 0
  BY <1>1 DEF L!FindAlias
<1>8. owner[<<"email", p.email>>] # 0 => found = owner[<<"email", p.email>>]
  BY <1>1 DEF L!FindAlias
<1>9. /\ row \in EntityRow
      /\ \A a \in row.aliases : a \in L!Aliases(p) \/ (found # 0 /\ a \in entities[id].aliases)
      /\ found = 0 => row.count = 0
      /\ found # 0 => row.count = entities[id].count
      /\ found # 0 => \A d \in Nat \union {None} : Dated(entities[id], d) => Dated(row, d)
      /\ Dated(row, l.date)
  <2>1. CASE found = 0
    <3>1. new \in EntityRow /\ new.aliases = L!Aliases(p) /\ new.first = date /\ new.last = date /\ new.count = 0
      BY <1>2, <1>3 DEF EntityRow
    <3>2. row = new
      BY <2>1
    <3> HIDE DEF new, row, date
    <3>3. Dated(row, l.date)
      BY <1>3, <3>1, <3>2 DEF Dated
    <3> QED
      BY <2>1, <3>1, <3>2, <3>3
  <2>2. CASE found # 0
    <3>1. entities[id] \in EntityRow
      BY <1>4, <1>6, <2>2
    <3>2. row = L!MergeEntity(entities[id], p, date)
      BY <2>2
    <3> HIDE DEF row, date, id, found, l, p
    <3>3. /\ row \in EntityRow /\ row.aliases = entities[id].aliases \union L!Aliases(p)
          /\ row.count = entities[id].count
          /\ \A d \in Nat \union {None} : Dated(entities[id], d) => Dated(row, d)
          /\ \A d \in Nat \union {None} : (d # None => d = date) => Dated(row, d)
      BY <1>2, <1>3, <3>1, <3>2, RowMerged
    <3> QED
      BY <1>3, <2>2, <3>3
  <2> QED
    BY <2>1, <2>2
<1> HIDE DEF row, new, date, id, p
<1>10. c \in LayerCall /\ c.at = "link" /\ c.letter = l /\ c.entry = call[w].entry /\ c.id = id
  <2>1. id \in Nat /\ call[w] \in LayerCall
    BY <1>1, <1>4, <1>6
  <2> QED
    BY <2>1 DEF LayerCall, LayerStep
<1> HIDE DEF c, found, l
<1>11. /\ entities' \in Seq(EntityRow) /\ DOMAIN entities' = DOMAIN entities \union {id}
       /\ Len(entities) <= Len(entities') /\ Len(entities') \in Nat
       /\ entities'[id] = row /\ \A i \in DOMAIN entities \ {id} : entities'[i] = entities[i]
  <2>1. LayerTyped /\ id \in 1 .. Len(entities) + 1 /\ row \in EntityRow
    BY <1>6, <1>9 DEF LayerInv
  <2>2. entities' = [i \in DOMAIN entities \union {id} |-> IF i = id THEN row ELSE entities[i]]
    BY <1>5
  <2>3. /\ entities' \in Seq(EntityRow) /\ DOMAIN entities' = DOMAIN entities \union {id}
        /\ Len(entities) <= Len(entities')
        /\ entities'[id] = row /\ \A i \in DOMAIN entities \ {id} : entities'[i] = entities[i]
    BY <2>1, <2>2, EntityPlaced, Zenon
  <2> QED
    BY <2>3
<1>12. id \in 0 .. Len(entities')
  BY <1>4, <1>6, <1>11
<1>13. owner' \in [L!Alias -> 0 .. Len(entities')]
  BY <1>4, <1>5, <1>11, <1>12
<1>14. mu'["daemon"] = None /\ mu' \in [{"daemon"} -> Worker \union {None}]
  BY MutexIs DEF LayerInv, L!WriteEntity
<1>15. call' \in [Worker -> LayerCall] /\ call'[w] = c /\ \A v \in Worker \ {w} : call'[v] = call[v]
  BY <1>5, <1>10, CallMoves DEF LayerInv
<1>16. LayerTyped'
  BY <1>5, <1>11, <1>13, <1>14, <1>15 DEF LayerInv, LayerTyped
<1>17. ASSUME NEW i \in DOMAIN entities PROVE i \in DOMAIN entities' /\ \A d \in Nat \union {None} : Dated(entities[i], d) => Dated(entities'[i], d)
  BY <1>4, <1>6, <1>9, <1>11
<1>18. EmailsOwned'
  <2> SUFFICES ASSUME NEW i \in DOMAIN entities', NEW a \in entities'[i].aliases, a[1] = "email" PROVE owner'[a] = i
    BY DEF EmailsOwned
  <2>0. a \in L!Alias
    <3>1. entities'[i] \in EntityRow
      BY <1>11
    <3> QED
      BY <3>1 DEF EntityRow
  <2>1. ASSUME i \in DOMAIN entities, a \in entities[i].aliases PROVE owner[a] = i /\ owner'[a] = i
    <3>1. owner[a] = i
      BY <2>1 DEF LayerInv, PeopleKept, EmailsOwned
    <3>2. owner[a] # 0
      BY <1>4, <2>1, <3>1
    <3> QED
      BY <1>5, <2>0, <3>1, <3>2
  <2>2. CASE i # id
    BY <1>11, <2>1, <2>2
  <2>3. CASE i = id
    <3>1. a \in row.aliases
      BY <1>11, <2>3
    <3>2. CASE a \in L!Aliases(p)
      <4>1. a = <<"email", p.email>>
        BY <1>2, <3>2
      <4>2. CASE owner[a] = 0
        BY <1>5, <2>0, <2>3, <3>1, <4>2
      <4>3. CASE owner[a] # 0
        BY <1>5, <1>6, <1>7, <1>8, <2>0, <2>3, <3>1, <4>1, <4>3
      <4> QED
        BY <4>2, <4>3
    <3>3. CASE found # 0 /\ a \in entities[id].aliases
      BY <1>6, <2>1, <2>3, <3>3
    <3> QED
      BY <1>9, <3>1, <3>2, <3>3
  <2> QED
    BY <2>2, <2>3
<1>19. Counted(call[w]) = {}
  BY <1>1 DEF Counted
<1>20. \A g : g \notin Unsettled' => g \notin Unsettled
  BY <1>5, <1>15, <1>19, SettledBefore
<1>21. EntitiesCounted'
  <2> SUFFICES ASSUME NEW i \in DOMAIN entities', <<"entity", i>> \notin Unsettled'
               PROVE  entities'[i].count = Cardinality(L!EntriesOf(i)')
    BY DEF EntitiesCounted
  <2>1. L!EntriesOf(i)' = L!EntriesOf(i)
    BY <1>5 DEF L!EntriesOf
  <2>2. CASE i \in DOMAIN entities
    <3>1. entities'[i].count = entities[i].count
      BY <1>4, <1>6, <1>9, <1>11, <2>2
    <3>2. entities[i].count = Cardinality(L!EntriesOf(i))
      BY <1>20, <2>2 DEF LayerInv, PeopleKept, EntitiesCounted
    <3> QED
      BY <2>1, <3>1, <3>2
  <2>3. CASE i \notin DOMAIN entities
    <3>1. i = id /\ found = 0
      BY <1>6, <1>11, <2>3
    <3>2. L!EntriesOf(i) = {}
      BY <2>3 DEF LayerInv, PeopleKept, L!EntriesOf
    <3> QED
      BY <1>9, <1>11, <2>1, <3>1, <3>2, FS_EmptySet
  <2> QED
    BY <2>2, <2>3
<1>22. PeopleKept'
  <2>1. ASSUME NEW k \in links' PROVE k.entity \in DOMAIN entities' /\ Dated(entities'[k.entity], k.date)
    <3>1. k \in links /\ k.date \in Nat \union {None} /\ k.entity \in DOMAIN entities /\ Dated(entities[k.entity], k.date)
      BY <1>5, <2>1 DEF LayerInv, LayerTyped, LinkRow, PeopleKept
    <3> QED
      BY <1>17, <3>1
  <2> QED
    BY <1>18, <1>21, <2>1 DEF PeopleKept, Dated
<1>23. ThreadsKept'
  BY <1>5, <1>20, ThreadsStay DEF LayerInv
<1>24. InLayer(w)'
  <2>1. call'[w].at = "link" /\ call'[w].letter = l /\ call'[w].id = id /\ call'[w].entry = l.entry
    BY <1>1, <1>10, <1>15
  <2>2. Dated(entities'[id], l.date) /\ id \in DOMAIN entities'
    BY <1>9, <1>11
  <2> QED
    BY <1>1, <2>1, <2>2 DEF InLayer, InDerivation, InRemoval, Locking, Removing, Dated
<1>25. Wider
  BY <1>5, <1>17 DEF Wider
<1> QED
  BY <1>1, <1>5, <1>10, <1>16, <1>22, <1>23, <1>24, <1>25, LayerStepKeeps

LEMMA LinkEntityEntryKeeps ==
  ASSUME L!LayerParameters, LayerInv, NEW w \in Worker, L!LinkEntityEntry(w)
  PROVE  LayerInv'
<1> DEFINE id == call[w].id
           k == [entity |-> id, entry |-> call[w].entry, role |-> call[w].who, date |-> call[w].letter.date]
<1>1. /\ call[w] \in LayerCall /\ call[w].at = "link" /\ id \in DOMAIN entities
      /\ call[w].letter \in Letter /\ call[w].entry = call[w].letter.entry
      /\ Dated(entities[id], call[w].letter.date)
  BY DEF L!LinkEntityEntry, LayerInv, LayerTyped, InLayer, InDerivation, Deriving
<1>2. call[w].letter.date \in Nat \union {None} /\ call[w].entry \in L!Entry /\ call[w].who \in Nat /\ id \in Nat
  BY <1>1, DateTyped DEF LayerCall, L!Entry
<1>3. k \in LinkRow /\ k.entity = id /\ k.date = call[w].letter.date
  BY <1>2 DEF LinkRow
<1>4. (links' = links \/ links' = links \union {k}) /\ UNCHANGED <<index, entities, owner, threads, threadLinks, torn>>
  BY DEF L!LinkEntityEntry
<1>5. PICK c \in LayerCall : /\ call' = [call EXCEPT ![w] = c]
                             /\ c.at = "count" /\ c.letter = call[w].letter /\ c.id = id /\ c.entry = call[w].entry
  BY CallGoes DEF LayerInv, LayerStep, L!LinkEntityEntry
<1> HIDE DEF k
<1>6. mu["daemon"] = None /\ mu'["daemon"] = w /\ mu' \in [{"daemon"} -> Worker \union {None}]
  BY MutexIs DEF LayerInv, L!LinkEntityEntry
<1>7. call' \in [Worker -> LayerCall] /\ call'[w] = c /\ \A v \in Worker \ {w} : call'[v] = call[v]
  BY <1>5, CallMoves DEF LayerInv
<1>8. links' \subseteq LinkRow /\ IsFiniteSet(links')
  <2>1. links \subseteq LinkRow /\ IsFiniteSet(links)
    BY DEF LayerInv, LayerTyped
  <2>2. IsFiniteSet(links \union {k})
    BY <2>1, FS_AddElement
  <2> QED
    BY <1>3, <1>4, <2>1, <2>2
<1>9. LayerTyped'
  BY <1>4, <1>6, <1>7, <1>8 DEF LayerInv, LayerTyped
<1>10. Counted(call[w]) = {} /\ Counted(c) = {<<"entity", id>>}
  BY <1>1, <1>5 DEF Counted
<1>11. \A g : g \notin Unsettled' => g \notin Unsettled
  BY <1>4, <1>7, <1>10, SettledBefore
<1>12. <<"entity", id>> \in Unsettled'
  BY <1>7, <1>10, CountingIs DEF Unsettled
<1>13. EntitiesCounted'
  <2> SUFFICES ASSUME NEW i \in DOMAIN entities, <<"entity", i>> \notin Unsettled'
               PROVE  entities[i].count = Cardinality(L!EntriesOf(i)')
    BY <1>4 DEF EntitiesCounted
  <2>1. i # id
    BY <1>12
  <2>2. L!EntriesOf(i)' = L!EntriesOf(i)
    BY <1>3, <1>4, <2>1 DEF L!EntriesOf
  <2> QED
    BY <1>11, <2>2 DEF LayerInv, PeopleKept, EntitiesCounted
<1>14. PeopleKept'
  <2>1. EmailsOwned'
    BY <1>4 DEF LayerInv, PeopleKept, EmailsOwned
  <2>2. \A l \in links' : l.entity \in DOMAIN entities' /\ Dated(entities'[l.entity], l.date)
    BY <1>1, <1>3, <1>4 DEF LayerInv, PeopleKept
  <2> QED
    BY <1>13, <2>1, <2>2 DEF PeopleKept, Dated
<1>15. ThreadsKept'
  BY <1>4, <1>11, ThreadsStay DEF LayerInv
<1>16. InLayer(w)'
  BY <1>1, <1>4, <1>5, <1>6, <1>7 DEF InLayer, InDerivation, InRemoval, Removing
<1> QED
  BY <1>4, <1>5, <1>6, <1>9, <1>14, <1>15, <1>16, NotNarrower, LayerStepKeeps

(* Once a row is counted, its count is that of its links.                  *)
LEMMA PeopleCounted ==
  ASSUME LayerInv, NEW i \in DOMAIN entities, UNCHANGED <<owner, links>>,
         entities' = [entities EXCEPT ![i].count = Cardinality(L!EntriesOf(i))],
         \A j : j # i /\ <<"entity", j>> \notin Unsettled' => <<"entity", j>> \notin Unsettled
  PROVE  PeopleKept' /\ entities' \in Seq(EntityRow) /\ Len(entities') = Len(entities)
         /\ (UNCHANGED threads => Wider) /\ DOMAIN entities' = DOMAIN entities
<1> DEFINE n == Cardinality(L!EntriesOf(i))
<1>1. n \in Nat
  BY CountsAreNumbers DEF LayerInv
<1>2. entities' = [entities EXCEPT ![i].count = n]
  OBVIOUS
<1> HIDE DEF n
<1>3. /\ entities' \in Seq(EntityRow) /\ Len(entities') = Len(entities) /\ DOMAIN entities' = DOMAIN entities
      /\ \A j \in DOMAIN entities :
           /\ entities'[j].aliases = entities[j].aliases
           /\ entities'[j].first = entities[j].first /\ entities'[j].last = entities[j].last
           /\ entities'[j].count = IF j = i THEN n ELSE entities[j].count
  BY <1>1, <1>2, EntityCounted DEF LayerInv
<1>4. \A j \in DOMAIN entities : \A d : Dated(entities'[j], d) <=> Dated(entities[j], d)
  BY <1>3 DEF Dated
<1>5. EmailsOwned'
  BY <1>3 DEF LayerInv, PeopleKept, EmailsOwned
<1>6. EntitiesCounted'
  <2> SUFFICES ASSUME NEW j \in DOMAIN entities, <<"entity", j>> \notin Unsettled'
               PROVE  entities'[j].count = Cardinality(L!EntriesOf(j)')
    BY <1>3 DEF EntitiesCounted
  <2>1. L!EntriesOf(j)' = L!EntriesOf(j)
    BY DEF L!EntriesOf
  <2> QED
    BY <1>3, <2>1 DEF LayerInv, PeopleKept, EntitiesCounted, n
<1>7. \A l \in links' : l.entity \in DOMAIN entities' /\ Dated(entities'[l.entity], l.date)
  BY <1>3, <1>4 DEF LayerInv, PeopleKept
<1>8. UNCHANGED threads => Wider
  BY <1>3, <1>4 DEF Wider
<1> QED
  BY <1>3, <1>5, <1>6, <1>7, <1>8 DEF PeopleKept, Dated

LEMMA CountLinksKeeps ==
  ASSUME L!LayerParameters, LayerInv, NEW w \in Worker, L!CountLinks(w)
  PROVE  LayerInv'
<1> DEFINE id == call[w].id
           next == call[w].who + 1
           c == [call[w] EXCEPT !.at = "find", !.who = next]
<1>1. /\ call[w] \in LayerCall /\ call[w].at = "count" /\ id \in DOMAIN entities /\ mu["daemon"] = w
      /\ call[w].letter \in Letter /\ call[w].entry = call[w].letter.entry
  BY DEF L!CountLinks, LayerInv, LayerTyped, InLayer, InDerivation, Deriving, Locking
<1>2. /\ entities' = [entities EXCEPT ![id].count = Cardinality(L!EntriesOf(id))]
      /\ torn' = torn \ {<<"entity", id>>} /\ UNCHANGED <<index, owner, links, threads, threadLinks>>
  <2>1. entities' = [entities EXCEPT ![id].count = Cardinality(L!EntriesOf(id))]
    BY SameCount DEF L!CountLinks
  <2>2. torn' = torn \ {<<"entity", id>>} /\ UNCHANGED <<index, owner, links, threads, threadLinks>>
    BY DEF L!CountLinks
  <2> QED
    BY <2>1, <2>2
<1>3. call' = [call EXCEPT ![w] = c]
  BY DEF L!CountLinks
<1>0. next \in Nat
  BY <1>1 DEF LayerCall
<1> HIDE DEF next
<1>4. c \in LayerCall /\ c.at = "find" /\ c.letter = call[w].letter /\ c.entry = call[w].entry
  BY <1>0, <1>1 DEF LayerCall, LayerStep
<1> HIDE DEF c
<1>5. mu' \in [{"daemon"} -> Worker \union {None}]
  BY MutexIs DEF LayerInv, L!CountLinks
<1>6. call' \in [Worker -> LayerCall] /\ call'[w] = c /\ \A v \in Worker \ {w} : call'[v] = call[v]
  BY <1>3, <1>4, CallMoves DEF LayerInv
<1>7. Counted(call[w]) = {<<"entity", id>>}
  BY <1>1 DEF Counted
<1> HIDE DEF id
<1>8. \A g : g # <<"entity", id>> /\ g \notin Unsettled' => g \notin Unsettled
  BY <1>2, <1>6, <1>7, SettledBefore
<1>9. PeopleKept' /\ entities' \in Seq(EntityRow) /\ Len(entities') = Len(entities) /\ Wider /\ DOMAIN entities' = DOMAIN entities
  <2>1. \A j : j # id /\ <<"entity", j>> \notin Unsettled' => <<"entity", j>> \notin Unsettled
    BY <1>8
  <2> QED
    BY <1>1, <1>2, <2>1, PeopleCounted
<1>10. LayerTyped'
  BY <1>2, <1>5, <1>6, <1>9 DEF LayerInv, LayerTyped
<1>11. ThreadsKept'
  BY <1>2, <1>8, ThreadsStay DEF LayerInv
<1>12. InLayer(w)'
  BY <1>1, <1>4, <1>6 DEF InLayer, InDerivation, InRemoval, Removing, Locking
<1> QED
  BY <1>1, <1>3, <1>4, <1>9, <1>10, <1>11, <1>12, LayerStepKeeps

-----------------------------------------------------------------------------
(* The conversations.                                                      *)
LEMMA ThreadWidened ==
  ASSUME LayerTyped, L!LayerParameters, NEW c \in L!Conversation, NEW date \in Nat,
         threads' = [threads EXCEPT ![c] = IF @ = None THEN [first |-> date, last |-> date, count |-> 0]
                                           ELSE L!Widen(@, date)]
  PROVE  /\ threads' \in [L!Conversation -> ThreadRow \union {None}]
         /\ \A d \in L!Conversation \ {c} : threads'[d] = threads[d]
         /\ threads'[c] # None
         /\ threads'[c].count = IF threads[c] = None THEN 0 ELSE threads[c].count
         /\ threads[c] # None => \A d \in Nat \union {None} : Dated(threads[c], d) => Dated(threads'[c], d)
         /\ \A d \in Nat \union {None} : (d # None => d = date) => Dated(threads'[c], d)
<1> DEFINE r == IF threads[c] = None THEN [first |-> date, last |-> date, count |-> 0]
                ELSE L!Widen(threads[c], date)
<1>1. threads \in [L!Conversation -> ThreadRow \union {None}] /\ None \notin ThreadRow
  BY DEF LayerTyped, L!LayerParameters, ThreadRow
<1>2. threads' = [threads EXCEPT ![c] = r]
  OBVIOUS
<1>3. /\ r \in ThreadRow /\ r.first <= date /\ date <= r.last
      /\ r.count = IF threads[c] = None THEN 0 ELSE threads[c].count
      /\ threads[c] # None => r.first <= threads[c].first /\ threads[c].last <= r.last
  <2>1. CASE threads[c] = None
    <3>1. r = [first |-> date, last |-> date, count |-> 0]
      BY <2>1
    <3> QED
      BY <2>1, <3>1 DEF ThreadRow
  <2>2. CASE threads[c] # None
    <3> DEFINE e == threads[c]
               first == L!Min2(e.first, date)
               last == L!Max2(e.last, date)
    <3>1. e \in ThreadRow /\ e.first \in Nat /\ e.last \in Nat /\ e.count \in Nat
      BY <1>1, <2>2 DEF ThreadRow
    <3>2. /\ first \in Nat /\ last \in Nat /\ first <= e.first /\ e.last <= last
          /\ first <= date /\ date <= last
      BY <3>1 DEF L!Min2, L!Max2
    <3>3. r = [e EXCEPT !.first = first, !.last = last]
      BY <2>2 DEF L!Widen
    <3> HIDE DEF first, last, r
    <3>4. r \in ThreadRow /\ r.first = first /\ r.last = last /\ r.count = e.count
      BY <3>1, <3>2, <3>3 DEF ThreadRow
    <3> QED
      BY <2>2, <3>2, <3>4
  <2> QED
    BY <2>1, <2>2
<1> HIDE DEF r
<1>4. threads' \in [L!Conversation -> ThreadRow \union {None}] /\ threads'[c] = r
      /\ \A d \in L!Conversation \ {c} : threads'[d] = threads[d]
  BY <1>1, <1>2, <1>3
<1>5. r \in ThreadRow /\ r.first \in Nat /\ r.last \in Nat
  BY <1>3 DEF ThreadRow
<1>6. threads[c] # None => threads[c].first \in Nat /\ threads[c].last \in Nat
  BY <1>1 DEF ThreadRow
<1>7. ASSUME threads[c] # None, NEW d \in Nat \union {None}, Dated(threads[c], d) PROVE Dated(r, d)
  BY <1>3, <1>5, <1>6, <1>7 DEF Dated
<1>8. ASSUME NEW d \in Nat \union {None}, d # None => d = date PROVE Dated(r, d)
  BY <1>3, <1>5, <1>8 DEF Dated
<1> QED
  BY <1>1, <1>3, <1>4, <1>5, <1>7, <1>8

LEMMA UpsertThreadKeeps ==
  ASSUME L!LayerParameters, LayerInv, NEW w \in Worker, L!UpsertThread(w)
  PROVE  LayerInv'
<1> DEFINE l == call[w].letter
           t == l.conversation
           date == L!DateOf(l)
<1>1. /\ call[w] \in LayerCall /\ call[w].at = "thread" /\ mu["daemon"] = w
      /\ l \in Letter /\ call[w].entry = l.entry /\ t # None
  BY DEF L!UpsertThread, LayerInv, LayerTyped, InLayer, InDerivation, Deriving, Locking
<1>2. t \in L!Conversation /\ date \in Nat /\ (l.date # None => date = l.date) /\ l.date \in Nat \union {None}
  BY <1>1, DateTyped DEF L!Conversation
<1>3. /\ threads' = [threads EXCEPT ![t] = IF @ = None THEN [first |-> date, last |-> date, count |-> 0]
                                           ELSE L!Widen(@, date)]
      /\ UNCHANGED <<index, entities, owner, links, threadLinks, torn>>
  BY DEF L!UpsertThread, L!Thread
<1>4. PICK c \in LayerCall : /\ call' = [call EXCEPT ![w] = c]
                             /\ c.at = "linkThread" /\ c.letter = l /\ c.entry = call[w].entry
  BY CallGoes DEF LayerInv, LayerStep, L!UpsertThread
<1>5. mu' \in [{"daemon"} -> Worker \union {None}]
  BY MutexIs DEF LayerInv, L!UpsertThread
<1>6. call' \in [Worker -> LayerCall] /\ call'[w] = c /\ \A v \in Worker \ {w} : call'[v] = call[v]
  BY <1>4, CallMoves DEF LayerInv
<1>7. Counted(call[w]) = {}
  BY <1>1 DEF Counted
<1> HIDE DEF date, t, l
<1>8. /\ threads' \in [L!Conversation -> ThreadRow \union {None}]
      /\ \A d \in L!Conversation \ {t} : threads'[d] = threads[d]
      /\ threads'[t] # None
      /\ threads'[t].count = IF threads[t] = None THEN 0 ELSE threads[t].count
      /\ threads[t] # None => \A d \in Nat \union {None} : Dated(threads[t], d) => Dated(threads'[t], d)
      /\ \A d \in Nat \union {None} : (d # None => d = date) => Dated(threads'[t], d)
  <2>1. LayerTyped
    BY DEF LayerInv
  <2> QED
    BY <1>2, <1>3, <2>1, ThreadWidened
<1>9. LayerTyped'
  BY <1>3, <1>5, <1>6, <1>8 DEF LayerInv, LayerTyped
<1>10. \A g : g \notin Unsettled' => g \notin Unsettled
  BY <1>3, <1>6, <1>7, SettledBefore
<1>11. PeopleKept'
  BY <1>3, <1>10, PeopleStay DEF LayerInv
<1>12. Wider
  BY <1>3, <1>8 DEF Wider
<1>13. ThreadsCounted'
  <2> SUFFICES ASSUME NEW d \in L!Conversation, threads'[d] # None, <<"thread", d>> \notin Unsettled'
               PROVE  threads'[d].count = Cardinality(L!InThread(d)')
    BY DEF ThreadsCounted
  <2>1. L!InThread(d)' = L!InThread(d)
    BY <1>3 DEF L!InThread
  <2>2. CASE threads[d] # None
    <3>1. threads'[d].count = threads[d].count
      BY <1>8, <2>2
    <3> QED
      BY <1>10, <2>1, <2>2, <3>1 DEF LayerInv, ThreadsKept, ThreadsCounted
  <2>3. CASE threads[d] = None
    <3>1. d = t /\ threads'[d].count = 0
      BY <1>8, <2>3
    <3>2. L!InThread(d) = {}
      BY <2>3 DEF LayerInv, ThreadsKept, L!InThread
    <3> QED
      BY <2>1, <3>1, <3>2, FS_EmptySet
  <2> QED
    BY <2>2, <2>3
<1>14. ThreadsKept'
  <2>1. ASSUME NEW k \in threadLinks' PROVE threads'[k.thread] # None /\ Dated(threads'[k.thread], k.date)
    <3>1. /\ k \in threadLinks /\ k.date \in Nat \union {None} /\ k.thread \in L!Conversation
          /\ threads[k.thread] # None /\ Dated(threads[k.thread], k.date)
      BY <1>3, <2>1 DEF LayerInv, LayerTyped, ThreadLink, ThreadsKept
    <3> QED
      BY <1>8, <3>1
  <2> QED
    BY <1>13, <2>1 DEF ThreadsKept, Dated
<1>15. InLayer(w)'
  <2>1. call'[w].at = "linkThread" /\ call'[w].letter = l /\ call'[w].entry = l.entry /\ l.conversation = t
    BY <1>1, <1>4, <1>6 DEF l, t
  <2>2. threads'[t] # None /\ Dated(threads'[t], l.date) /\ t # None /\ l \in Letter
    BY <1>1, <1>2, <1>8
  <2> QED
    BY <2>1, <2>2 DEF InLayer, InDerivation, InRemoval, Locking, Removing, Dated
<1> QED
  BY <1>1, <1>4, <1>9, <1>11, <1>12, <1>14, <1>15, LayerStepKeeps

LEMMA LinkThreadEntryKeeps ==
  ASSUME L!LayerParameters, LayerInv, NEW w \in Worker, L!LinkThreadEntry(w)
  PROVE  LayerInv'
<1> DEFINE t == call[w].letter.conversation
           k == [thread |-> t, entry |-> call[w].entry, date |-> call[w].letter.date]
<1>1. /\ call[w] \in LayerCall /\ call[w].at = "linkThread" /\ t # None /\ threads[t] # None
      /\ call[w].letter \in Letter /\ call[w].entry = call[w].letter.entry
      /\ Dated(threads[t], call[w].letter.date)
  BY DEF L!LinkThreadEntry, LayerInv, LayerTyped, InLayer, InDerivation, Deriving
<1>2. call[w].letter.date \in Nat \union {None} /\ call[w].entry \in L!Entry /\ t \in L!Conversation
  BY <1>1, DateTyped DEF L!Entry, L!Conversation
<1>3. k \in ThreadLink /\ k.thread = t /\ k.date = call[w].letter.date
  BY <1>2 DEF ThreadLink
<1>4. (threadLinks' = threadLinks \/ threadLinks' = threadLinks \union {k})
      /\ UNCHANGED <<index, entities, owner, links, threads, torn>>
  BY DEF L!LinkThreadEntry, L!Thread
<1>5. PICK c \in LayerCall : /\ call' = [call EXCEPT ![w] = c]
                             /\ c.at = "countThread" /\ c.letter = call[w].letter /\ c.entry = call[w].entry
  BY CallGoes DEF LayerInv, LayerStep, L!LinkThreadEntry
<1> HIDE DEF k
<1>6. mu["daemon"] = None /\ mu'["daemon"] = w /\ mu' \in [{"daemon"} -> Worker \union {None}]
  BY MutexIs DEF LayerInv, L!LinkThreadEntry
<1>7. call' \in [Worker -> LayerCall] /\ call'[w] = c /\ \A v \in Worker \ {w} : call'[v] = call[v]
  BY <1>5, CallMoves DEF LayerInv
<1>8. threadLinks' \subseteq ThreadLink /\ IsFiniteSet(threadLinks')
  <2>1. threadLinks \subseteq ThreadLink /\ IsFiniteSet(threadLinks)
    BY DEF LayerInv, LayerTyped
  <2>2. IsFiniteSet(threadLinks \union {k})
    BY <2>1, FS_AddElement
  <2> QED
    BY <1>3, <1>4, <2>1, <2>2
<1>9. LayerTyped'
  BY <1>4, <1>6, <1>7, <1>8 DEF LayerInv, LayerTyped
<1>10. Counted(call[w]) = {} /\ Counted(c) = {<<"thread", t>>}
  BY <1>1, <1>5 DEF Counted
<1>11. \A g : g \notin Unsettled' => g \notin Unsettled
  BY <1>4, <1>7, <1>10, SettledBefore
<1>12. <<"thread", t>> \in Unsettled'
  BY <1>7, <1>10, CountingIs DEF Unsettled
<1>13. ThreadsCounted'
  <2> SUFFICES ASSUME NEW d \in L!Conversation, threads[d] # None, <<"thread", d>> \notin Unsettled'
               PROVE  threads[d].count = Cardinality(L!InThread(d)')
    BY <1>4 DEF ThreadsCounted
  <2>1. d # t
    BY <1>12
  <2>2. L!InThread(d)' = L!InThread(d)
    BY <1>3, <1>4, <2>1 DEF L!InThread
  <2> QED
    BY <1>11, <2>2 DEF LayerInv, ThreadsKept, ThreadsCounted
<1>14. ThreadsKept'
  <2>1. \A l \in threadLinks' : threads'[l.thread] # None /\ Dated(threads'[l.thread], l.date)
    BY <1>1, <1>3, <1>4 DEF LayerInv, ThreadsKept
  <2> QED
    BY <1>13, <2>1 DEF ThreadsKept, Dated
<1>15. PeopleKept'
  BY <1>4, <1>11, PeopleStay DEF LayerInv
<1>16. InLayer(w)'
  BY <1>1, <1>4, <1>5, <1>6, <1>7 DEF InLayer, InDerivation, InRemoval, Removing
<1> QED
  BY <1>4, <1>5, <1>6, <1>9, <1>14, <1>15, <1>16, NotNarrower, LayerStepKeeps

LEMMA ThreadsRecounted ==
  ASSUME L!LayerParameters, LayerInv, NEW t \in L!Conversation, threads[t] # None, UNCHANGED threadLinks,
         threads' = [threads EXCEPT ![t].count = Cardinality(L!InThread(t))],
         \A d : d # t /\ <<"thread", d>> \notin Unsettled' => <<"thread", d>> \notin Unsettled
  PROVE  ThreadsKept' /\ threads' \in [L!Conversation -> ThreadRow \union {None}]
         /\ (UNCHANGED entities => Wider)
         /\ \A d \in L!Conversation : threads'[d] # None <=> threads[d] # None
<1> DEFINE n == Cardinality(L!InThread(t))
<1>1. n \in Nat
  BY CountsAreNumbers DEF LayerInv
<1>2. threads' = [threads EXCEPT ![t].count = n]
  OBVIOUS
<1> HIDE DEF n
<1>3. /\ threads' \in [L!Conversation -> ThreadRow \union {None}]
      /\ \A d \in L!Conversation \ {t} : threads'[d] = threads[d]
      /\ threads'[t] # None /\ threads'[t].first = threads[t].first /\ threads'[t].last = threads[t].last
      /\ threads'[t].count = n
  BY <1>1, <1>2, ThreadCounted DEF LayerInv
<1>4. \A d \in L!Conversation : \A x : Dated(threads'[d], x) <=> Dated(threads[d], x)
  BY <1>3 DEF Dated
<1>5. ThreadsCounted'
  <2> SUFFICES ASSUME NEW d \in L!Conversation, threads'[d] # None, <<"thread", d>> \notin Unsettled'
               PROVE  threads'[d].count = Cardinality(L!InThread(d)')
    BY DEF ThreadsCounted
  <2>1. L!InThread(d)' = L!InThread(d)
    BY DEF L!InThread
  <2> QED
    BY <1>3, <2>1 DEF LayerInv, ThreadsKept, ThreadsCounted, n
<1>6. \A l \in threadLinks' : threads'[l.thread] # None /\ Dated(threads'[l.thread], l.date)
  <2> SUFFICES ASSUME NEW l \in threadLinks PROVE threads'[l.thread] # None /\ Dated(threads'[l.thread], l.date)
    OBVIOUS
  <2>1. l.thread \in L!Conversation /\ threads[l.thread] # None /\ Dated(threads[l.thread], l.date)
    BY DEF LayerInv, LayerTyped, ThreadLink, ThreadsKept
  <2> QED
    BY <1>3, <1>4, <2>1
<1>7. UNCHANGED entities => Wider
  BY <1>3, <1>4 DEF Wider
<1> QED
  BY <1>3, <1>5, <1>6, <1>7 DEF ThreadsKept, Dated

LEMMA CountThreadKeeps ==
  ASSUME L!LayerParameters, LayerInv, NEW w \in Worker, L!CountThread(w)
  PROVE  LayerInv'
<1> DEFINE t == call[w].letter.conversation
<1>1. /\ call[w].at = "countThread" /\ mu["daemon"] = w /\ threads[t] # None
      /\ t \in L!Conversation
  BY DEF L!CountThread, LayerInv, LayerTyped, InLayer, InDerivation, Deriving, Locking, L!Conversation
<1>2. /\ threads' = [threads EXCEPT ![t].count = Cardinality(L!InThread(t))]
      /\ torn' = torn \ {<<"thread", t>>} /\ UNCHANGED <<index, entities, owner, links, threadLinks>>
  <2>1. threads' = [threads EXCEPT ![t].count = Cardinality(L!InThread(t))]
    BY SameCount DEF L!CountThread, L!Thread
  <2>2. torn' = torn \ {<<"thread", t>>} /\ UNCHANGED <<index, entities, owner, links, threadLinks>>
    BY DEF L!CountThread, L!Thread
  <2> QED
    BY <2>1, <2>2
<1>3. PICK c \in LayerCall : call' = [call EXCEPT ![w] = c] /\ c.at = "done"
  BY CallGoes DEF LayerInv, LayerStep, L!CountThread
<1>4. mu' \in [{"daemon"} -> Worker \union {None}]
  BY MutexIs DEF LayerInv, L!CountThread
<1>5. call' \in [Worker -> LayerCall] /\ call'[w] = c /\ \A v \in Worker \ {w} : call'[v] = call[v]
  BY <1>3, CallMoves DEF LayerInv
<1>6. Counted(call[w]) = {<<"thread", t>>}
  BY <1>1 DEF Counted
<1> HIDE DEF t
<1>7. \A g : g # <<"thread", t>> /\ g \notin Unsettled' => g \notin Unsettled
  BY <1>2, <1>5, <1>6, SettledBefore
<1>8. ThreadsKept' /\ threads' \in [L!Conversation -> ThreadRow \union {None}] /\ Wider
  <2>1. \A d : d # t /\ <<"thread", d>> \notin Unsettled' => <<"thread", d>> \notin Unsettled
    BY <1>7
  <2> QED
    BY <1>1, <1>2, <2>1, ThreadsRecounted
<1>9. LayerTyped'
  BY <1>2, <1>4, <1>5, <1>8 DEF LayerInv, LayerTyped
<1>10. PeopleKept'
  BY <1>2, <1>7, PeopleStay DEF LayerInv
<1>11. InLayer(w)'
  BY <1>3, <1>5 DEF InLayer, InDerivation, InRemoval, Locking, Removing, Deriving
<1> QED
  BY <1>1, <1>3, <1>8, <1>9, <1>10, <1>11, LayerStepKeeps

-----------------------------------------------------------------------------
(* A delete takes the links of its entry, and the groups that were linked  *)
(* are to be counted until it has counted them.                            *)
LEMMA UnlinkPeopleKeeps ==
  ASSUME L!LayerParameters, LayerInv, NEW w \in Worker, call[w].at = "unlink",
         links' = {l \in links : l.entry # call[w].entry}, L!Goes(w, "unlinkThread"),
         UNCHANGED <<index, entities, owner, threads, threadLinks, mu, torn>>
  PROVE  LayerInv'
<1> DEFINE x == call[w].entry
           ids == call[w].ids
<1>1. /\ call[w] \in LayerCall /\ x \in L!Entry /\ mu["daemon"] = w
      /\ (\A g \in ids : There(g)) /\ L!LinkedTo(x) \subseteq ids
  BY DEF LayerInv, LayerTyped, InLayer, InRemoval, Locking, Removing
<1>2. PICK c \in LayerCall : /\ call' = [call EXCEPT ![w] = c]
                             /\ c.at = "unlinkThread" /\ c.ids = ids /\ c.entry = x
  BY CallGoes DEF LayerInv, LayerStep
<1>3. call' \in [Worker -> LayerCall] /\ call'[w] = c /\ \A v \in Worker \ {w} : call'[v] = call[v]
  BY <1>2, CallMoves DEF LayerInv
<1>4. Counted(call[w]) = ids /\ Counted(c) = ids
  BY <1>2 DEF Counted
<1>5. \A g : g \notin Unsettled' => g \notin Unsettled
  BY <1>3, <1>4, SettledBefore
<1>6. \A g \in ids : g \in Unsettled'
  BY <1>3, <1>4, CountingIs DEF Unsettled
<1> HIDE DEF x, ids
<1>0. links' = {l \in links : l.entry # x}
  BY DEF x
<1>7. links' \subseteq LinkRow /\ IsFiniteSet(links')
  <2>1. links \subseteq LinkRow /\ IsFiniteSet(links)
    BY DEF LayerInv, LayerTyped
  <2>2. IsFiniteSet({l \in links : l.entry # x})
    BY <2>1, FS_Subset
  <2> QED
    BY <1>0, <2>1, <2>2
<1>8. LayerTyped'
  BY <1>3, <1>7 DEF LayerInv, LayerTyped
<1>9. EntitiesCounted'
  <2> SUFFICES ASSUME NEW i \in DOMAIN entities, <<"entity", i>> \notin Unsettled'
               PROVE  entities[i].count = Cardinality(L!EntriesOf(i)')
    BY DEF EntitiesCounted
  <2>1. <<"entity", i>> \notin ids
    BY <1>6
  <2>2. \A k \in links : k.entity = i => k.entry # x
    BY <1>1, <2>1 DEF L!LinkedTo
  <2>3. L!EntriesOf(i)' = L!EntriesOf(i)
    BY <1>0, <2>2 DEF L!EntriesOf
  <2> QED
    BY <1>5, <2>3 DEF LayerInv, PeopleKept, EntitiesCounted
<1>10. PeopleKept'
  <2>1. EmailsOwned'
    BY DEF LayerInv, PeopleKept, EmailsOwned
  <2>2. \A l \in links' : l.entity \in DOMAIN entities' /\ Dated(entities'[l.entity], l.date)
    BY <1>0 DEF LayerInv, PeopleKept
  <2> QED
    BY <1>9, <2>1, <2>2 DEF PeopleKept, Dated
<1>11. ThreadsKept'
  BY <1>5, ThreadsStay DEF LayerInv
<1>12. \A g : There(g)' = There(g)
  BY DEF There
<1>13. \A l \in threadLinks : l.entry = x => <<"thread", l.thread>> \in ids
  BY <1>1 DEF L!LinkedTo
<1>14. /\ call'[w].at = "unlinkThread" /\ call'[w].ids = ids /\ call'[w].entry = x /\ mu'["daemon"] = w
       /\ threadLinks' = threadLinks
  BY <1>1, <1>2, <1>3
<1>15. InLayer(w)'
  BY <1>1, <1>12, <1>13, <1>14 DEF InLayer, InDerivation, InRemoval, Deriving
<1> QED
  BY <1>1, <1>2, <1>8, <1>10, <1>11, <1>15, NotNarrower, LayerStepKeeps

LEMMA UnlinkThreadKeeps ==
  ASSUME L!LayerParameters, LayerInv, NEW w \in Worker, call[w].at = "unlinkThread",
         threadLinks' = {l \in threadLinks : l.entry # call[w].entry}, L!Goes(w, "recount"),
         UNCHANGED <<index, entities, owner, links, threads, mu, torn>>
  PROVE  LayerInv'
<1> DEFINE x == call[w].entry
           ids == call[w].ids
<1>1. /\ call[w] \in LayerCall /\ x \in L!Entry /\ mu["daemon"] = w
      /\ (\A g \in ids : There(g))
      /\ \A l \in threadLinks : l.entry = x => <<"thread", l.thread>> \in ids
  BY DEF LayerInv, LayerTyped, InLayer, InRemoval, Locking, Removing
<1>2. PICK c \in LayerCall : /\ call' = [call EXCEPT ![w] = c]
                             /\ c.at = "recount" /\ c.ids = ids /\ c.entry = x
  BY CallGoes DEF LayerInv, LayerStep
<1>3. call' \in [Worker -> LayerCall] /\ call'[w] = c /\ \A v \in Worker \ {w} : call'[v] = call[v]
  BY <1>2, CallMoves DEF LayerInv
<1>4. Counted(call[w]) = ids /\ Counted(c) = ids
  BY <1>2 DEF Counted
<1>5. \A g : g \notin Unsettled' => g \notin Unsettled
  BY <1>3, <1>4, SettledBefore
<1>6. \A g \in ids : g \in Unsettled'
  BY <1>3, <1>4, CountingIs DEF Unsettled
<1> HIDE DEF x, ids
<1>0. threadLinks' = {l \in threadLinks : l.entry # x}
  BY DEF x
<1>7. threadLinks' \subseteq ThreadLink /\ IsFiniteSet(threadLinks')
  <2>1. threadLinks \subseteq ThreadLink /\ IsFiniteSet(threadLinks)
    BY DEF LayerInv, LayerTyped
  <2>2. IsFiniteSet({l \in threadLinks : l.entry # x})
    BY <2>1, FS_Subset
  <2> QED
    BY <1>0, <2>1, <2>2
<1>8. LayerTyped'
  BY <1>3, <1>7 DEF LayerInv, LayerTyped
<1>9. ThreadsCounted'
  <2> SUFFICES ASSUME NEW d \in L!Conversation, threads[d] # None, <<"thread", d>> \notin Unsettled'
               PROVE  threads[d].count = Cardinality(L!InThread(d)')
    BY DEF ThreadsCounted
  <2>1. <<"thread", d>> \notin ids
    BY <1>6
  <2>2. \A k \in threadLinks : k.thread = d => k.entry # x
    BY <1>1, <2>1
  <2>3. L!InThread(d)' = L!InThread(d)
    BY <1>0, <2>2 DEF L!InThread
  <2> QED
    BY <1>5, <2>3 DEF LayerInv, ThreadsKept, ThreadsCounted
<1>10. ThreadsKept'
  <2>1. \A l \in threadLinks' : threads'[l.thread] # None /\ Dated(threads'[l.thread], l.date)
    BY <1>0 DEF LayerInv, ThreadsKept
  <2> QED
    BY <1>9, <2>1 DEF ThreadsKept, Dated
<1>11. PeopleKept'
  BY <1>5, PeopleStay DEF LayerInv
<1>12. \A g : There(g)' = There(g)
  BY DEF There
<1>14. call'[w].at = "recount" /\ call'[w].ids = ids /\ call'[w].entry = x /\ mu'["daemon"] = w
  BY <1>1, <1>2, <1>3
<1>15. InLayer(w)'
  BY <1>1, <1>12, <1>14 DEF InLayer, InDerivation, InRemoval, Deriving
<1> QED
  BY <1>1, <1>2, <1>8, <1>10, <1>11, <1>15, NotNarrower, LayerStepKeeps

LEMMA UnlinkEntryKeeps ==
  ASSUME L!LayerParameters, LayerInv, NEW w \in Worker, L!UnlinkEntry(w)
  PROVE  LayerInv'
BY UnlinkPeopleKeeps, UnlinkThreadKeeps DEF L!UnlinkEntry

LEMMA RecountKeeps ==
  ASSUME L!LayerParameters, LayerInv, NEW w \in Worker, L!Recount(w)
  PROVE  LayerInv'
<1> DEFINE ids == call[w].ids
<1>1. /\ call[w] \in LayerCall /\ call[w].at = "recount" /\ mu["daemon"] = w /\ call[w].entry \in L!Entry
      /\ (\A g \in ids : There(g)) /\ ids \subseteq Groups
      /\ UNCHANGED <<index, owner, links, threadLinks, mu>>
  BY DEF L!Recount, LayerInv, LayerTyped, InLayer, InRemoval, Locking, Removing, LayerCall
<1>2. PICK g \in ids :
        /\ IF g[1] = "entity"
           THEN entities' = [entities EXCEPT ![g[2]].count = Cardinality(L!EntriesOf(g[2]))] /\ UNCHANGED threads
           ELSE threads' = [threads EXCEPT ![g[2]].count = Cardinality(L!InThread(g[2]))] /\ UNCHANGED entities
        /\ call' = [call EXCEPT ![w].ids = @ \ {g}]
        /\ torn' = torn \ {g}
  <2>1. PICK g \in ids :
        /\ IF g[1] = "entity"
           THEN entities' = [entities EXCEPT ![g[2]].count = L!Cardinality(L!EntriesOf(g[2]))] /\ UNCHANGED threads
           ELSE threads' = [threads EXCEPT ![g[2]].count = L!Cardinality(L!InThread(g[2]))] /\ UNCHANGED entities
        /\ call' = [call EXCEPT ![w].ids = @ \ {g}]
        /\ torn' = torn \ {g}
    BY DEF L!Recount
  <2>2. L!Cardinality(L!EntriesOf(g[2])) = Cardinality(L!EntriesOf(g[2]))
    BY SameCount
  <2>3. L!Cardinality(L!InThread(g[2])) = Cardinality(L!InThread(g[2]))
    BY SameCount
  <2> QED
    BY <2>1, <2>2, <2>3
<1> DEFINE c == [call[w] EXCEPT !.ids = ids \ {g}]
<1>3. call' = [call EXCEPT ![w] = c]
  BY <1>2
<1>4. /\ c \in LayerCall /\ c.at = "recount" /\ c.ids = ids \ {g} /\ c.entry = call[w].entry
  BY <1>1 DEF LayerCall
<1> HIDE DEF c
<1>5. call' \in [Worker -> LayerCall] /\ call'[w] = c /\ \A v \in Worker \ {w} : call'[v] = call[v]
  BY <1>3, <1>4, CallMoves DEF LayerInv
<1>6. Counted(call[w]) = ids /\ Counted(c) = ids \ {g}
  BY <1>1, <1>4 DEF Counted
<1> HIDE DEF ids
<1>7. \A h : h # g /\ h \notin Unsettled' => h \notin Unsettled
  BY <1>2, <1>5, <1>6, SettledBefore
<1>8. There(g) /\ g \in Groups
  BY <1>1
<1>9. /\ PeopleKept' /\ ThreadsKept' /\ Wider
      /\ entities' \in Seq(EntityRow) /\ Len(entities') = Len(entities) /\ DOMAIN entities' = DOMAIN entities
      /\ threads' \in [L!Conversation -> ThreadRow \union {None}]
      /\ \A d \in L!Conversation : threads'[d] # None <=> threads[d] # None
  <2>1. CASE g[1] = "entity"
    <3> DEFINE i == g[2]
    <3>1. i \in DOMAIN entities /\ g = <<"entity", i>>
      BY <1>8, <2>1 DEF There, Groups
    <3>2. entities' = [entities EXCEPT ![i].count = Cardinality(L!EntriesOf(i))] /\ UNCHANGED threads
      BY <1>2, <2>1
    <3>3. \A j : j # i /\ <<"entity", j>> \notin Unsettled' => <<"entity", j>> \notin Unsettled
      BY <1>7, <3>1
    <3> HIDE DEF i
    <3>4. /\ PeopleKept' /\ entities' \in Seq(EntityRow) /\ Len(entities') = Len(entities)
          /\ Wider /\ DOMAIN entities' = DOMAIN entities
      BY <1>1, <3>1, <3>2, <3>3, PeopleCounted
    <3>5. \A d : <<"thread", d>> \notin Unsettled' => <<"thread", d>> \notin Unsettled
      BY <1>7, <3>1
    <3>6. ThreadsKept'
      BY <1>1, <3>2, <3>5, ThreadsStay DEF LayerInv
    <3> QED
      BY <3>2, <3>4, <3>6 DEF LayerInv, LayerTyped
  <2>2. CASE g[1] # "entity"
    <3> DEFINE t == g[2]
    <3>1. t \in L!Conversation /\ g = <<"thread", t>> /\ threads[t] # None
      BY <1>8, <2>2 DEF There, Groups
    <3>2. threads' = [threads EXCEPT ![t].count = Cardinality(L!InThread(t))] /\ UNCHANGED entities
      BY <1>2, <2>2
    <3>3. \A d : d # t /\ <<"thread", d>> \notin Unsettled' => <<"thread", d>> \notin Unsettled
      BY <1>7, <3>1
    <3> HIDE DEF t
    <3>4. /\ ThreadsKept' /\ threads' \in [L!Conversation -> ThreadRow \union {None}] /\ Wider
          /\ \A d \in L!Conversation : threads'[d] # None <=> threads[d] # None
      BY <1>1, <3>1, <3>2, <3>3, ThreadsRecounted
    <3>5. \A i : <<"entity", i>> \notin Unsettled' => <<"entity", i>> \notin Unsettled
      BY <1>7, <3>1
    <3>6. PeopleKept'
      BY <1>1, <3>2, <3>5, PeopleStay DEF LayerInv
    <3> QED
      BY <3>2, <3>4, <3>6 DEF LayerInv, LayerTyped
  <2> QED
    BY <2>1, <2>2
<1>10. LayerTyped'
  BY <1>1, <1>5, <1>9 DEF LayerInv, LayerTyped
<1>11. \A h \in ids \ {g} : There(h)'
  BY <1>1, <1>9 DEF There, Groups
<1>12. /\ call'[w].at = "recount" /\ call'[w].ids = ids \ {g} /\ call'[w].entry \in L!Entry
       /\ mu'["daemon"] = w
  BY <1>1, <1>4, <1>5
<1>13. InLayer(w)'
  BY <1>11, <1>12 DEF InLayer, InDerivation, InRemoval, Deriving
<1> QED
  BY <1>1, <1>3, <1>4, <1>9, <1>10, <1>13, LayerStepKeeps

(* The one process dies with all its calls.                                *)
LEMMA DeathKeeps ==
  ASSUME L!LayerParameters, LayerInv, L!Crash("daemon")
  PROVE  LayerInv'
<1>1. {w \in Worker : [v \in Worker |-> "daemon"][w] = "daemon"} = Worker
  OBVIOUS
<1>2. /\ mu' = [mu EXCEPT !["daemon"] = None]
      /\ torn' = torn \union UNION {L!Counting(w) : w \in Worker}
      /\ call' = [w \in Worker |-> L!Idle]
      /\ UNCHANGED <<index, entities, owner, links, threads, threadLinks>>
  BY <1>1 DEF L!Crash
<1>3. /\ call' \in [Worker -> LayerCall] /\ \A w \in Worker : call'[w] = L!Idle
  BY <1>2, IdleCall
<1>4. LayerTyped'
  BY <1>2, <1>3 DEF LayerInv, LayerTyped
<1>5. \A g : g \notin Unsettled' => g \notin Unsettled
  BY <1>2 DEF Unsettled
<1>6. PeopleKept' /\ ThreadsKept'
  BY <1>2, <1>5, PeopleStay, ThreadsStay DEF LayerInv
<1>7. ASSUME NEW w \in Worker PROVE InLayer(w)'
  <2>1. call'[w].at = "idle"
    BY <1>3, IdleCall
  <2> QED
    BY <2>1 DEF InLayer, InDerivation, InRemoval, Deriving, Removing, Locking
<1> QED
  BY <1>4, <1>6, <1>7 DEF LayerInv

-----------------------------------------------------------------------------
LEMMA LayerStarts ==
  ASSUME L!LayerParameters, L!LayerInit
  PROVE  LayerInv
<1>1. /\ entities = <<>> /\ links = {} /\ threadLinks = {} /\ \A w \in Worker : call[w] = L!Idle
      /\ \A c \in L!Conversation : threads[c] = None
  BY DEF L!LayerInit
<1>2. LayerTyped
  <2>1. /\ index \in [L!Entry -> Letter \union {None}]
        /\ threads \in [L!Conversation -> ThreadRow \union {None}]
        /\ mu \in [{"daemon"} -> Worker \union {None}]
    BY DEF L!LayerInit
  <2>2. call \in [Worker -> LayerCall]
    BY IdleCall DEF L!LayerInit
  <2>3. owner \in [L!Alias -> 0 .. Len(entities)]
    BY <1>1 DEF L!LayerInit
  <2>4. IsFiniteSet(links) /\ IsFiniteSet(threadLinks)
    BY <1>1, FS_EmptySet
  <2> QED
    BY <1>1, <2>1, <2>2, <2>3, <2>4 DEF LayerTyped
<1>3. PeopleKept
  BY <1>1 DEF PeopleKept, EmailsOwned, EntitiesCounted
<1>4. ThreadsKept
  BY <1>1 DEF ThreadsKept, ThreadsCounted
<1>5. ASSUME NEW w \in Worker PROVE InLayer(w)
  <2>1. call[w].at = "idle"
    BY <1>1, IdleCall
  <2> QED
    BY <2>1 DEF InLayer, InDerivation, InRemoval, Deriving, Removing, Locking
<1> QED
  BY <1>2, <1>3, <1>4, <1>5 DEF LayerInv

LEMMA LayerIdles ==
  ASSUME LayerInv, UNCHANGED L!layerVars
  PROVE  LayerInv'
<1>1. UNCHANGED <<index, entities, owner, links, threads, threadLinks, mu, call, torn>>
  BY DEF L!layerVars
<1>2. \A w \in Worker : L!Counting(w)' = L!Counting(w)
  BY <1>1 DEF L!Counting, L!Thread
<1>3. Unsettled' = Unsettled
  BY <1>1, <1>2 DEF Unsettled
<1>4. PeopleKept' /\ ThreadsKept'
  BY <1>1, <1>3, PeopleStay, ThreadsStay DEF LayerInv
<1>5. LayerTyped'
  BY <1>1 DEF LayerInv, LayerTyped
<1>6. ASSUME NEW w \in Worker PROVE InLayer(w)'
  <2>1. L!FindAlias(w)' = L!FindAlias(w) /\ \A x : L!LinkedTo(x)' = L!LinkedTo(x)
    BY <1>1 DEF L!FindAlias, L!Someone, L!LinkedTo
  <2>2. \A g : There(g)' = There(g)
    BY <1>1 DEF There
  <2>3. InDerivation(w)'
    BY <1>1, <2>1 DEF LayerInv, InLayer, InDerivation
  <2>4. InRemoval(w)'
    BY <1>1, <2>1, <2>2 DEF LayerInv, InLayer, InRemoval
  <2> QED
    BY <1>1, <2>3, <2>4 DEF LayerInv, InLayer
<1> QED
  BY <1>4, <1>5, <1>6 DEF LayerInv

(* The invariant of the memory layer, for any letters, calls and times.    *)
THEOREM LayerInvariance ==
  ASSUME L!LayerParameters
  PROVE  L!LayerSpec => []LayerInv
<1>1. L!LayerInit => LayerInv
  BY LayerStarts
<1>2. LayerInv /\ [L!LayerNext]_(L!layerVars) => LayerInv'
  <2> SUFFICES ASSUME LayerInv, [L!LayerNext]_(L!layerVars)
               PROVE  LayerInv'
    OBVIOUS
  <2>1. ASSUME NEW w \in Worker, L!LayerStep(w) PROVE LayerInv'
    <3>1. CASE \E l \in Letter : L!Upsert(w, l)
      BY <3>1, UpsertKeeps
    <3>2. CASE \E x \in L!Entry : L!Delete(w, x)
      BY <3>2, DeleteKeeps
    <3>3. CASE L!FindEntity(w) \/ L!WriteEntity(w) \/ L!LinkEntityEntry(w) \/ L!CountLinks(w)
      BY <3>3, FindEntityKeeps, WriteEntityKeeps, LinkEntityEntryKeeps, CountLinksKeeps
    <3>4. CASE L!DeriveThread(w) \/ L!UpsertThread(w) \/ L!LinkThreadEntry(w) \/ L!CountThread(w)
      BY <3>4, DeriveThreadKeeps, UpsertThreadKeeps, LinkThreadEntryKeeps, CountThreadKeeps
    <3>5. CASE L!ReadLinked(w) \/ L!UnlinkEntry(w) \/ L!Recount(w) \/ L!Unlinked(w) \/ L!Fails(w)
      BY <3>5, ReadLinkedKeeps, UnlinkEntryKeeps, RecountKeeps, UnlinkedKeeps, FailsKeeps
    <3> QED
      BY <2>1, <3>1, <3>2, <3>3, <3>4, <3>5 DEF L!LayerStep
  <2>2. CASE \E p \in {"daemon"} : L!Crash(p)
    BY <2>2, DeathKeeps
  <2>3. CASE UNCHANGED L!layerVars
    BY <2>3, LayerIdles
  <2> QED
    BY <2>1, <2>2, <2>3 DEF L!LayerNext
<1> QED
  BY <1>1, <1>2, PTL DEF L!LayerSpec

LEMMA LayerConsistent ==
  ASSUME LayerInv
  PROVE  L!LayerTypeOK /\ L!OneEntityPerEmail /\ L!CountsMatch /\ L!BracketsHold
<1>1. LayerTyped /\ PeopleKept /\ ThreadsKept
  BY DEF LayerInv
<1>2. L!LayerTypeOK
  <2>1. ASSUME NEW i \in DOMAIN entities
        PROVE  entities[i].aliases \subseteq L!Alias /\ entities[i].count \in Nat
    <3>1. entities[i] \in EntityRow
      BY <1>1 DEF LayerTyped
    <3> QED
      BY <3>1 DEF EntityRow
  <2>2. \A l \in links : l.entity \in DOMAIN entities /\ l.entry \in L!Entry
    BY <1>1 DEF LayerTyped, LinkRow, PeopleKept
  <2>3. /\ index \in [L!Entry -> Letter \union {None}]
        /\ owner \in [L!Alias -> 0 .. Len(entities)]
        /\ mu \in [{"daemon"} -> Worker \union {None}]
    BY <1>1 DEF LayerTyped
  <2> QED
    BY <2>1, <2>2, <2>3 DEF L!LayerTypeOK
<1>3. L!OneEntityPerEmail
  BY <1>1 DEF PeopleKept, EmailsOwned, L!OneEntityPerEmail
<1>4. L!CountsMatch
  <2>1. ASSUME NEW i \in DOMAIN entities, <<"entity", i>> \notin torn,
               \A w \in Worker : <<"entity", i>> \notin L!Counting(w)
        PROVE  entities[i].count = L!Cardinality(L!EntriesOf(i))
    <3>1. <<"entity", i>> \notin Unsettled
      BY <2>1 DEF Unsettled
    <3>2. entities[i].count = Cardinality(L!EntriesOf(i))
      BY <1>1, <3>1 DEF PeopleKept, EntitiesCounted
    <3> QED
      BY <3>2, SameCount
  <2>2. ASSUME NEW c \in L!Conversation, threads[c] # None, <<"thread", c>> \notin torn,
               \A w \in Worker : <<"thread", c>> \notin L!Counting(w)
        PROVE  threads[c].count = L!Cardinality(L!InThread(c))
    <3>1. <<"thread", c>> \notin Unsettled
      BY <2>2 DEF Unsettled
    <3>2. threads[c].count = Cardinality(L!InThread(c))
      BY <1>1, <2>2, <3>1 DEF ThreadsKept, ThreadsCounted
    <3> QED
      BY <3>2, SameCount
  <2> QED
    BY <2>1, <2>2 DEF L!CountsMatch
<1>5. L!BracketsHold
  BY <1>1 DEF PeopleKept, ThreadsKept, Dated, L!BracketsHold
<1> QED
  BY <1>2, <1>3, <1>4, <1>5

-----------------------------------------------------------------------------
(***************************************************************************)
(* Finite sets of numbers can be listed in order, which the passes of the  *)
(* sources do with files, messages and history ids: a set of the least     *)
(* size that could not would be listed by its least member and a list of   *)
(* the others.                                                             *)
(***************************************************************************)
(* Of a set of numbers that is not empty, one is the least.               *)
LEMMA LeastNatural ==
  ASSUME NEW T, T \subseteq Nat, T # {}
  PROVE  \E m \in T : \A k \in T : m <= k
<1> DEFINE Less == {ss \in Nat \X Nat : ss[1] < ss[2]}
<1>1. IsWellFoundedOn(Less, Nat)
  BY NatLessThanWellFounded DEF OpToRel
<1>2. \E m \in T : \A k \in T : ~ (<<k, m>> \in Less)
  <2> HIDE DEF Less
  <2> QED
    BY <1>1, WFMin
<1>3. PICK m \in T : \A k \in T : ~ (<<k, m>> \in Less)
  BY <1>2
<1>4. ASSUME NEW k \in T PROVE m <= k
  <2>1. ~ (<<k, m>> \in Less)
    BY <1>3
  <2>2. ~ (k < m)
    BY <2>1
  <2> QED
    BY <2>2
<1> QED
  BY <1>4

Lists(list, n, T) ==
  /\ list \in [1 .. n -> T]
  /\ \A x \in T : \E i \in 1 .. n : list[i] = x
  /\ \A i, j \in 1 .. n : i < j => list[i] < list[j]

Unlisted == {n \in Nat : \E T \in SUBSET Nat : /\ IsFiniteSet(T) /\ Cardinality(T) = n
                                               /\ \A list : ~ Lists(list, n, T)}

LEMMA OthersListed ==
  ASSUME NEW T \in SUBSET Nat, NEW n \in Nat, NEW a \in T, \A x \in T : a <= x,
         NEW others, Lists(others, n, T \ {a})
  PROVE  Lists([i \in 1 .. n + 1 |-> IF i = 1 THEN a ELSE others[i - 1]], n + 1, T)
<1> DEFINE list == [i \in 1 .. n + 1 |-> IF i = 1 THEN a ELSE others[i - 1]]
<1>1. /\ list[1] = a /\ 1 \in 1 .. n + 1
      /\ \A i \in 2 .. n + 1 : list[i] = others[i - 1] /\ i - 1 \in 1 .. n
  OBVIOUS
<1>2. \A i \in 1 .. n : others[i] \in T /\ others[i] # a
  BY DEF Lists
<1>3. ASSUME NEW i \in 1 .. n + 1 PROVE list[i] \in T
  BY <1>1, <1>2
<1>4. ASSUME NEW x \in T PROVE \E i \in 1 .. n + 1 : list[i] = x
  <2>1. CASE x = a
    BY <2>1, <1>1
  <2>2. CASE x # a
    <3>1. PICK j \in 1 .. n : others[j] = x
      BY <2>2 DEF Lists
    <3>2. j + 1 \in 2 .. n + 1 /\ (j + 1) - 1 = j
      OBVIOUS
    <3>3. list[j + 1] = x /\ j + 1 \in 1 .. n + 1
      BY <1>1, <3>1, <3>2
    <3> QED
      BY <3>3
  <2> QED
    BY <2>1, <2>2
<1>5. ASSUME NEW i \in 1 .. n + 1, NEW j \in 1 .. n + 1, i < j PROVE list[i] < list[j]
  <2>1. j \in 2 .. n + 1 /\ list[j] = others[j - 1] /\ j - 1 \in 1 .. n
    BY <1>1, <1>5
  <2>2. CASE i = 1
    <3>1. list[j] \in Nat /\ a \in Nat /\ a <= list[j] /\ a # list[j]
      BY <2>1, <1>2
    <3> QED
      BY <2>2, <1>1, <3>1
  <2>3. CASE i # 1
    <3>1. i \in 2 .. n + 1 /\ i - 1 \in 1 .. n /\ i - 1 < j - 1
      BY <2>3, <1>5
    <3> QED
      BY <3>1, <2>1, <1>1 DEF Lists
  <2> QED
    BY <2>2, <2>3
<1>6. list \in [1 .. n + 1 -> T]
  BY <1>3
<1> HIDE DEF list
<1>7. Lists(list, n + 1, T)
  BY <1>4, <1>5, <1>6 DEF Lists
<1> QED
  BY <1>7 DEF list

LEMMA CanBeListed ==
  ASSUME NEW T \in SUBSET Nat, IsFiniteSet(T)
  PROVE  /\ Cardinality(T) \in Nat
         /\ \E list : Lists(list, Cardinality(T), T)
<1>1. Cardinality(T) \in Nat
  BY FS_CardinalityType
<1> SUFFICES ASSUME \A list : ~ Lists(list, Cardinality(T), T) PROVE FALSE
  BY <1>1
<1>2. Unlisted \subseteq Nat /\ Cardinality(T) \in Unlisted
  BY <1>1 DEF Unlisted
<1>3. PICK n \in Unlisted : \A k \in Unlisted : n <= k
  <2>1. Unlisted # {}
    BY <1>2
  <2> QED
    BY <1>2, <2>1, LeastNatural
<1>4. PICK U \in SUBSET Nat : /\ IsFiniteSet(U) /\ Cardinality(U) = n
                              /\ \A list : ~ Lists(list, n, U)
  BY <1>3 DEF Unlisted
<1>5. n \in Nat
  BY <1>2, <1>3
<1>6. U # {}
  <2> SUFFICES ASSUME U = {} PROVE FALSE
    OBVIOUS
  <2>1. n = 0
    BY <1>4, FS_EmptySet
  <2>2. Lists([i \in 1 .. 0 |-> 0], 0, {})
    BY DEF Lists
  <2> QED
    BY <1>4, <2>1, <2>2
<1>7. PICK a \in U : \A x \in U : a <= x
  BY <1>6, LeastNatural
<1>8. n # 0 /\ n - 1 \in Nat
  BY <1>4, <1>5, <1>6, FS_EmptySet
<1>9. IsFiniteSet(U \ {a}) /\ Cardinality(U \ {a}) = n - 1
  BY <1>4, FS_RemoveElement
<1>10. n - 1 \notin Unlisted
  BY <1>3, <1>5
<1>11. PICK others : Lists(others, n - 1, U \ {a})
  BY <1>8, <1>9, <1>10 DEF Unlisted
<1>12. \E list : Lists(list, (n - 1) + 1, U)
  BY <1>7, <1>8, <1>11, OthersListed
<1>13. (n - 1) + 1 = n
  BY <1>5
<1> QED
  BY <1>4, <1>12, <1>13

(* The last of the list is the greatest.                                   *)
LEMMA GreatestNumber ==
  ASSUME NEW T \in SUBSET Nat, IsFiniteSet(T), T # {}
  PROVE  \E x \in T : \A y \in T : y <= x
<1> DEFINE n == Cardinality(T)
<1>1. n \in Nat /\ n # 0
  BY FS_EmptySet, CanBeListed
<1>2. PICK list : Lists(list, n, T)
  BY CanBeListed
<1> HIDE DEF n
<1>3. n \in 1 .. n /\ list[n] \in T
  BY <1>1, <1>2 DEF Lists
<1>4. ASSUME NEW y \in T PROVE y <= list[n]
  <2>1. PICK i \in 1 .. n : list[i] = y
    BY <1>2 DEF Lists
  <2>2. i = n \/ i < n
    BY <1>1
  <2>3. i < n => y < list[n]
    BY <1>2, <1>3, <2>1 DEF Lists
  <2>4. y \in Nat /\ list[n] \in Nat
    BY <1>3
  <2> QED
    BY <2>1, <2>2, <2>3, <2>4
<1> QED
  BY <1>3, <1>4

(* Whoever chooses an ordered list of a set has all its members, once      *)
(* each; from the last to the first as well.                               *)
Listing(list, n, T) ==
  /\ n \in Nat /\ list \in [1 .. n -> T]
  /\ \A x \in T : \E i \in 1 .. n : list[i] = x
  /\ \A i, j \in 1 .. n : list[i] = list[j] => i = j

LEMMA ListsOnce ==
  ASSUME NEW T \in SUBSET Nat, NEW n \in Nat, NEW list, Lists(list, n, T)
  PROVE  Listing(list, n, T)
<1>1. ASSUME NEW i \in 1 .. n, NEW j \in 1 .. n, list[i] = list[j] PROVE i = j
  <2>1. list[i] \in Nat /\ list[j] \in Nat
    BY DEF Lists
  <2>2. ~ (i < j) /\ ~ (j < i)
    BY <1>1, <2>1 DEF Lists
  <2> QED
    BY <2>2
<1> QED
  BY <1>1 DEF Lists, Listing

LEMMA ReversedLists ==
  ASSUME NEW T \in SUBSET Nat, NEW n \in Nat, NEW list, Lists(list, n, T)
  PROVE  \E back : /\ Listing(back, n, T)
                   /\ \A i, j \in 1 .. n : i < j => back[i] > back[j]
<1> DEFINE back == [i \in 1 .. n |-> list[n + 1 - i]]
<1>1. \A i \in 1 .. n : n + 1 - i \in 1 .. n /\ back[i] = list[n + 1 - i]
  OBVIOUS
<1>2. Listing(list, n, T)
  BY ListsOnce
<1>3. back \in [1 .. n -> T]
  BY <1>1, <1>2 DEF Listing
<1>4. ASSUME NEW x \in T PROVE \E i \in 1 .. n : back[i] = x
  <2>1. PICK i \in 1 .. n : list[i] = x
    BY <1>2 DEF Listing
  <2>2. n + 1 - i \in 1 .. n /\ n + 1 - (n + 1 - i) = i
    OBVIOUS
  <2>3. back[n + 1 - i] = x
    BY <1>1, <2>1, <2>2
  <2> QED
    BY <2>2, <2>3
<1>5. ASSUME NEW i \in 1 .. n, NEW j \in 1 .. n, back[i] = back[j] PROVE i = j
  <2>1. n + 1 - i = n + 1 - j
    BY <1>1, <1>2, <1>5 DEF Listing
  <2> QED
    BY <2>1
<1>6. ASSUME NEW i \in 1 .. n, NEW j \in 1 .. n, i < j PROVE back[i] > back[j]
  <2>1. n + 1 - j < n + 1 - i
    BY <1>6
  <2>2. list[n + 1 - j] < list[n + 1 - i] /\ list[n + 1 - j] \in Nat /\ list[n + 1 - i] \in Nat
    BY <2>1, <1>1, <1>2 DEF Lists, Listing
  <2> QED
    BY <1>1, <2>2
<1> HIDE DEF back
<1>7. Listing(back, n, T)
  BY <1>3, <1>4, <1>5 DEF Listing
<1> QED
  BY <1>6, <1>7

LEMMA FilesCounted == /\ \A T : F!Cardinality(T) = Cardinality(T)
                      /\ \A T : F!IsFiniteSet(T) <=> IsFiniteSet(T)
BY DEF F!Cardinality, Cardinality, F!IsFiniteSet, IsFiniteSet

LEMMA WalkedInOrder ==
  ASSUME F!FileParameters, NEW files \in SUBSET File
  PROVE  \E n \in Nat : Listing(F!Walk(files), n, files)
<1> DEFINE n == Cardinality(files)
           Order(list) == \A i, j \in DOMAIN list : i < j => list[i] < list[j]
<1>1. files \in SUBSET Nat /\ IsFiniteSet(File)
  BY FilesCounted DEF F!FileParameters
<1>2. IsFiniteSet(files)
  BY <1>1, FS_Subset
<1>3. n \in Nat /\ \E list : Lists(list, n, files)
  BY <1>1, <1>2, CanBeListed
<1>4. F!Walk(files) = CHOOSE list \in F!Bijection(1 .. n, files) : Order(list)
  BY FilesCounted DEF F!Walk
<1> HIDE DEF n
<1>5. \A list \in F!Bijection(1 .. n, files) : Listing(list, n, files)
  BY <1>3 DEF Listing, F!Bijection, F!Injection, F!Surjection, F!IsInjective
<1>6. PICK list : Lists(list, n, files)
  BY <1>3
<1>7. Listing(list, n, files)
  BY <1>1, <1>3, <1>6, ListsOnce
<1>8. list \in F!Bijection(1 .. n, files) /\ Order(list)
  BY <1>6, <1>7 DEF Lists, Listing, F!Bijection, F!Injection, F!Surjection, F!IsInjective
<1> HIDE DEF Order
<1>9. F!Walk(files) \in F!Bijection(1 .. n, files)
  BY <1>4, <1>8
<1> QED
  BY <1>3, <1>5, <1>9
-----------------------------------------------------------------------------
(***************************************************************************)
(* The pass over the files.  A file that is not blamed is in storage and   *)
(* in memory as the old cursor has it, or, once the pass has written it,   *)
(* as the new one does; the new cursor has what the walk has read, which   *)
(* is what the directory holds but for what changed since; and what it     *)
(* lacks is to be deleted.  Walked is the part of the list behind the      *)
(* pass, Current the file that it is writing.                              *)
(***************************************************************************)
Walking == {"walk", "store", "index"}
PlaceInPass == Walking \union {"idle", "delete"}
Copy == Content \union {None}

DirectoryTyped ==
  /\ dir \in [File -> Copy] /\ cursor \in [File -> Copy]
  /\ storage \in [File -> Copy] /\ memory \in [File -> Copy]
  /\ touched \subseteq File /\ blamed \subseteq File
  /\ pass \in [at : PlaceInPass, list : Seq(File), left : Seq(File), room : Nat, seen : [File -> Copy],
               raw : Copy, gone : SUBSET File, wrote : SUBSET File]

Behind == Len(pass.list) - Len(pass.left)
Walked == {pass.list[i] : i \in 1 .. Behind}
Current == IF pass.at \in {"store", "index"} THEN {Head(pass.left)} ELSE {}

(* What is left is the end of the list, and the room what max_files leaves. *)
Positioned ==
  /\ Behind \in Nat
  /\ \A i \in 1 .. Len(pass.left) : pass.left[i] = pass.list[Behind + i]
  /\ \A i, j \in 1 .. Len(pass.list) : pass.list[i] = pass.list[j] => i = j
  /\ Behind + pass.room = MaxFiles
  /\ pass.at \in {"store", "index"} => pass.left # <<>> /\ pass.room > 0
  /\ pass.at = "delete" => pass.left = <<>> \/ pass.room = 0

Agree(f, kept) == storage[f] = kept /\ memory[f] = kept

SettledFile(f) == f \notin blamed \union pass.wrote => Agree(f, cursor[f])
WrittenFile(f) == f \in pass.wrote \ blamed /\ (pass.at = "index" => f \notin Current) => Agree(f, pass.seen[f])
SeenFile(f) ==
  /\ f \notin F!Range(pass.list) => pass.seen[f] = None /\ (f \notin touched => dir[f] = None)
  /\ f \in Walked \ (touched \union blamed) => pass.seen[f] = dir[f]
  /\ f \notin blamed \union pass.wrote \union Current /\ pass.seen[f] # None => pass.seen[f] = cursor[f]
AheadFile(f) ==
  pass.at \in Walking /\ f \notin Walked \union Current => pass.seen[f] = None /\ f \notin pass.wrote
CurrentFile(f) ==
  f \in Current =>
    /\ pass.seen[f] = pass.raw /\ pass.raw # None /\ (f \notin touched => dir[f] = pass.raw)
    /\ pass.at = "index" => f \in pass.wrote /\ storage[f] = pass.raw
GoneFile(f) ==
  pass.at = "delete" =>
    /\ f \in pass.gone => pass.seen[f] = None
    /\ cursor[f] # None /\ pass.seen[f] = None => f \in pass.gone \union pass.wrote

FileKept(f) ==
  SettledFile(f) /\ WrittenFile(f) /\ SeenFile(f) /\ AheadFile(f) /\ CurrentFile(f) /\ GoneFile(f)

FilesInv ==
  /\ DirectoryTyped
  /\ pass.at = "idle" => F!MirrorHolds /\ \A f \in File \ blamed : Agree(f, cursor[f])
  /\ pass.at # "idle" => Positioned /\ \A f \in File : FileKept(f)

(* One file further.                                                       *)
LEMMA OneFurther ==
  ASSUME F!FileParameters, DirectoryTyped, DirectoryTyped', Positioned, pass.left # <<>>, pass.room > 0,
         pass'.list = pass.list, pass'.left = Tail(pass.left), pass'.room = pass.room - 1,
         pass'.at = "walk"
  PROVE  /\ Positioned' /\ Current' = {}
         /\ Head(pass.left) \in File \ Walked
         /\ Walked' = Walked \union {Head(pass.left)}
<1>1. /\ pass.list \in Seq(File) /\ pass.left \in Seq(File) /\ pass.room \in Nat /\ MaxFiles \in Nat
      /\ Len(pass.list) \in Nat /\ Len(pass.left) \in Nat /\ Len(pass.left) > 0
  BY DEF DirectoryTyped, F!FileParameters
<1>2. /\ Head(pass.left) = pass.left[1] /\ Len(pass'.left) = Len(pass.left) - 1
      /\ \A i \in 1 .. Len(pass.left) - 1 : pass'.left[i] = pass.left[i + 1]
  BY <1>1
<1>3. Behind' = Behind + 1 /\ Behind \in Nat
  <2>1. Behind \in Nat
    BY DEF Positioned
  <2>2. Behind' = Len(pass.list) - (Len(pass.left) - 1)
    BY <1>2 DEF Behind
  <2>3. Behind = Len(pass.list) - Len(pass.left)
    BY DEF Behind
  <2> QED
    BY <1>1, <2>1, <2>2, <2>3
<1>4. Head(pass.left) = pass.list[Behind + 1] /\ Behind + 1 \in 1 .. Len(pass.list)
  <2>1. 1 \in 1 .. Len(pass.left)
    BY <1>1
  <2>2. pass.left[1] = pass.list[Behind + 1]
    BY <2>1 DEF Positioned
  <2>3. Behind + 1 \in 1 .. Len(pass.list)
    <3>1. Behind = Len(pass.list) - Len(pass.left)
      BY DEF Behind
    <3>2. Len(pass.list) \in Nat /\ Len(pass.left) \in Nat /\ Len(pass.left) > 0 /\ Behind \in Nat
      BY <1>1, <1>3
    <3>3. \A a, b, c \in Nat : b > 0 /\ c = a - b => c + 1 \in 1 .. a
      OBVIOUS
    <3> QED
      BY <3>1, <3>2, <3>3
  <2> QED
    BY <1>2, <2>2, <2>3
<1>5. Head(pass.left) \in File /\ Head(pass.left) \notin Walked
  <2>1. \A i \in 1 .. Behind : i \in 1 .. Len(pass.list) /\ i # Behind + 1
    BY <1>1, <1>3, <1>4
  <2> QED
    BY <1>1, <1>4, <2>1 DEF Walked, Positioned
<1>6. Walked' = Walked \union {Head(pass.left)}
  <2>1. Walked' = {pass.list[i] : i \in 1 .. Behind + 1}
    BY <1>3 DEF Walked
  <2>2. 1 .. Behind + 1 = (1 .. Behind) \union {Behind + 1}
    BY <1>3
  <2> QED
    BY <2>1, <2>2, <1>4 DEF Walked
<1>7. \A i \in 1 .. Len(pass'.left) : pass'.left[i] = pass'.list[Behind' + i]
  <2> TAKE i \in 1 .. Len(pass'.left)
  <2>1. i \in 1 .. Len(pass.left) - 1 /\ i + 1 \in 1 .. Len(pass.left)
    BY <1>1, <1>2
  <2>2. pass'.left[i] = pass.left[i + 1] /\ pass.left[i + 1] = pass.list[Behind + (i + 1)]
    BY <1>2, <2>1 DEF Positioned
  <2>3. Behind + (i + 1) = Behind' + i
    BY <1>3, <2>1
  <2> QED
    BY <2>2, <2>3
<1>8. Behind' + pass'.room = MaxFiles
  <2>1. Behind + pass.room = MaxFiles
    BY DEF Positioned
  <2>2. pass.room \in Nat /\ Behind \in Nat /\ Behind' = Behind + 1 /\ pass'.room = pass.room - 1
    BY <1>1, <1>3
  <2> QED
    BY <2>1, <2>2
<1>9. /\ Behind' \in Nat /\ pass'.at = "walk"
      /\ \A i, j \in 1 .. Len(pass'.list) : pass'.list[i] = pass'.list[j] => i = j
  BY <1>3 DEF Positioned
<1>10. Positioned'
  BY <1>7, <1>8, <1>9 DEF Positioned
<1>11. Current' = {}
  BY DEF Current
<1> QED
  BY <1>5, <1>6, <1>10, <1>11

(* The pass stays where it is in the list.                                 *)
LEMMA StaysAt ==
  ASSUME Positioned, pass'.list = pass.list, pass'.left = pass.left, pass'.room = pass.room,
         pass'.at \in {"store", "index"} => pass.left # <<>> /\ pass.room > 0,
         pass'.at = "delete" => pass.left = <<>> \/ pass.room = 0
  PROVE  Positioned' /\ Walked' = Walked
<1>1. Behind' = Behind
  BY DEF Behind
<1> QED
  BY <1>1 DEF Positioned, Walked

LEMMA ChangeKeeps ==
  ASSUME FilesInv, NEW f \in File, NEW c \in Copy, F!Change(f, c)
  PROVE  FilesInv'
<1>1. /\ pass' = pass /\ storage' = storage /\ memory' = memory /\ cursor' = cursor /\ blamed' = blamed
      /\ touched' = touched \union {f} /\ dir' = [dir EXCEPT ![f] = c]
  BY DEF F!Change
<1>2. DirectoryTyped' /\ \A g \in File : g \notin touched' => g \notin touched /\ dir'[g] = dir[g]
  BY <1>1 DEF FilesInv, DirectoryTyped
<1>3. CASE pass.at = "idle"
  <2>1. F!MirrorHolds /\ \A g \in File \ blamed : Agree(g, cursor[g])
    BY <1>3 DEF FilesInv
  <2>2. F!MirrorHolds'
    BY <1>1, <1>2, <2>1 DEF F!MirrorHolds
  <2>3. \A g \in File \ blamed' : Agree(g, cursor[g])'
    BY <1>1, <2>1 DEF Agree
  <2> QED
    BY <1>1, <1>2, <1>3, <2>2, <2>3 DEF FilesInv
<1>4. CASE pass.at # "idle"
  <2>1. Positioned /\ \A g \in File : FileKept(g)
    BY <1>4 DEF FilesInv
  <2>2. Positioned' /\ Walked' = Walked /\ Current' = Current
    BY <1>1, <2>1 DEF Positioned, Walked, Behind, Current
  <2>3. ASSUME NEW g \in File PROVE FileKept(g)'
    <3>1. FileKept(g)
      BY <2>1
    <3>2. SettledFile(g)' /\ WrittenFile(g)' /\ AheadFile(g)' /\ GoneFile(g)'
      BY <1>1, <2>2, <3>1 DEF FileKept, SettledFile, WrittenFile, AheadFile, GoneFile, Agree
    <3>3. SeenFile(g)'
      BY <1>1, <1>2, <2>2, <3>1 DEF FileKept, SeenFile
    <3>4. CurrentFile(g)'
      BY <1>1, <1>2, <2>2, <3>1 DEF FileKept, CurrentFile
    <3> QED
      BY <3>2, <3>3, <3>4 DEF FileKept
  <2> QED
    BY <1>1, <1>2, <1>4, <2>2, <2>3 DEF FilesInv
<1> QED
  BY <1>3, <1>4

LEMMA BeginKeeps == ASSUME F!FileParameters, FilesInv, F!Begin PROVE FilesInv'
<1> DEFINE list == F!Walk(F!Existing)
<1>1. /\ pass.at = "idle"
      /\ UNCHANGED <<dir, storage, memory, cursor, blamed>> /\ touched' = {}
      /\ pass' = [F!NoPass EXCEPT !.at = "walk", !.list = list, !.left = list, !.room = MaxFiles]
  BY DEF F!Begin
<1>2. PICK n \in Nat : Listing(list, n, F!Existing)
  <2>1. F!Existing \subseteq File
    BY DEF F!Existing
  <2> QED
    BY <2>1, WalkedInOrder
<1> HIDE DEF list
<1>3. list \in Seq(File) /\ Len(list) = n /\ DOMAIN list = 1 .. n
  <2>1. list \in [1 .. n -> File]
    BY <1>2 DEF Listing, F!Existing
  <2> QED
    BY <2>1
<1>4. /\ pass'.at = "walk" /\ pass'.list = list /\ pass'.left = list /\ pass'.room = MaxFiles
      /\ pass'.seen = F!Nothing /\ pass'.gone = {} /\ pass'.wrote = {}
  BY <1>1 DEF F!NoPass
<1>5. DirectoryTyped'
  <2>1. F!Nothing \in [File -> Copy]
    BY DEF F!Nothing, Copy
  <2>2. pass' \in [at : PlaceInPass, list : Seq(File), left : Seq(File), room : Nat, seen : [File -> Copy],
                   raw : Copy, gone : SUBSET File, wrote : SUBSET File]
    BY <1>1, <1>3, <2>1 DEF F!NoPass, F!FileParameters, PlaceInPass, Walking, Copy
  <2> QED
    BY <1>1, <2>2 DEF DirectoryTyped, FilesInv
<1>6. Behind' = 0 /\ Walked' = {} /\ Current' = {}
  <2>1. Behind' = 0
    BY <1>3, <1>4 DEF Behind
  <2> QED
    BY <1>4, <2>1 DEF Walked, Current
<1>7. Positioned'
  <2>1. \A i \in 1 .. Len(pass'.left) : pass'.left[i] = pass'.list[Behind' + i]
    BY <1>3, <1>4, <1>6
  <2>2. \A i, j \in 1 .. Len(pass'.list) : pass'.list[i] = pass'.list[j] => i = j
    BY <1>2, <1>3, <1>4 DEF Listing
  <2>3. Behind' + pass'.room = MaxFiles
    BY <1>4, <1>6 DEF F!FileParameters
  <2> QED
    BY <1>4, <1>6, <2>1, <2>2, <2>3 DEF Positioned
<1>8. ASSUME NEW g \in File PROVE FileKept(g)'
  <2>1. g \notin blamed => Agree(g, cursor[g])
    BY <1>1 DEF FilesInv
  <2>2. pass'.seen[g] = None
    BY <1>4 DEF F!Nothing
  <2>3. g \notin F!Range(pass'.list) => dir[g] = None
    <3> SUFFICES ASSUME dir[g] # None PROVE g \in F!Range(list)
      BY <1>4
    <3>1. g \in F!Existing
      BY DEF F!Existing
    <3>2. PICK i \in 1 .. n : list[i] = g
      BY <1>2, <3>1 DEF Listing
    <3> QED
      BY <1>3, <3>2 DEF F!Range
  <2>4. SettledFile(g)' /\ WrittenFile(g)' /\ AheadFile(g)' /\ CurrentFile(g)' /\ GoneFile(g)'
    BY <1>1, <1>4, <1>6, <2>1, <2>2 DEF SettledFile, WrittenFile, AheadFile, CurrentFile, GoneFile, Agree
  <2>5. SeenFile(g)'
    BY <1>1, <1>4, <1>6, <2>2, <2>3 DEF SeenFile
  <2> QED
    BY <2>4, <2>5 DEF FileKept
<1> QED
  BY <1>4, <1>5, <1>7, <1>8 DEF FilesInv

(* A step of the walk that leaves the file at the head of the list behind. *)
LEMMA LeavesBehind ==
  ASSUME F!FileParameters, FilesInv, pass.at # "idle", pass.left # <<>>, pass.room > 0,
         DirectoryTyped', UNCHANGED <<dir, cursor, touched>>,
         pass'.list = pass.list, pass'.left = Tail(pass.left), pass'.room = pass.room - 1,
         pass'.at = "walk", pass.at \in Walking, pass'.wrote = pass.wrote,
         NEW h \in File, h = Head(pass.left), blamed' \ {h} = blamed \ {h},
         \A g \in File \ {h} :
           pass'.seen[g] = pass.seen[g] /\ storage'[g] = storage[g] /\ memory'[g] = memory[g],
         Current \subseteq {h}, FileKept(h)'
  PROVE  FilesInv'
<1>1. DirectoryTyped /\ Positioned /\ \A g \in File : FileKept(g)
  BY DEF FilesInv
<1>2. Positioned' /\ Current' = {} /\ h \in File \ Walked /\ Walked' = Walked \union {h}
  BY <1>1, OneFurther
<1>3. ASSUME NEW g \in File \ {h} PROVE FileKept(g)'
  <2>1. FileKept(g) /\ g \notin Current /\ (g \in Walked' <=> g \in Walked) /\ (g \in blamed' <=> g \in blamed)
    BY <1>1, <1>2
  <2>2. pass'.seen[g] = pass.seen[g] /\ storage'[g] = storage[g] /\ memory'[g] = memory[g]
    OBVIOUS
  <2>3. SettledFile(g)' /\ WrittenFile(g)'
    BY <2>1, <2>2 DEF FileKept, SettledFile, WrittenFile, Agree
  <2>4. SeenFile(g)' /\ AheadFile(g)'
    BY <1>2, <2>1, <2>2 DEF FileKept, SeenFile, AheadFile
  <2>5. CurrentFile(g)' /\ GoneFile(g)'
    BY <1>2 DEF CurrentFile, GoneFile
  <2> QED
    BY <2>3, <2>4, <2>5 DEF FileKept
<1>4. \A g \in File : FileKept(g)'
  <2> TAKE g \in File
  <2>1. CASE g = h
    BY <2>1
  <2>2. CASE g # h
    <3>1. g \in File \ {h}
      BY <2>2
    <3> QED
      BY <3>1, <1>3
  <2> QED
    BY <2>1, <2>2
<1> QED
  BY <1>2, <1>4 DEF FilesInv

(* Of the file that the walk leaves behind.                                *)
LEMMA FileBehind ==
  ASSUME NEW h \in File, h \in Walked', Current' = {}, pass'.at = "walk",
         h \in F!Range(pass'.list),
         h \notin touched' \union blamed' => pass'.seen[h] = dir'[h],
         h \notin blamed' \union pass'.wrote => Agree(h, cursor[h])',
         h \in pass'.wrote \ blamed' => Agree(h, pass.seen[h])',
         h \notin blamed' \union pass'.wrote /\ pass'.seen[h] # None => pass'.seen[h] = cursor'[h]
  PROVE  FileKept(h)'
BY DEF FileKept, SettledFile, WrittenFile, SeenFile, AheadFile, CurrentFile, GoneFile

LEMMA HeadOfLeft ==
  ASSUME DirectoryTyped, Positioned, pass.left # <<>>
  PROVE  /\ Head(pass.left) \in File /\ Head(pass.left) \in F!Range(pass.list)
         /\ Tail(pass.left) \in Seq(File)
<1>1. /\ pass.list \in Seq(File) /\ pass.left \in Seq(File)
      /\ Len(pass.list) \in Nat /\ Len(pass.left) \in Nat /\ Len(pass.left) > 0
  BY DEF DirectoryTyped
<1>2. 1 \in 1 .. Len(pass.left) /\ Head(pass.left) = pass.left[1] /\ Behind \in Nat
  BY <1>1 DEF Positioned
<1>3. pass.left[1] = pass.list[Behind + 1]
  BY <1>2 DEF Positioned
<1>4. Behind + 1 \in DOMAIN pass.list
  <2>1. Behind = Len(pass.list) - Len(pass.left)
    BY DEF Behind
  <2>2. \A a, b, c \in Nat : b > 0 /\ c = a - b => c + 1 \in 1 .. a
    OBVIOUS
  <2>3. Behind + 1 \in 1 .. Len(pass.list)
    BY <1>1, <1>2, <2>1, <2>2
  <2> QED
    BY <1>1, <2>3
<1>5. Head(pass.left) \in F!Range(pass.list)
  BY <1>2, <1>3, <1>4 DEF F!Range
<1> QED
  BY <1>1, <1>5

LEMMA HeadAhead ==
  ASSUME DirectoryTyped, Positioned, pass.left # <<>>
  PROVE  Head(pass.left) \notin Walked
<1>1. /\ pass.list \in Seq(File) /\ pass.left \in Seq(File)
      /\ Len(pass.list) \in Nat /\ Len(pass.left) \in Nat /\ Len(pass.left) > 0
  BY DEF DirectoryTyped
<1>2. 1 \in 1 .. Len(pass.left) /\ Head(pass.left) = pass.left[1] /\ Behind \in Nat
  BY <1>1 DEF Positioned
<1>3. pass.left[1] = pass.list[Behind + 1]
  BY <1>2 DEF Positioned
<1>4. Behind + 1 \in 1 .. Len(pass.list) /\ \A i \in 1 .. Behind : i \in 1 .. Len(pass.list) /\ i # Behind + 1
  <2>1. Behind = Len(pass.list) - Len(pass.left)
    BY DEF Behind
  <2>2. \A a, b, c \in Nat : b > 0 /\ c = a - b => c + 1 \in 1 .. a
    OBVIOUS
  <2>3. Behind + 1 \in 1 .. Len(pass.list)
    BY <1>1, <1>2, <2>1, <2>2
  <2> QED
    BY <1>1, <1>2, <2>3
<1> QED
  BY <1>2, <1>3, <1>4 DEF Walked, Positioned

LEMMA ReadFailsKeeps == ASSUME F!FileParameters, FilesInv, F!ReadFails PROVE FilesInv'
<1> DEFINE h == Head(pass.left)
<1>1. /\ pass.at = "walk" /\ pass.left # <<>> /\ pass.room > 0 /\ blamed' = blamed \union {h}
      /\ UNCHANGED <<dir, cursor, touched, storage, memory>>
      /\ pass' = [pass EXCEPT !.left = Tail(@), !.room = @ - 1]
  BY DEF F!ReadFails, F!Reported, F!Steps, F!Rest
<1>2. DirectoryTyped /\ Positioned /\ \A g \in File : FileKept(g)
  BY <1>1 DEF FilesInv
<1>3. h \in File /\ h \in F!Range(pass.list) /\ Tail(pass.left) \in Seq(File)
  BY <1>1, <1>2, HeadOfLeft
<1>4. /\ pass'.list = pass.list /\ pass'.left = Tail(pass.left) /\ pass'.room = pass.room - 1
      /\ pass'.at = "walk" /\ pass'.wrote = pass.wrote /\ pass'.seen = pass.seen
  BY <1>1, <1>2 DEF DirectoryTyped
<1>5. DirectoryTyped'
  <2>1. pass.room - 1 \in Nat
    BY <1>1, <1>2 DEF DirectoryTyped
  <2> QED
    BY <1>1, <1>2, <1>3, <2>1 DEF DirectoryTyped
<1>6. Current' = {} /\ Walked' = Walked \union {h}
  BY <1>1, <1>2, <1>4, <1>5, OneFurther
<1>7. Current \subseteq {h} /\ pass.at \in Walking /\ pass.at # "idle"
  BY <1>1 DEF Current, Walking
<1> HIDE DEF h
<1>8. PICK k \in File : k = h
  BY <1>3
<1>9. FileKept(k)'
  BY <1>1, <1>3, <1>4, <1>6, <1>8, FileBehind
<1>10. k = Head(pass.left)
  BY <1>8 DEF h
<1>11. blamed' \ {k} = blamed \ {k}
  BY <1>1, <1>8
<1>12. \A g \in File \ {k} :
         pass'.seen[g] = pass.seen[g] /\ storage'[g] = storage[g] /\ memory'[g] = memory[g]
  BY <1>1, <1>4
<1>13. Current \subseteq {k}
  BY <1>7, <1>8
<1> QED
  BY <1>1, <1>4, <1>5, <1>7, <1>9, <1>10, <1>11, <1>12, <1>13, LeavesBehind

(* A step that stays at the file at the head of the list.                  *)
LEMMA StaysAtFile ==
  ASSUME FilesInv, pass.at \in {"walk", "store"}, pass'.at \in {"store", "index"},
         pass.left # <<>>, pass.room > 0,
         DirectoryTyped', UNCHANGED <<dir, cursor, touched, blamed, memory>>,
         pass'.list = pass.list, pass'.left = pass.left, pass'.room = pass.room,
         NEW h \in File, h = Head(pass.left), h \notin Walked,
         \A g \in File \ {h} :
           pass'.seen[g] = pass.seen[g] /\ storage'[g] = storage[g] /\ (g \in pass'.wrote <=> g \in pass.wrote),
         SettledFile(h)', CurrentFile(h)',
         h \in F!Range(pass.list),
         pass'.at = "store" => h \notin pass'.wrote
  PROVE  FilesInv'
<1>1. DirectoryTyped /\ Positioned /\ \A g \in File : FileKept(g)
  BY DEF FilesInv
<1>2. Positioned' /\ Walked' = Walked /\ Current' = {h} /\ Current \subseteq {h}
  <2>1. Positioned' /\ Walked' = Walked
    BY <1>1, StaysAt
  <2> QED
    BY <2>1 DEF Current
<1>3. ASSUME NEW g \in File \ {h} PROVE FileKept(g)'
  <2>1. FileKept(g) /\ g \notin Current /\ g \notin Current'
    BY <1>1, <1>2
  <2>2. /\ pass'.seen[g] = pass.seen[g] /\ storage'[g] = storage[g]
        /\ (g \in pass'.wrote <=> g \in pass.wrote)
    OBVIOUS
  <2>3. SettledFile(g)' /\ WrittenFile(g)'
    BY <2>1, <2>2 DEF FileKept, SettledFile, WrittenFile, Agree
  <2>4. SeenFile(g)' /\ AheadFile(g)'
    BY <1>2, <2>1, <2>2 DEF FileKept, SeenFile, AheadFile, Walking
  <2>5. CurrentFile(g)' /\ GoneFile(g)'
    BY <2>1 DEF CurrentFile, GoneFile
  <2> QED
    BY <2>3, <2>4, <2>5 DEF FileKept
<1>4. FileKept(h)'
  <2>1. SeenFile(h)' /\ AheadFile(h)' /\ GoneFile(h)'
    BY <1>2 DEF SeenFile, AheadFile, GoneFile
  <2>2. WrittenFile(h)'
    BY <1>2 DEF WrittenFile
  <2> QED
    BY <2>1, <2>2 DEF FileKept
<1> QED
  BY <1>2, <1>3, <1>4 DEF FilesInv

LEMMA ReadKeeps == ASSUME F!FileParameters, FilesInv, F!Read PROVE FilesInv'
<1> DEFINE h == Head(pass.left)
           c == dir[h]
           seen == [pass.seen EXCEPT ![h] = c]
<1>1. /\ pass.at = "walk" /\ pass.left # <<>> /\ pass.room > 0 /\ c # None
      /\ UNCHANGED <<dir, cursor, touched, storage, memory, blamed>>
      /\ pass' = [(IF cursor[h] = c THEN [pass EXCEPT !.left = Tail(@), !.room = @ - 1]
                   ELSE [pass EXCEPT !.at = "store", !.raw = c]) EXCEPT !.seen = seen]
  BY DEF F!Read, F!Steps, F!Rest, F!Seen
<1>2. DirectoryTyped /\ Positioned /\ \A g \in File : FileKept(g)
  BY <1>1 DEF FilesInv
<1>3. h \in File /\ h \in F!Range(pass.list) /\ Tail(pass.left) \in Seq(File)
  BY <1>1, <1>2, HeadOfLeft
<1>4. PICK k \in File : k = h
  BY <1>3
<1>5. c \in Copy /\ seen \in [File -> Copy] /\ seen[k] = c /\ \A g \in File \ {k} : seen[g] = pass.seen[g]
  BY <1>2, <1>3, <1>4 DEF DirectoryTyped
<1>6. pass.room - 1 \in Nat
  BY <1>1, <1>2 DEF DirectoryTyped
<1>7. k = Head(pass.left) /\ c = dir[k]
  BY <1>4
<1> HIDE DEF c, seen
<1>8. Current \subseteq {k} /\ pass.at \in Walking /\ pass.at # "idle"
  BY <1>1 DEF Current, Walking
<1>9. CASE cursor[h] = c
  <2>1. /\ pass'.list = pass.list /\ pass'.left = Tail(pass.left) /\ pass'.room = pass.room - 1
        /\ pass'.at = "walk" /\ pass'.wrote = pass.wrote /\ pass'.seen = seen
    BY <1>1, <1>2, <1>9 DEF DirectoryTyped
  <2>2. DirectoryTyped'
    BY <1>1, <1>2, <1>3, <1>5, <1>6, <1>9 DEF DirectoryTyped
  <2>3. Current' = {} /\ Walked' = Walked \union {h} /\ h \notin Walked
    BY <1>1, <1>2, <2>1, <2>2, OneFurther
  <2>4. k \notin pass.wrote
    <3>1. AheadFile(k)
      BY <1>2 DEF FileKept
    <3> QED
      BY <1>1, <1>4, <2>3, <3>1 DEF AheadFile, Walking, Current
  <2>5. k \notin blamed => Agree(k, cursor[k])
    <3>1. SettledFile(k)
      BY <1>2 DEF FileKept
    <3> QED
      BY <2>4, <3>1 DEF SettledFile
  <2>6. (k \notin blamed' => Agree(k, cursor[k])')
    BY <1>1, <2>5 DEF Agree
  <2> HIDE DEF h
  <2>7. FileKept(k)'
    <3>1. k \in Walked' /\ k \in F!Range(pass'.list) /\ pass'.seen[k] = dir'[k] /\ pass'.seen[k] = cursor'[k]
      BY <1>1, <1>3, <1>4, <1>5, <1>7, <1>9, <2>1, <2>3
    <3> QED
      BY <2>1, <2>3, <2>4, <2>6, <3>1, FileBehind
  <2>8. \A g \in File \ {k} :
          pass'.seen[g] = pass.seen[g] /\ storage'[g] = storage[g] /\ memory'[g] = memory[g]
    BY <1>1, <1>5, <2>1
  <2> QED
    BY <1>1, <1>7, <1>8, <2>1, <2>2, <2>7, <2>8, LeavesBehind
<1>10. CASE cursor[h] # c
  <2>1. /\ pass'.list = pass.list /\ pass'.left = pass.left /\ pass'.room = pass.room
        /\ pass'.at = "store" /\ pass'.wrote = pass.wrote /\ pass'.seen = seen /\ pass'.raw = c
    BY <1>1, <1>2, <1>10 DEF DirectoryTyped
  <2>2. DirectoryTyped'
    BY <1>1, <1>2, <1>3, <1>5, <1>6, <1>10 DEF DirectoryTyped, PlaceInPass, Walking
  <2>3. h \notin Walked
    <3>1. pass.room \in Nat /\ pass.left \in Seq(File) /\ pass.list \in Seq(File)
      BY <1>2 DEF DirectoryTyped
    <3> QED
      BY <1>1, <1>2, HeadAhead
  <2>4. k \notin pass.wrote
    <3>1. AheadFile(k)
      BY <1>2 DEF FileKept
    <3> QED
      BY <1>1, <1>4, <2>3, <3>1 DEF AheadFile, Walking, Current
  <2>5. SettledFile(k)'
    <3>1. SettledFile(k)
      BY <1>2 DEF FileKept
    <3> QED
      BY <1>1, <2>1, <3>1 DEF SettledFile, Agree
  <2>6. CurrentFile(k)'
    BY <1>1, <1>5, <1>7, <2>1 DEF CurrentFile
  <2> HIDE DEF h
  <2>7. \A g \in File \ {k} :
          /\ pass'.seen[g] = pass.seen[g] /\ storage'[g] = storage[g]
          /\ (g \in pass'.wrote <=> g \in pass.wrote)
    BY <1>1, <1>5, <2>1
  <2>8. k \in F!Range(pass.list) /\ k \notin Walked
    BY <1>3, <1>4, <2>3
  <2> QED
    BY <1>1, <1>7, <2>1, <2>2, <2>4, <2>5, <2>6, <2>7, <2>8, StaysAtFile
<1> QED
  BY <1>9, <1>10

LEMMA StoreFileKeeps == ASSUME F!FileParameters, FilesInv, F!StoreFile PROVE FilesInv'
<1> DEFINE h == Head(pass.left)
<1>1. pass.at = "store" /\ UNCHANGED <<dir, cursor, touched, memory>>
  BY DEF F!StoreFile, F!Steps
<1>2. DirectoryTyped /\ Positioned /\ \A g \in File : FileKept(g)
  BY <1>1 DEF FilesInv
<1>3. pass.left # <<>> /\ pass.room > 0
  BY <1>1, <1>2 DEF Positioned
<1>4. h \in File /\ h \in F!Range(pass.list) /\ Tail(pass.left) \in Seq(File) /\ h \notin Walked
  BY <1>2, <1>3, HeadOfLeft, HeadAhead
<1>5. PICK k \in File : k = h
  BY <1>4
<1>6. /\ k = Head(pass.left) /\ k \in Current
      /\ Current \subseteq {k} /\ pass.at \in Walking /\ pass.at # "idle"
  BY <1>1, <1>5 DEF Current, Walking
<1>7. /\ pass.seen[k] = pass.raw /\ pass.raw # None /\ (k \notin touched => dir[k] = pass.raw)
      /\ pass.raw \in Copy /\ pass.room - 1 \in Nat
  <2>1. CurrentFile(k)
    BY <1>2 DEF FileKept
  <2> QED
    BY <1>2, <1>3, <1>6, <2>1 DEF CurrentFile, DirectoryTyped
<1>8. CASE /\ storage' = [storage EXCEPT ![h] = pass.raw] /\ blamed' = blamed
           /\ pass' = [pass EXCEPT !.at = "index", !.wrote = @ \union {h}]
  <2>1. /\ pass'.list = pass.list /\ pass'.left = pass.left /\ pass'.room = pass.room /\ pass'.raw = pass.raw
        /\ pass'.at = "index" /\ pass'.wrote = pass.wrote \union {h} /\ pass'.seen = pass.seen
    BY <1>2, <1>8 DEF DirectoryTyped
  <2>2. DirectoryTyped'
    BY <1>1, <1>2, <1>4, <1>7, <1>8 DEF DirectoryTyped, PlaceInPass, Walking
  <2> HIDE DEF h
  <2>3. storage'[k] = pass.raw /\ \A g \in File \ {k} : storage'[g] = storage[g]
    BY <1>2, <1>5, <1>8 DEF DirectoryTyped
  <2>4. SettledFile(k)' /\ CurrentFile(k)'
    BY <1>1, <1>5, <1>7, <2>1, <2>3 DEF SettledFile, CurrentFile
  <2>5. \A g \in File \ {k} :
          /\ pass'.seen[g] = pass.seen[g] /\ storage'[g] = storage[g]
          /\ (g \in pass'.wrote <=> g \in pass.wrote)
    BY <1>5, <2>1, <2>3
  <2>6. k \in F!Range(pass.list) /\ k \notin Walked
    BY <1>4, <1>5
  <2>7. UNCHANGED <<dir, cursor, touched, blamed, memory>>
    BY <1>1, <1>8
  <2> QED
    BY <1>1, <1>3, <1>6, <2>1, <2>2, <2>4, <2>5, <2>6, <2>7, StaysAtFile
<1>9. CASE /\ storage' = storage /\ blamed' = blamed \union {h}
           /\ pass' = [[pass EXCEPT !.left = Tail(@), !.room = @ - 1] EXCEPT !.at = "walk"]
  <2>1. /\ pass'.list = pass.list /\ pass'.left = Tail(pass.left) /\ pass'.room = pass.room - 1
        /\ pass'.at = "walk" /\ pass'.wrote = pass.wrote /\ pass'.seen = pass.seen
    BY <1>2, <1>9 DEF DirectoryTyped
  <2>2. DirectoryTyped'
    BY <1>1, <1>2, <1>4, <1>7, <1>9 DEF DirectoryTyped, PlaceInPass, Walking
  <2>3. Current' = {} /\ Walked' = Walked \union {h}
    BY <1>2, <1>3, <2>1, <2>2, OneFurther
  <2> HIDE DEF h
  <2>4. FileKept(k)'
    BY <1>4, <1>5, <1>9, <2>1, <2>3, FileBehind
  <2>5. blamed' \ {k} = blamed \ {k}
    BY <1>5, <1>9
  <2>6. \A g \in File \ {k} :
          pass'.seen[g] = pass.seen[g] /\ storage'[g] = storage[g] /\ memory'[g] = memory[g]
    BY <1>1, <1>9, <2>1
  <2> QED
    BY <1>1, <1>3, <1>6, <2>1, <2>2, <2>4, <2>5, <2>6, LeavesBehind
<1> QED
  BY <1>1, <1>8, <1>9 DEF F!StoreFile, F!Steps, F!Reported, F!Rest

LEMMA IndexFileKeeps == ASSUME F!FileParameters, FilesInv, F!IndexFile PROVE FilesInv'
<1> DEFINE h == Head(pass.left)
<1>1. /\ pass.at = "index" /\ UNCHANGED <<dir, cursor, touched, storage>>
      /\ pass' = [[pass EXCEPT !.left = Tail(@), !.room = @ - 1] EXCEPT !.at = "walk"]
      /\ \/ memory' = [memory EXCEPT ![h] = pass.raw] /\ blamed' = blamed \ {h}
         \/ memory' = memory /\ blamed' = blamed \union {h}
  BY DEF F!IndexFile, F!Steps, F!Reported, F!Rest
<1>2. DirectoryTyped /\ Positioned /\ \A g \in File : FileKept(g)
  BY <1>1 DEF FilesInv
<1>3. pass.left # <<>> /\ pass.room > 0
  BY <1>1, <1>2 DEF Positioned
<1>4. h \in File /\ h \in F!Range(pass.list) /\ Tail(pass.left) \in Seq(File)
  BY <1>2, <1>3, HeadOfLeft
<1>5. PICK k \in File : k = h
  BY <1>4
<1>6. /\ k = Head(pass.left) /\ k \in Current
      /\ Current \subseteq {k} /\ pass.at \in Walking /\ pass.at # "idle"
  BY <1>1, <1>5 DEF Current, Walking
<1>7. /\ pass.seen[k] = pass.raw /\ pass.raw # None /\ (k \notin touched => dir[k] = pass.raw)
      /\ pass.raw \in Copy /\ pass.room - 1 \in Nat /\ k \in pass.wrote /\ storage[k] = pass.raw
  <2>1. CurrentFile(k)
    BY <1>2 DEF FileKept
  <2> QED
    BY <1>1, <1>2, <1>3, <1>6, <2>1 DEF CurrentFile, DirectoryTyped
<1>8. /\ pass'.list = pass.list /\ pass'.left = Tail(pass.left) /\ pass'.room = pass.room - 1
      /\ pass'.at = "walk" /\ pass'.wrote = pass.wrote /\ pass'.seen = pass.seen
  BY <1>1, <1>2 DEF DirectoryTyped
<1> HIDE DEF h
<1>9. DirectoryTyped'
  <2>1. memory' \in [File -> Copy] /\ blamed' \subseteq File
    BY <1>1, <1>2, <1>4, <1>7 DEF DirectoryTyped
  <2>2. pass' \in [at : PlaceInPass, list : Seq(File), left : Seq(File), room : Nat, seen : [File -> Copy],
                   raw : Copy, gone : SUBSET File, wrote : SUBSET File]
    BY <1>1, <1>2, <1>4, <1>7 DEF DirectoryTyped, PlaceInPass, Walking
  <2> QED
    BY <1>1, <1>2, <2>1, <2>2 DEF DirectoryTyped
<1>10. Current' = {} /\ Walked' = Walked \union {h}
  BY <1>2, <1>3, <1>8, <1>9, OneFurther DEF h
<1>11. k \notin blamed' => memory'[k] = pass.raw
  BY <1>1, <1>2, <1>5 DEF DirectoryTyped
<1>12. FileKept(k)'
  <2>1. k \in pass'.wrote \ blamed' => Agree(k, pass.seen[k])'
    BY <1>1, <1>7, <1>8, <1>11 DEF Agree
  <2>2. k \notin touched' \union blamed' => pass'.seen[k] = dir'[k]
    BY <1>1, <1>7, <1>8
  <2> QED
    BY <1>4, <1>5, <1>7, <1>8, <1>10, <2>1, <2>2, FileBehind
<1>13. blamed' \ {k} = blamed \ {k}
  BY <1>1, <1>5
<1>14. \A g \in File \ {k} :
         pass'.seen[g] = pass.seen[g] /\ storage'[g] = storage[g] /\ memory'[g] = memory[g]
  BY <1>1, <1>2, <1>5, <1>8 DEF DirectoryTyped
<1> QED
  BY <1>1, <1>3, <1>6, <1>8, <1>9, <1>12, <1>13, <1>14, LeavesBehind

LEMMA EndOfWalkKeeps == ASSUME FilesInv, F!EndOfWalk PROVE FilesInv'
<1>1. /\ pass.at = "walk" /\ (pass.left = <<>> \/ pass.room = 0)
      /\ UNCHANGED <<dir, cursor, touched, storage, memory, blamed>>
      /\ pass' = [pass EXCEPT !.at = "delete", !.gone = F!Gone]
  BY DEF F!EndOfWalk, F!Steps
<1>2. DirectoryTyped /\ Positioned /\ \A g \in File : FileKept(g)
  BY <1>1 DEF FilesInv
<1>3. /\ pass'.list = pass.list /\ pass'.left = pass.left /\ pass'.room = pass.room
      /\ pass'.at = "delete" /\ pass'.wrote = pass.wrote /\ pass'.seen = pass.seen /\ pass'.gone = F!Gone
  BY <1>1, <1>2 DEF DirectoryTyped
<1>4. DirectoryTyped'
  <2>1. F!Gone \in SUBSET File
    BY DEF F!Gone
  <2> QED
    BY <1>1, <1>2, <2>1 DEF DirectoryTyped, PlaceInPass
<1>5. Positioned' /\ Walked' = Walked /\ Current' = {} /\ Current = {}
  <2>1. Positioned' /\ Walked' = Walked
    BY <1>1, <1>2, <1>3, StaysAt
  <2> QED
    BY <1>1, <1>3, <2>1 DEF Current
<1>6. ASSUME NEW g \in File PROVE FileKept(g)'
  <2>1. FileKept(g)
    BY <1>2
  <2>2. SettledFile(g)' /\ WrittenFile(g)' /\ SeenFile(g)'
    BY <1>1, <1>3, <1>5, <2>1 DEF FileKept, SettledFile, WrittenFile, SeenFile, Agree
  <2>3. AheadFile(g)' /\ CurrentFile(g)'
    BY <1>3, <1>5 DEF AheadFile, CurrentFile, Walking
  <2>4. GoneFile(g)'
    BY <1>1, <1>3 DEF GoneFile, F!Gone
  <2> QED
    BY <2>2, <2>3, <2>4 DEF FileKept
<1> QED
  BY <1>3, <1>4, <1>5, <1>6 DEF FilesInv

LEMMA DeleteGoneKeeps == ASSUME FilesInv, F!DeleteGone PROVE FilesInv'
<1>1. PICK f \in pass.gone :
        /\ storage' \in {storage, [storage EXCEPT ![f] = None]}
        /\ memory' \in {memory, [memory EXCEPT ![f] = None]}
        /\ blamed' = IF storage'[f] # None \/ memory'[f] # None THEN blamed \union {f}
                     ELSE IF f \in F!Range(pass.list) THEN blamed ELSE blamed \ {f}
        /\ UNCHANGED <<dir, cursor, touched>>
        /\ pass' = [pass EXCEPT !.gone = @ \ {f}, !.wrote = @ \union {f}]
  BY DEF F!DeleteGone, F!Steps
<1>2. pass.at = "delete"
  BY DEF F!DeleteGone
<1>3. DirectoryTyped /\ Positioned /\ \A g \in File : FileKept(g)
  BY <1>2 DEF FilesInv
<1>4. f \in File
  BY <1>1, <1>3 DEF DirectoryTyped
<1>5. /\ pass'.list = pass.list /\ pass'.left = pass.left /\ pass'.room = pass.room
      /\ pass'.at = "delete" /\ pass'.seen = pass.seen
      /\ pass'.wrote = pass.wrote \union {f} /\ pass'.gone = pass.gone \ {f}
  BY <1>1, <1>2, <1>3 DEF DirectoryTyped
<1>6. /\ storage' \in [File -> Copy] /\ memory' \in [File -> Copy]
      /\ \A g \in File \ {f} : /\ storage'[g] = storage[g] /\ memory'[g] = memory[g]
                               /\ (g \in blamed' <=> g \in blamed)
  BY <1>1, <1>3 DEF DirectoryTyped, Copy
<1>7. DirectoryTyped'
  <2>1. blamed' \subseteq File
    BY <1>1, <1>3, <1>4 DEF DirectoryTyped
  <2> QED
    BY <1>1, <1>3, <1>4, <1>6, <2>1 DEF DirectoryTyped
<1>8. Positioned' /\ Walked' = Walked /\ Current' = {} /\ Current = {}
  <2>1. Positioned' /\ Walked' = Walked
    BY <1>2, <1>3, <1>5, StaysAt DEF Positioned
  <2> QED
    BY <1>2, <1>5, <2>1 DEF Current
<1>9. Walked \subseteq F!Range(pass.list)
  <2>1. \A i \in 1 .. Behind : i \in DOMAIN pass.list
    <3>1. /\ Len(pass.list) \in Nat /\ Len(pass.left) \in Nat /\ DOMAIN pass.list = 1 .. Len(pass.list)
      BY <1>3 DEF DirectoryTyped
    <3>2. Behind = Len(pass.list) - Len(pass.left)
      BY DEF Behind
    <3> QED
      BY <3>1, <3>2
  <2> QED
    BY <2>1 DEF Walked, F!Range
<1>10. pass.seen[f] = None
  BY <1>1, <1>2, <1>3, <1>4 DEF FileKept, GoneFile
<1>11. FileKept(f)'
  <2>1. FileKept(f)
    BY <1>3, <1>4
  <2>2. SettledFile(f)' /\ AheadFile(f)' /\ CurrentFile(f)'
    BY <1>5, <1>8 DEF SettledFile, AheadFile, CurrentFile, Walking
  <2>3. WrittenFile(f)'
    BY <1>1, <1>5, <1>10 DEF WrittenFile, Agree
  <2>4. SeenFile(f)'
    <3>1. f \in Walked \ (touched \union blamed') => f \notin blamed
      BY <1>1, <1>9
    <3> QED
      BY <1>1, <1>5, <1>8, <2>1, <3>1 DEF FileKept, SeenFile
  <2>5. GoneFile(f)'
    BY <1>1, <1>5, <1>10 DEF GoneFile
  <2> QED
    BY <2>2, <2>3, <2>4, <2>5 DEF FileKept
<1>12. ASSUME NEW g \in File \ {f} PROVE FileKept(g)'
  <2>1. FileKept(g)
    BY <1>3
  <2>2. AheadFile(g)' /\ CurrentFile(g)'
    BY <1>5, <1>8 DEF AheadFile, CurrentFile, Walking
  <2>3. SettledFile(g)' /\ WrittenFile(g)'
    BY <1>1, <1>5, <1>6, <1>8, <2>1 DEF FileKept, SettledFile, WrittenFile, Agree
  <2>4. SeenFile(g)'
    BY <1>1, <1>5, <1>6, <1>8, <2>1 DEF FileKept, SeenFile
  <2>5. GoneFile(g)'
    BY <1>1, <1>2, <1>5, <2>1 DEF FileKept, GoneFile
  <2> QED
    BY <2>2, <2>3, <2>4, <2>5 DEF FileKept
<1> QED
  BY <1>5, <1>7, <1>8, <1>11, <1>12 DEF FilesInv

LEMMA FinishKeeps == ASSUME F!FileParameters, FilesInv, F!Finish PROVE FilesInv'
<1>1. /\ pass.at = "delete" /\ pass.gone = {} /\ cursor' = pass.seen
      /\ UNCHANGED <<dir, touched, storage, memory, blamed>>
      /\ pass' = [pass EXCEPT !.at = "idle"]
  BY DEF F!Finish
<1>2. DirectoryTyped /\ Positioned /\ \A g \in File : FileKept(g)
  BY <1>1 DEF FilesInv
<1>3. pass'.at = "idle" /\ pass'.list = pass.list
  BY <1>1, <1>2 DEF DirectoryTyped
<1>4. DirectoryTyped'
  BY <1>1, <1>2 DEF DirectoryTyped, PlaceInPass
<1>5. ASSUME NEW f \in File \ blamed PROVE Agree(f, pass.seen[f])
  <2>1. FileKept(f) /\ f \notin Current
    BY <1>1, <1>2 DEF Current
  <2>2. CASE f \in pass.wrote
    BY <1>1, <1>5, <2>1, <2>2 DEF FileKept, WrittenFile
  <2>3. CASE f \notin pass.wrote
    <3>1. Agree(f, cursor[f])
      BY <1>5, <2>1, <2>3 DEF FileKept, SettledFile
    <3>2. pass.seen[f] = cursor[f]
      BY <1>1, <1>5, <2>1, <2>3 DEF FileKept, SeenFile, GoneFile
    <3> QED
      BY <3>1, <3>2
  <2> QED
    BY <2>2, <2>3
<1>6. \A f \in File \ blamed' : Agree(f, cursor[f])'
  BY <1>1, <1>5 DEF Agree
<1>7. F!MirrorHolds'
  <2> SUFFICES ASSUME NEW f \in File \ (touched \union blamed),
                      \A i \in DOMAIN pass.list : pass.list[i] = f => i <= MaxFiles
               PROVE  storage[f] = dir[f] /\ memory[f] = dir[f]
    BY <1>1, <1>3 DEF F!MirrorHolds
  <2>1. Agree(f, pass.seen[f]) /\ FileKept(f)
    BY <1>2, <1>5
  <2>2. CASE f \notin F!Range(pass.list)
    BY <2>1, <2>2 DEF FileKept, SeenFile, Agree
  <2>3. CASE f \in F!Range(pass.list)
    <3>1. PICK i \in DOMAIN pass.list : pass.list[i] = f
      BY <2>3 DEF F!Range
    <3>2. /\ DOMAIN pass.list = 1 .. Len(pass.list) /\ Len(pass.list) \in Nat
          /\ pass.room \in Nat /\ MaxFiles \in Nat /\ Behind \in Nat /\ Behind + pass.room = MaxFiles
      BY <1>2 DEF DirectoryTyped, Positioned, F!FileParameters
    <3>3. pass.left = <<>> => Behind = Len(pass.list)
      <4>1. Behind = Len(pass.list) - Len(pass.left)
        BY DEF Behind
      <4>2. pass.left = <<>> => Len(pass.left) = 0
        OBVIOUS
      <4> QED
        BY <3>2, <4>1, <4>2
    <3>4. i \in 1 .. Behind
      <4>1. i \in 1 .. Len(pass.list) /\ i <= MaxFiles
        BY <3>1, <3>2
      <4>2. pass.left = <<>> \/ pass.room = 0
        BY <1>1, <1>2 DEF Positioned
      <4> QED
        BY <3>2, <3>3, <4>1, <4>2
    <3>5. f \in Walked
      BY <3>1, <3>4 DEF Walked
    <3> QED
      BY <2>1, <3>5 DEF FileKept, SeenFile, Agree
  <2> QED
    BY <2>2, <2>3
<1> QED
  BY <1>3, <1>4, <1>6, <1>7 DEF FilesInv

LEMMA FilesCutShort == ASSUME FilesInv, F!CutShort PROVE FilesInv'
<1>1. /\ pass.at # "idle" /\ pass' = F!NoPass /\ blamed' = blamed \union pass.wrote
      /\ UNCHANGED <<dir, storage, memory, cursor, touched>>
  BY DEF F!CutShort
<1>2. DirectoryTyped /\ \A g \in File : FileKept(g)
  BY <1>1 DEF FilesInv
<1>3. F!NoPass \in [at : PlaceInPass, list : Seq(File), left : Seq(File), room : Nat, seen : [File -> Copy],
                    raw : Copy, gone : SUBSET File, wrote : SUBSET File]
  BY DEF F!NoPass, F!Nothing, PlaceInPass, Walking, Copy
<1>4. DirectoryTyped'
  <2>1. blamed' \subseteq File
    BY <1>1, <1>2 DEF DirectoryTyped
  <2> QED
    BY <1>1, <1>2, <1>3, <2>1 DEF DirectoryTyped
<1>5. \A f \in File \ blamed' : Agree(f, cursor[f])'
  BY <1>1, <1>2 DEF FileKept, SettledFile, Agree
<1>6. pass'.at = "idle" /\ F!MirrorHolds'
  BY <1>1 DEF F!MirrorHolds, F!NoPass
<1> QED
  BY <1>4, <1>5, <1>6 DEF FilesInv

LEMMA FilesStart == ASSUME F!FileInit PROVE FilesInv
<1>1. /\ dir = F!Nothing /\ storage = F!Nothing /\ memory = F!Nothing /\ cursor = F!Nothing
      /\ pass = F!NoPass /\ touched = {} /\ blamed = {}
  BY DEF F!FileInit
<1>2. DirectoryTyped
  <2>1. F!Nothing \in [File -> Copy]
    BY DEF F!Nothing, Copy
  <2>2. F!NoPass \in [at : PlaceInPass, list : Seq(File), left : Seq(File), room : Nat, seen : [File -> Copy],
                      raw : Copy, gone : SUBSET File, wrote : SUBSET File]
    BY <2>1 DEF F!NoPass, PlaceInPass, Walking, Copy
  <2> QED
    BY <1>1, <2>1, <2>2 DEF DirectoryTyped
<1>3. pass.at = "idle" /\ F!MirrorHolds /\ \A f \in File : Agree(f, cursor[f])
  BY <1>1 DEF F!NoPass, F!MirrorHolds, Agree
<1> QED
  BY <1>2, <1>3 DEF FilesInv

LEMMA FilesNextKeeps ==
  ASSUME F!FileParameters, FilesInv, [F!FileNext]_(F!fileVars)
  PROVE  FilesInv'
<1>1. CASE F!FileNext
  <2>1. (\E f \in File, c \in Copy : F!Change(f, c)) => FilesInv'
    BY ChangeKeeps
  <2>2. F!Begin \/ F!ReadFails \/ F!Read \/ F!StoreFile \/ F!IndexFile => FilesInv'
    BY BeginKeeps, ReadFailsKeeps, ReadKeeps, StoreFileKeeps, IndexFileKeeps
  <2>3. F!EndOfWalk \/ F!DeleteGone \/ F!Finish \/ F!CutShort => FilesInv'
    BY EndOfWalkKeeps, DeleteGoneKeeps, FinishKeeps, FilesCutShort
  <2> QED
    BY <1>1, <2>1, <2>2, <2>3 DEF F!FileNext, Copy
<1>2. CASE UNCHANGED F!fileVars
  <2>1. /\ UNCHANGED <<dir, storage, memory, cursor, pass, touched, blamed>>
    BY <1>2 DEF F!fileVars
  <2>2. DirectoryTyped' /\ (F!MirrorHolds <=> F!MirrorHolds') /\ (Positioned <=> Positioned')
    BY <2>1 DEF FilesInv, DirectoryTyped, F!MirrorHolds, Positioned, Behind
  <2>3. \A f \in File : Agree(f, cursor[f])' <=> Agree(f, cursor[f])
    BY <2>1 DEF Agree
  <2>4. Current' = Current /\ Walked' = Walked
    BY <2>1 DEF Current, Walked, Behind
  <2>5. \A f \in File : FileKept(f) => FileKept(f)'
    BY <2>1, <2>4 DEF FileKept, SettledFile, WrittenFile, SeenFile, AheadFile, CurrentFile, GoneFile, Agree
  <2> QED
    BY <2>1, <2>2, <2>3, <2>5 DEF FilesInv
<1> QED
  BY <1>1, <1>2

(* The invariant of the pass over the files, at every step of it.          *)
THEOREM FilesInvariance ==
  ASSUME F!FileParameters
  PROVE  F!FileSpec => []FilesInv
<1>1. F!FileInit => FilesInv
  BY FilesStart
<1>2. FilesInv /\ [F!FileNext]_(F!fileVars) => FilesInv'
  BY FilesNextKeeps
<1> QED
  BY <1>1, <1>2, PTL DEF F!FileSpec
-----------------------------------------------------------------------------
(***************************************************************************)
(* The pass over a mailbox.  The order of the strings has a greatest, so   *)
(* what Raise gives is among what it was given.                            *)
(***************************************************************************)
LEMMA MailCounted == /\ \A T : G!Cardinality(T) = Cardinality(T)
                     /\ \A T : G!IsFiniteSet(T) <=> IsFiniteSet(T)
BY DEF G!Cardinality, Cardinality, G!IsFiniteSet, IsFiniteSet

LEMMA DigitsTyped == \A id \in Nat : G!InDigits(id) \in Nat
BY DEF G!InDigits

LEMMA GreatestString ==
  ASSUME NEW ids \in SUBSET Nat, IsFiniteSet(ids), ids # {}
  PROVE  \E id \in ids : \A other \in ids : G!InDigits(other) <= G!InDigits(id)
<1> DEFINE T == {G!InDigits(id) : id \in ids}
           f == [id \in ids |-> G!InDigits(id)]
<1>1. T \in SUBSET Nat /\ T # {}
  BY DigitsTyped
<1>2. f \in Surjection(ids, T)
  BY DEF Surjection
<1>3. IsFiniteSet(T)
  <2> HIDE DEF f, T
  <2> QED
    BY <1>2, FS_Surjection
<1>4. PICK x \in T : \A y \in T : y <= x
  <2> HIDE DEF T
  <2> QED
    BY <1>1, <1>3, GreatestNumber
<1> QED
  BY <1>4

LEMMA RaisedAmong ==
  ASSUME None \notin Nat, NEW high \in Nat \union {None}, NEW ids \in SUBSET Nat, IsFiniteSet(ids)
  PROVE  G!Raise(high, ids) \in ids \union {high}
<1> DEFINE seen == ids \union {high}
           Top(id) == \A other \in seen : ~ G!Greater(other, id)
<1>1. G!Raise(high, ids) = CHOOSE id \in seen : Top(id)
  BY DEF G!Raise
<1>2. \E id \in seen : Top(id)
  <2> DEFINE numbers == seen \ {None}
  <2>1. CASE numbers = {}
    <3>1. seen = {None}
      BY <2>1
    <3> QED
      BY <3>1 DEF G!Greater
  <2>2. CASE numbers # {}
    <3>1. numbers \in SUBSET Nat /\ None \notin numbers
      OBVIOUS
    <3>2. IsFiniteSet(numbers)
      <4>1. IsFiniteSet(seen)
        BY FS_AddElement
      <4> QED
        BY <4>1, FS_RemoveElement
    <3>3. PICK id \in numbers : \A other \in numbers : G!InDigits(other) <= G!InDigits(id)
      <4> HIDE DEF numbers
      <4> QED
        BY <2>2, <3>1, <3>2, GreatestString
    <3>4. Top(id)
      <4> SUFFICES ASSUME NEW other \in seen, G!Greater(other, id) PROVE FALSE
        OBVIOUS
      <4>1. other \in numbers /\ id # None /\ id \in Nat /\ other \in Nat
        BY <3>1 DEF G!Greater
      <4>2. G!InDigits(other) > G!InDigits(id)
        BY <4>1 DEF G!Greater
      <4> QED
        BY <3>3, <4>1, <4>2, DigitsTyped
    <3> QED
      BY <3>4
  <2> QED
    BY <2>1, <2>2
<1> HIDE DEF Top, seen
<1>3. G!Raise(high, ids) \in seen
  BY <1>1, <1>2
<1> QED
  BY <1>3 DEF seen

LEMMA NewestListed ==
  ASSUME G!GmailParameters, NEW messages \in SUBSET Message
  PROVE  \E n \in Nat : Listing(G!NewestFirst(messages), n, messages) /\ n = G!Cardinality(messages)
<1> DEFINE n == Cardinality(messages)
           Order(list) == \A i, j \in DOMAIN list : i < j => list[i] > list[j]
<1>1. messages \in SUBSET Nat /\ IsFiniteSet(Message)
  BY MailCounted DEF G!GmailParameters
<1>2. IsFiniteSet(messages)
  BY <1>1, FS_Subset
<1>3. n \in Nat /\ \E list : Lists(list, n, messages)
  BY <1>1, <1>2, CanBeListed
<1>4. G!NewestFirst(messages) = CHOOSE list \in G!Bijection(1 .. n, messages) : Order(list)
  BY MailCounted DEF G!NewestFirst
<1>5. n = G!Cardinality(messages)
  BY MailCounted
<1> HIDE DEF n
<1>6. \A list \in G!Bijection(1 .. n, messages) : Listing(list, n, messages)
  BY <1>3 DEF Listing, G!Bijection, G!Injection, G!Surjection, G!IsInjective
<1>7. PICK list : Listing(list, n, messages) /\ \A i, j \in 1 .. n : i < j => list[i] > list[j]
  BY <1>1, <1>3, ReversedLists
<1>8. list \in G!Bijection(1 .. n, messages) /\ Order(list)
  BY <1>7 DEF Listing, G!Bijection, G!Injection, G!Surjection, G!IsInjective
<1> HIDE DEF Order
<1>9. G!NewestFirst(messages) \in G!Bijection(1 .. n, messages)
  BY <1>4, <1>8
<1> QED
  BY <1>3, <1>5, <1>6, <1>9

LEMMA RecordsInOrder ==
  ASSUME NEW ids \in SUBSET Nat, IsFiniteSet(ids)
  PROVE  \E n \in Nat : Listing(G!InOrder(ids), n, ids)
<1> DEFINE n == Cardinality(ids)
           Order(list) == \A i, j \in DOMAIN list : i < j => list[i] < list[j]
<1>1. n \in Nat /\ \E list : Lists(list, n, ids)
  BY CanBeListed
<1>2. G!InOrder(ids) = CHOOSE list \in G!Bijection(1 .. n, ids) : Order(list)
  BY MailCounted DEF G!InOrder
<1> HIDE DEF n
<1>3. \A list \in G!Bijection(1 .. n, ids) : Listing(list, n, ids)
  BY <1>1 DEF Listing, G!Bijection, G!Injection, G!Surjection, G!IsInjective
<1>4. PICK list : Lists(list, n, ids)
  BY <1>1
<1>5. Listing(list, n, ids)
  BY <1>1, <1>4, ListsOnce
<1>6. list \in G!Bijection(1 .. n, ids) /\ Order(list)
  BY <1>4, <1>5 DEF Lists, Listing, G!Bijection, G!Injection, G!Surjection, G!IsInjective
<1> HIDE DEF Order
<1>7. G!InOrder(ids) \in G!Bijection(1 .. n, ids)
  BY <1>2, <1>6
<1> QED
  BY <1>1, <1>3, <1>7

(***************************************************************************)
(* What holds of a mailbox and its copies.  The box is what the history    *)
(* adds and does not delete.  Up to the cursor the history has been        *)
(* followed, at every moment and not only between passes: a pass stores    *)
(* only what is in the box, and drops only what is not.  A pass over the   *)
(* history has followed it as far as it has read, but for what it still    *)
(* has to fetch or to drop, and the cursor it will leave is no further; a  *)
(* full pass vouches for what it fetched and nothing touched since.        *)
(***************************************************************************)
MailPlace == {"idle", "list", "fetch", "history", "delete"}
Kinds == {"added", "changed", "deleted"}

MailTyped ==
  /\ now \in FirstId .. LastId
  /\ log \in Seq(Kinds \X Message) /\ Len(log) = now - FirstId
  /\ mail \in [Message -> (FirstId .. now) \union {None}]
  /\ emails \subseteq Message /\ mailMemory \subseteq Message /\ mailBlamed \subseteq Message
  /\ mailCursor \in (FirstId .. now) \union {None}
  /\ mailPass \in [at : MailPlace, full : BOOLEAN, todo : Seq(Message), after : Nat \union {None},
                   more : BOOLEAN, count : Nat, high : Nat \union {None}, largest : Nat,
                   drop : SUBSET Message, did : SUBSET Message]
  /\ mailPass.high \in (FirstId .. now) \union {None}

Ever(kind, m) == \E i \in DOMAIN log : log[i] = <<kind, m>>
Until(kind, m, c) == \E i \in DOMAIN log : FirstId + i <= c /\ log[i] = <<kind, m>>

BoxIsHistory ==
  \A m \in Message : /\ Ever("deleted", m) => Ever("added", m)
                     /\ m \in G!Box <=> Ever("added", m) /\ ~ Ever("deleted", m)

Copied(m) == m \in emails /\ m \in mailMemory
Dropped(m) == m \notin emails /\ m \notin mailMemory

Followed(m, c) ==
  /\ Until("deleted", m, c) => Dropped(m)
  /\ Until("added", m, c) /\ m \in G!Box => Copied(m)

FullPass ==
  /\ mailPass.at \in {"list", "fetch", "delete"}
  /\ mailCursor = None /\ mailPass.drop = {}
  /\ \A m \in mailPass.did \ mailBlamed : m \in G!Box /\ Copied(m)
  /\ mailPass.at = "delete" => \A m \in Message \ mailBlamed : m \in mailPass.did \/ ~ Ever("added", m)

HistoryFollowed(m) ==
  /\ Until("deleted", m, mailPass.after) => m \in mailPass.drop \/ Dropped(m)
  /\ Until("added", m, mailPass.after) /\ m \in G!Box => m \in G!Range(mailPass.todo) \/ Copied(m)

HistoryPass ==
  /\ mailPass.at \in {"history", "fetch", "delete"}
  /\ mailCursor # None
  /\ mailPass.after \in FirstId .. now /\ mailPass.high \in FirstId .. now
  /\ mailPass.at # "history" => mailPass.high <= mailPass.after
  /\ mailPass.at = "delete" => mailPass.todo = <<>>
  /\ \A m \in mailPass.drop : Ever("deleted", m)
  /\ \A m \in Message \ mailBlamed : HistoryFollowed(m)

MailInv ==
  /\ MailTyped /\ BoxIsHistory
  /\ mailCursor # None => \A m \in Message \ mailBlamed : Followed(m, mailCursor)
  /\ mailPass.at # "idle" /\ mailPass.full => FullPass
  /\ mailPass.at # "idle" /\ ~ mailPass.full => HistoryPass

LEMMA UntilIsEver ==
  ASSUME NEW kind, NEW m, NEW c, Until(kind, m, c)
  PROVE  Ever(kind, m)
BY DEF Until, Ever

(* A record is appended: it is the newest, and beyond every id so far.     *)
LEMMA HistoryGrows ==
  ASSUME G!GmailParameters, MailTyped, NEW kind \in Kinds, NEW m \in Message,
         now' = now + 1, log' = Append(log, <<kind, m>>)
  PROVE  /\ log' \in Seq(Kinds \X Message) /\ Len(log') = now' - FirstId
         /\ \A k, x : Ever(k, x)' <=> Ever(k, x) \/ (k = kind /\ x = m)
         /\ \A k, x : \A c \in FirstId .. now : Until(k, x, c)' <=> Until(k, x, c)
<1>1. /\ log \in Seq(Kinds \X Message) /\ Len(log) = now - FirstId /\ FirstId \in Nat /\ now \in Nat
      /\ DOMAIN log = 1 .. Len(log) /\ Len(log) \in Nat /\ <<kind, m>> \in Kinds \X Message
  BY DEF MailTyped, G!GmailParameters
<1> DEFINE record == <<kind, m>>
<1> HIDE DEF record
<1>2. record \in Kinds \X Message
  BY <1>1 DEF record
<1>3. log' = Append(log, record)
  BY DEF record
<1>4. /\ log' \in Seq(Kinds \X Message) /\ Len(log') = Len(log) + 1 /\ DOMAIN log' = 1 .. Len(log) + 1
      /\ \A i \in 1 .. Len(log) : log'[i] = log[i]
      /\ log'[Len(log) + 1] = record
  BY <1>1, <1>2, <1>3
<1>5. Len(log') = now' - FirstId
  BY <1>1, <1>4
<1>6. 1 .. Len(log) + 1 = (1 .. Len(log)) \union {Len(log) + 1}
  BY <1>1
<1>7. ASSUME NEW k, NEW x PROVE Ever(k, x)' <=> Ever(k, x) \/ (k = kind /\ x = m)
  <2>1. Ever(k, x)' <=> (\E i \in 1 .. Len(log) + 1 : log'[i] = <<k, x>>)
    BY <1>4 DEF Ever
  <2>2. Ever(k, x) <=> (\E i \in 1 .. Len(log) : log[i] = <<k, x>>)
    BY <1>1 DEF Ever
  <2>3. record = <<k, x>> <=> k = kind /\ x = m
    BY DEF record
  <2> QED
    BY <1>4, <1>6, <2>1, <2>2, <2>3
<1>8. ASSUME NEW k, NEW x, NEW c \in FirstId .. now PROVE Until(k, x, c)' <=> Until(k, x, c)
  <2>1. Until(k, x, c)' <=> (\E i \in 1 .. Len(log) + 1 : FirstId + i <= c /\ log'[i] = <<k, x>>)
    BY <1>4 DEF Until
  <2>2. Until(k, x, c) <=> (\E i \in 1 .. Len(log) : FirstId + i <= c /\ log[i] = <<k, x>>)
    BY <1>1 DEF Until
  <2>3. ~ (FirstId + (Len(log) + 1) <= c)
    BY <1>1
  <2> QED
    BY <1>4, <1>6, <2>1, <2>2, <2>3
<1> QED
  BY <1>4, <1>5, <1>7, <1>8

(* The mailbox changes, in one message.                                    *)
LEMMA HappensKeeps ==
  ASSUME G!GmailParameters, MailInv, NEW kind \in Kinds, NEW m \in Message, NEW id \in {now + 1, None},
         G!Happens(kind, m, id), kind = "deleted" <=> id = None,
         kind = "added" => ~ Ever("added", m), kind # "added" => m \in G!Box
  PROVE  MailInv'
<1>1. /\ now < LastId /\ now' = now + 1 /\ log' = Append(log, <<kind, m>>) /\ mail' = [mail EXCEPT ![m] = id]
      /\ mailBlamed' = IF mailPass.at # "idle" /\ mailPass.full THEN mailBlamed \union {m} ELSE mailBlamed
      /\ UNCHANGED <<emails, mailMemory, mailCursor, mailPass>>
  BY DEF G!Happens
<1>2. MailTyped /\ BoxIsHistory /\ FirstId \in Nat /\ now \in Nat /\ LastId \in Nat /\ FirstId <= now
      /\ None \notin Nat
  BY DEF MailInv, MailTyped, G!GmailParameters
<1>3. /\ log' \in Seq(Kinds \X Message) /\ Len(log') = now' - FirstId
      /\ \A k, x : Ever(k, x)' <=> Ever(k, x) \/ (k = kind /\ x = m)
      /\ \A k, x : \A c \in FirstId .. now : Until(k, x, c)' <=> Until(k, x, c)
  BY <1>1, <1>2, HistoryGrows
<1>4. FirstId .. now \subseteq FirstId .. now' /\ now + 1 \in FirstId .. now' /\ now' \in FirstId .. LastId
  BY <1>1, <1>2
<1>5. MailTyped'
  <2>1. mail' \in [Message -> (FirstId .. now') \union {None}]
    BY <1>1, <1>2, <1>4 DEF MailTyped
  <2>2. mailCursor \in (FirstId .. now') \union {None} /\ mailPass.high \in (FirstId .. now') \union {None}
    BY <1>2, <1>4 DEF MailTyped
  <2>3. mailBlamed' \subseteq Message
    BY <1>1, <1>2 DEF MailTyped
  <2>4. emails' \subseteq Message /\ mailMemory' \subseteq Message
    BY <1>1, <1>2 DEF MailTyped
  <2>5. mailPass' \in [at : MailPlace, full : BOOLEAN, todo : Seq(Message), after : Nat \union {None},
                      more : BOOLEAN, count : Nat, high : Nat \union {None}, largest : Nat,
                      drop : SUBSET Message, did : SUBSET Message]
    BY <1>1, <1>2 DEF MailTyped
  <2> QED
    BY <1>1, <1>3, <1>4, <2>1, <2>2, <2>3, <2>4, <2>5 DEF MailTyped
<1>6. /\ \A x \in Message \ {m} : x \in G!Box' <=> x \in G!Box
      /\ m \in G!Box' <=> kind # "deleted"
  <2>1. \A x \in Message : mail'[x] = IF x = m THEN id ELSE mail[x]
    BY <1>1, <1>2 DEF MailTyped
  <2>2. id # None <=> kind # "deleted"
    BY <1>2
  <2> QED
    BY <2>1, <2>2 DEF G!Box
<1>7. BoxIsHistory'
  <2> SUFFICES ASSUME NEW x \in Message
               PROVE  /\ Ever("deleted", x)' => Ever("added", x)'
                      /\ x \in G!Box' <=> Ever("added", x)' /\ ~ Ever("deleted", x)'
    BY DEF BoxIsHistory
  <2>1. /\ Ever("deleted", x) => Ever("added", x)
        /\ x \in G!Box <=> Ever("added", x) /\ ~ Ever("deleted", x)
    BY <1>2 DEF BoxIsHistory
  <2>2. /\ Ever("added", x)' <=> Ever("added", x) \/ ("added" = kind /\ x = m)
        /\ Ever("deleted", x)' <=> Ever("deleted", x) \/ ("deleted" = kind /\ x = m)
    BY <1>3
  <2>3. CASE x # m
    BY <1>6, <2>1, <2>2, <2>3
  <2>4. CASE x = m
    <3>1. kind = "added" \/ kind = "changed" \/ kind = "deleted"
      BY DEF Kinds
    <3> QED
      BY <1>6, <2>1, <2>2, <2>4, <3>1
  <2> QED
    BY <2>3, <2>4
<1>8. ASSUME NEW c \in FirstId .. now, NEW x \in Message
      PROVE  /\ Until("deleted", x, c)' <=> Until("deleted", x, c)
             /\ Until("added", x, c)' /\ x \in G!Box' => Until("added", x, c) /\ x \in G!Box
             /\ Copied(x)' <=> Copied(x)
             /\ Dropped(x)' <=> Dropped(x)
  <2>1. /\ Until("deleted", x, c)' <=> Until("deleted", x, c)
        /\ Until("added", x, c)' <=> Until("added", x, c)
    BY <1>3
  <2>2. Until("added", x, c) => Ever("added", x)
    BY UntilIsEver
  <2>3. ASSUME Until("added", x, c), x \in G!Box' PROVE x \in G!Box
    <3>1. CASE x # m
      BY <1>6, <2>3, <3>1
    <3>2. CASE x = m
      <4>1. kind # "added"
        BY <2>2, <2>3, <3>2
      <4> QED
        BY <3>2, <4>1
    <3> QED
      BY <3>1, <3>2
  <2>4. (Copied(x)' <=> Copied(x)) /\ (Dropped(x)' <=> Dropped(x))
    BY <1>1 DEF Copied, Dropped
  <2> QED
    BY <2>1, <2>3, <2>4
<1>9. \A x \in Message \ mailBlamed' : x \in Message \ mailBlamed
  BY <1>1
<1>10. ASSUME mailCursor' # None, NEW x \in Message \ mailBlamed' PROVE Followed(x, mailCursor)'
  <2>1. mailCursor \in FirstId .. now /\ Followed(x, mailCursor)
    BY <1>1, <1>2, <1>9, <1>10 DEF MailInv, MailTyped
  <2>2. /\ Until("deleted", x, mailCursor)' <=> Until("deleted", x, mailCursor)
        /\ Until("added", x, mailCursor)' <=> Until("added", x, mailCursor)
    <3>1. PICK c \in FirstId .. now : c = mailCursor
      BY <2>1
    <3>2. /\ Until("deleted", x, c)' <=> Until("deleted", x, c)
          /\ Until("added", x, c)' <=> Until("added", x, c)
      BY <1>3
    <3>3. mailCursor' = c
      BY <1>1, <3>1
    <3> QED
      BY <3>1, <3>2, <3>3 DEF Until
  <2>3. /\ Until("added", x, mailCursor) /\ x \in G!Box' => x \in G!Box
        /\ Copied(x)' <=> Copied(x)
        /\ Dropped(x)' <=> Dropped(x)
    BY <1>3, <1>8, <2>1
  <2> QED
    BY <2>1, <2>2, <2>3 DEF Followed
<1>11. ASSUME mailPass'.at # "idle", mailPass'.full PROVE FullPass'
  <2>1. FullPass /\ mailBlamed' = mailBlamed \union {m}
    BY <1>1, <1>11 DEF MailInv
  <2>2. \A x \in mailPass.did \ mailBlamed' : x \in Message \ {m} /\ x \in mailPass.did \ mailBlamed
    BY <1>2, <2>1 DEF MailTyped
  <2>3. \A x : Copied(x)' <=> Copied(x)
    BY <1>1 DEF Copied
  <2>4. \A x \in mailPass'.did \ mailBlamed' : x \in G!Box' /\ Copied(x)'
    BY <1>1, <1>6, <2>1, <2>2, <2>3 DEF FullPass
  <2>5. ASSUME mailPass'.at = "delete", NEW x \in Message \ mailBlamed'
        PROVE  x \in mailPass'.did \/ ~ Ever("added", x)'
    <3>1. x # m /\ (x \in mailPass.did \/ ~ Ever("added", x))
      BY <1>1, <2>1, <2>5 DEF FullPass
    <3>2. Ever("added", x)' <=> Ever("added", x)
      BY <1>3, <3>1
    <3> QED
      BY <1>1, <3>1, <3>2
  <2> QED
    BY <1>1, <2>1, <2>4, <2>5 DEF FullPass
<1>12. ASSUME mailPass'.at # "idle", ~ mailPass'.full PROVE HistoryPass'
  <2>1. HistoryPass /\ mailBlamed' = mailBlamed
    BY <1>1, <1>12 DEF MailInv
  <2>2. mailPass.after \in FirstId .. now /\ mailPass.high \in FirstId .. now
    BY <2>1 DEF HistoryPass
  <2>3. mailPass'.after \in FirstId .. now' /\ mailPass'.high \in FirstId .. now'
    BY <1>1, <1>4, <2>2
  <2>4. \A x \in mailPass'.drop : Ever("deleted", x)'
    BY <1>1, <1>3, <2>1 DEF HistoryPass
  <2>5. ASSUME NEW x \in Message \ mailBlamed' PROVE HistoryFollowed(x)'
    <3>1. HistoryFollowed(x)
      BY <2>1, <2>5 DEF HistoryPass
    <3>2. PICK c \in FirstId .. now : c = mailPass.after
      BY <2>2
    <3>3. /\ Until("deleted", x, c)' <=> Until("deleted", x, c)
          /\ Until("added", x, c)' /\ x \in G!Box' => Until("added", x, c) /\ x \in G!Box
          /\ Copied(x)' <=> Copied(x)
          /\ Dropped(x)' <=> Dropped(x)
      BY <1>8, <2>5
    <3>4. mailPass'.after = c
      BY <1>1, <3>2
    <3>5. /\ Until("deleted", x, mailPass.after)' <=> Until("deleted", x, c)'
          /\ Until("added", x, mailPass.after)' <=> Until("added", x, c)'
      BY <3>4 DEF Until
    <3> QED
      BY <1>1, <3>1, <3>2, <3>3, <3>5 DEF HistoryFollowed, G!Range
  <2> QED
    BY <1>1, <2>1, <2>3, <2>4, <2>5 DEF HistoryPass
<1> QED
  BY <1>5, <1>7, <1>10, <1>11, <1>12 DEF MailInv

LEMMA MailboxStays ==
  ASSUME UNCHANGED <<mail, log, now>>
  PROVE  /\ G!Box' = G!Box /\ (BoxIsHistory <=> BoxIsHistory')
         /\ \A k, x : Ever(k, x)' <=> Ever(k, x)
         /\ \A k, x, c : Until(k, x, c)' <=> Until(k, x, c)
BY DEF G!Box, BoxIsHistory, Ever, Until

PassTyped(p) ==
  /\ p \in [at : MailPlace, full : BOOLEAN, todo : Seq(Message), after : Nat \union {None},
            more : BOOLEAN, count : Nat, high : Nat \union {None}, largest : Nat,
            drop : SUBSET Message, did : SUBSET Message]
  /\ p.high \in (FirstId .. now) \union {None}

(* A step of a pass, of which the rest is to be said.                      *)
LEMMA PassSteps ==
  ASSUME MailInv, UNCHANGED <<mail, log, now, mailCursor>>,
         PassTyped(mailPass'), emails' \subseteq Message, mailMemory' \subseteq Message,
         mailBlamed' \subseteq Message,
         mailCursor # None => \A m \in Message \ mailBlamed' : Followed(m, mailCursor)',
         mailPass'.at # "idle" /\ mailPass'.full => FullPass',
         mailPass'.at # "idle" /\ ~ mailPass'.full => HistoryPass'
  PROVE  MailInv'
<1>1. MailTyped'
  BY DEF MailInv, MailTyped, PassTyped
<1>2. BoxIsHistory'
  BY MailboxStays DEF MailInv
<1> QED
  BY <1>1, <1>2 DEF MailInv

(* The copies of a message stay, and it is not less to blame.              *)
LEMMA StaysFollowed ==
  ASSUME MailInv, UNCHANGED <<mail, log, now, mailCursor, emails, mailMemory>>, mailBlamed \subseteq mailBlamed'
  PROVE  mailCursor # None => \A m \in Message \ mailBlamed' : Followed(m, mailCursor)'
<1>1. \A m : /\ Until("deleted", m, mailCursor)' <=> Until("deleted", m, mailCursor)
             /\ Until("added", m, mailCursor)' <=> Until("added", m, mailCursor)
  BY DEF Until
<1> QED
  BY <1>1, MailboxStays DEF MailInv, Followed, Dropped, Copied

LEMMA PassIsTyped == ASSUME MailInv PROVE PassTyped(mailPass)
BY DEF MailInv, MailTyped, PassTyped

LEMMA NoPassTyped == PassTyped(G!NoPass) /\ G!NoPass.at = "idle"
BY DEF PassTyped, G!NoPass, MailPlace

LEMMA MailBeginKeeps == ASSUME G!GmailParameters, MailInv, G!Begin PROVE MailInv'
<1> DEFINE start == IF mailCursor = None THEN G!Cardinality(Message) + 1 ELSE mailCursor
           largest == IF mailCursor = None THEN 0 ELSE mailCursor
           full == mailCursor = None
           at == IF mailCursor = None THEN "list" ELSE "history"
<1>1. /\ UNCHANGED <<mail, log, now, mailCursor, emails, mailMemory, mailBlamed>>
      /\ mailPass' = [G!NoPass EXCEPT !.at = at, !.full = full, !.high = mailCursor, !.largest = largest,
                                      !.after = start]
  BY DEF G!Begin
<1>2. /\ mailCursor \in (FirstId .. now) \union {None} /\ FirstId \in Nat /\ now \in Nat /\ None \notin Nat
      /\ emails \subseteq Message /\ mailMemory \subseteq Message /\ mailBlamed \subseteq Message
  BY DEF MailInv, MailTyped, G!GmailParameters
<1>3. start \in Nat /\ largest \in Nat /\ full \in BOOLEAN /\ at \in MailPlace
  <2>1. G!Cardinality(Message) \in Nat
    BY MailCounted, FS_CardinalityType DEF G!GmailParameters
  <2> QED
    BY <1>2, <2>1 DEF MailPlace
<1>4. /\ (full <=> mailCursor = None)
      /\ mailCursor = None => at = "list"
      /\ mailCursor # None => at = "history" /\ start = mailCursor
  OBVIOUS
<1> HIDE DEF start, largest, full, at
<1>5. /\ mailPass'.at = at /\ mailPass'.full = full /\ mailPass'.high = mailCursor /\ mailPass'.after = start
      /\ mailPass'.todo = <<>> /\ mailPass'.drop = {} /\ mailPass'.did = {}
  BY <1>1 DEF G!NoPass
<1>6. PassTyped(mailPass')
  <2>1. mailCursor \in Nat \union {None}
    BY <1>2
  <2>2. mailPass' = [at |-> at, full |-> full, todo |-> <<>>, after |-> start, more |-> FALSE, count |-> 0,
                    high |-> mailCursor, largest |-> largest, drop |-> {}, did |-> {}]
    BY <1>1 DEF G!NoPass
  <2>3. mailPass' \in [at : MailPlace, full : BOOLEAN, todo : Seq(Message), after : Nat \union {None},
                      more : BOOLEAN, count : Nat, high : Nat \union {None}, largest : Nat,
                      drop : SUBSET Message, did : SUBSET Message]
    BY <1>3, <2>1, <2>2
  <2> QED
    BY <1>2, <1>5, <2>3 DEF PassTyped
<1>7. mailCursor # None => \A m \in Message \ mailBlamed' : Followed(m, mailCursor)'
  BY <1>1, StaysFollowed
<1>8. mailPass'.full => FullPass'
  BY <1>1, <1>4, <1>5 DEF FullPass
<1>9. ASSUME ~ mailPass'.full PROVE HistoryPass'
  <2>1. mailCursor \in FirstId .. now /\ at = "history" /\ start = mailCursor /\ mailCursor # None
    BY <1>2, <1>4, <1>5, <1>9
  <2>2. ASSUME NEW m \in Message \ mailBlamed' PROVE HistoryFollowed(m)'
    <3>1. Followed(m, mailCursor)'
      BY <1>7, <2>1, <2>2
    <3>2. mailPass'.after = mailCursor'
      BY <1>1, <1>5, <2>1
    <3> QED
      BY <3>1, <3>2 DEF Followed, HistoryFollowed, Until
  <2> QED
    BY <1>1, <1>5, <2>1, <2>2 DEF HistoryPass
<1> QED
  BY <1>1, <1>2, <1>6, <1>7, <1>8, <1>9, PassSteps

LEMMA ListPageKeeps == ASSUME G!GmailParameters, MailInv, G!ListPage PROVE MailInv'
<1> DEFINE rest == {m \in G!Box : m < mailPass.after}
           page == SubSeq(G!NewestFirst(rest), 1, G!Min({Page, G!Cardinality(rest)}))
           more == Len(page) < G!Cardinality(rest)
           after == IF page = <<>> THEN 1 ELSE page[Len(page)]
<1>1. /\ mailPass.at = "list"
      /\ UNCHANGED <<mail, log, now, mailCursor, emails, mailMemory, mailBlamed>>
      /\ mailPass' = [mailPass EXCEPT !.at = "fetch", !.todo = page, !.more = more, !.after = after]
  BY DEF G!ListPage, G!Steps, G!Quiet
<1>2. PassTyped(mailPass) /\ MailTyped
  BY PassIsTyped DEF MailInv
<1>3. rest \subseteq Message /\ Message \subseteq Nat /\ Page \in Nat
  BY DEF G!Box, G!GmailParameters
<1>4. page \in Seq(Message)
  <2>1. PICK n \in Nat : Listing(G!NewestFirst(rest), n, rest) /\ n = G!Cardinality(rest)
    <3> HIDE DEF rest
    <3> QED
      BY <1>3, NewestListed
  <2> DEFINE list == G!NewestFirst(rest)
             count == G!Min({Page, G!Cardinality(rest)})
  <2>2. list \in [1 .. n -> Message]
    BY <1>3, <2>1 DEF Listing
  <2>3. count \in Nat /\ count <= n
    <3>1. G!Cardinality(rest) = n
      BY <2>1
    <3> HIDE DEF rest
    <3>2. \E x \in {Page, n} : \A y \in {Page, n} : x <= y
      BY <1>3
    <3>3. G!Min({Page, n}) \in {Page, n} /\ G!Min({Page, n}) <= n
      BY <3>2 DEF G!Min
    <3> QED
      BY <1>3, <3>1, <3>3
  <2> HIDE DEF list, count
  <2>4. list \in Seq(Message) /\ Len(list) = n
    BY <2>2
  <2>5. SubSeq(list, 1, count) \in Seq(Message)
    BY <2>3, <2>4
  <2> QED
    BY <2>5 DEF list, count
<1>5. more \in BOOLEAN
  OBVIOUS
<1> HIDE DEF rest, page, more
<1>6. after \in Nat
  <2>1. CASE page # <<>>
    <3>1. Len(page) \in 1 .. Len(page) /\ page[Len(page)] \in Message
      BY <1>4, <2>1
    <3> QED
      BY <1>3, <2>1, <3>1
  <2> QED
    BY <2>1
<1> HIDE DEF after
<1>7. /\ mailPass'.at = "fetch" /\ mailPass'.full = mailPass.full /\ mailPass'.high = mailPass.high
      /\ mailPass'.drop = mailPass.drop /\ mailPass'.did = mailPass.did
  BY <1>1, <1>2 DEF PassTyped
<1>8. PassTyped(mailPass')
  BY <1>1, <1>2, <1>4, <1>5, <1>6 DEF PassTyped, MailPlace
<1>9. mailPass.full /\ FullPass
  <2>1. ~ HistoryPass
    BY <1>1 DEF HistoryPass
  <2> QED
    BY <1>1, <2>1 DEF MailInv
<1>10. FullPass'
  BY <1>1, <1>7, <1>9, MailboxStays DEF FullPass, Copied
<1>11. mailCursor # None => \A m \in Message \ mailBlamed' : Followed(m, mailCursor)'
  BY <1>1, StaysFollowed
<1>12. mailPass'.full /\ emails' \subseteq Message /\ mailMemory' \subseteq Message /\ mailBlamed' \subseteq Message
  BY <1>1, <1>2, <1>7, <1>9 DEF MailTyped
<1> QED
  BY <1>1, <1>8, <1>10, <1>11, <1>12, PassSteps

LEMMA SmallerOf ==
  ASSUME NEW a \in Nat, NEW b \in Nat
  PROVE  G!Min({a, b}) = IF a <= b THEN a ELSE b
<1>1. \E x \in {a, b} : \A y \in {a, b} : x <= y
  OBVIOUS
<1>2. G!Min({a, b}) \in {a, b} /\ \A y \in {a, b} : G!Min({a, b}) <= y
  BY <1>1 DEF G!Min
<1> QED
  BY <1>2

LEMMA JoinedRange ==
  ASSUME NEW T, NEW s \in Seq(T), NEW t \in Seq(T)
  PROVE  /\ s \o t \in Seq(T)
         /\ \A x : x \in G!Range(s) \/ x \in G!Range(t) => x \in G!Range(s \o t)
<1>1. /\ s \o t \in Seq(T) /\ Len(s \o t) = Len(s) + Len(t) /\ Len(s) \in Nat /\ Len(t) \in Nat
      /\ \A i \in 1 .. Len(s) : (s \o t)[i] = s[i] /\ i \in 1 .. Len(s) + Len(t)
      /\ \A i \in 1 .. Len(t) : (s \o t)[Len(s) + i] = t[i] /\ Len(s) + i \in 1 .. Len(s) + Len(t)
      /\ DOMAIN (s \o t) = 1 .. Len(s) + Len(t)
      /\ DOMAIN s = 1 .. Len(s) /\ DOMAIN t = 1 .. Len(t)
  OBVIOUS
<1>2. ASSUME NEW x, x \in G!Range(s) PROVE x \in G!Range(s \o t)
  <2>1. PICK i \in 1 .. Len(s) : s[i] = x
    BY <1>1, <1>2 DEF G!Range
  <2>2. (s \o t)[i] = x /\ i \in DOMAIN (s \o t)
    BY <1>1, <2>1
  <2> QED
    BY <2>2 DEF G!Range
<1>3. ASSUME NEW x, x \in G!Range(t) PROVE x \in G!Range(s \o t)
  <2>1. PICK i \in 1 .. Len(t) : t[i] = x
    BY <1>1, <1>3 DEF G!Range
  <2>2. (s \o t)[Len(s) + i] = x /\ Len(s) + i \in DOMAIN (s \o t)
    BY <1>1, <2>1
  <2> QED
    BY <2>2 DEF G!Range
<1> QED
  BY <1>1, <1>2, <1>3

(* The history of a page: its records, and what they are about.            *)
LEMMA PageOfHistory ==
  ASSUME G!GmailParameters, MailTyped, NEW after \in FirstId .. now, NEW last \in after .. now
  PROVE  /\ \A id \in after + 1 .. last : G!Record(id) \in Kinds \X Message
         /\ \A kind, id : id \in G!On(after + 1 .. last, kind) => Ever(kind, G!Record(id)[2])
         /\ \A kind, m : Until(kind, m, last) =>
              Until(kind, m, after) \/ \E id \in G!On(after + 1 .. last, kind) : G!Record(id)[2] = m
<1>1. /\ log \in Seq(Kinds \X Message) /\ Len(log) = now - FirstId /\ DOMAIN log = 1 .. Len(log)
      /\ FirstId \in Nat /\ now \in Nat
  BY DEF MailTyped, G!GmailParameters
<1>2. ASSUME NEW id \in after + 1 .. last
      PROVE  G!Record(id) \in Kinds \X Message /\ id - FirstId \in DOMAIN log /\ G!Record(id) = log[id - FirstId]
  <2>1. id - FirstId \in 1 .. Len(log)
    BY <1>1
  <2> QED
    BY <1>1, <2>1 DEF G!Record
<1>3. ASSUME NEW kind, NEW id, id \in G!On(after + 1 .. last, kind) PROVE Ever(kind, G!Record(id)[2])
  <2>1. id \in after + 1 .. last /\ G!Record(id)[1] = kind
    BY <1>3 DEF G!On
  <2>2. G!Record(id) = <<kind, G!Record(id)[2]>>
    BY <1>2, <2>1
  <2> QED
    BY <1>2, <2>1, <2>2 DEF Ever
<1>4. ASSUME NEW kind, NEW m, Until(kind, m, last), ~ Until(kind, m, after)
      PROVE  \E id \in G!On(after + 1 .. last, kind) : G!Record(id)[2] = m
  <2>1. PICK i \in DOMAIN log : FirstId + i <= last /\ log[i] = <<kind, m>>
    BY <1>4 DEF Until
  <2>2. ~ (FirstId + i <= after)
    BY <1>4, <2>1 DEF Until
  <2>3. FirstId + i \in after + 1 .. last /\ (FirstId + i) - FirstId = i
    BY <1>1, <2>1, <2>2
  <2>4. G!Record(FirstId + i) = <<kind, m>>
    BY <2>1, <2>3 DEF G!Record
  <2>5. FirstId + i \in G!On(after + 1 .. last, kind) /\ G!Record(FirstId + i)[2] = m
    BY <2>3, <2>4 DEF G!On
  <2> QED
    BY <2>5
<1> QED
  BY <1>2, <1>3, <1>4

LEMMA HistoryPageKeeps == ASSUME G!GmailParameters, MailInv, G!HistoryPage PROVE MailInv'
<1> DEFINE after == mailPass.after
           last == G!Min({after + Page, now})
           page == after + 1 .. last
           added == G!InOrder(G!On(page, "added"))
           fetch == [i \in DOMAIN added |-> G!Record(added[i])[2]]
           gone == {G!Record(id)[2] : id \in G!On(page, "deleted")}
           more == after + Page < now
           at == IF more THEN "history" ELSE "fetch"
           high == G!Raise(mailPass.high, {now} \union page)
<1>1. /\ mailPass.at = "history"
      /\ UNCHANGED <<mail, log, now, mailCursor, emails, mailMemory, mailBlamed>>
      /\ mailPass' = [mailPass EXCEPT !.todo = @ \o fetch, !.drop = @ \union gone, !.after = last, !.at = at,
                                      !.high = high, !.largest = now]
  BY DEF G!HistoryPage, G!Steps, G!Quiet
<1>2. PassTyped(mailPass) /\ MailTyped
  BY PassIsTyped DEF MailInv
<1>3. ~ mailPass.full /\ HistoryPass
  <2>1. ~ FullPass
    BY <1>1 DEF FullPass
  <2> QED
    BY <1>1, <2>1 DEF MailInv
<1>4. /\ after \in FirstId .. now /\ mailPass.high \in FirstId .. now
      /\ FirstId \in Nat /\ now \in Nat /\ Page \in Nat \ {0} /\ None \notin Nat
  BY <1>2, <1>3 DEF HistoryPass, MailTyped, G!GmailParameters
<1>5. last \in after .. now /\ (~ more => last = now)
  <2>1. after + Page \in Nat
    BY <1>4
  <2>2. last = IF after + Page <= now THEN after + Page ELSE now
    BY <1>4, <2>1, SmallerOf
  <2> QED
    BY <1>4, <2>2
<1>6. at \in {"history", "fetch"} /\ (at # "history" => ~ more)
  OBVIOUS
<1> HIDE DEF last, at
<1>7. page \subseteq FirstId .. now /\ IsFiniteSet(page)
  <2>1. after + 1 \in Int /\ last \in Int
    BY <1>4, <1>5
  <2>2. IsFiniteSet(page)
    BY <2>1, FS_Interval
  <2> HIDE DEF after
  <2>3. page \subseteq FirstId .. now
    BY <1>4, <1>5
  <2> QED
    BY <2>2, <2>3
<1>8. high \in FirstId .. now
  <2>1. IsFiniteSet({now} \union page) /\ {now} \union page \in SUBSET Nat /\ {now} \union page \subseteq FirstId .. now
    <3>1. IsFiniteSet(page \union {now})
      BY <1>7, FS_AddElement
    <3>2. page \union {now} = {now} \union page
      OBVIOUS
    <3>3. {now} \union page \subseteq FirstId .. now
      BY <1>4, <1>7
    <3> HIDE DEF page
    <3> QED
      BY <1>4, <3>1, <3>2, <3>3
  <2> HIDE DEF page
  <2>2. high \in ({now} \union page) \union {mailPass.high}
    <3>1. mailPass.high \in Nat \union {None}
      BY <1>4
    <3> QED
      BY <1>4, <2>1, <3>1, RaisedAmong
  <2> HIDE DEF high
  <2> QED
    BY <1>4, <2>1, <2>2
<1>9. /\ \A id \in page : G!Record(id) \in Kinds \X Message
      /\ \A kind, id : id \in G!On(page, kind) => Ever(kind, G!Record(id)[2])
      /\ \A kind, m : Until(kind, m, last) =>
           Until(kind, m, after) \/ \E id \in G!On(page, kind) : G!Record(id)[2] = m
  BY <1>2, <1>4, <1>5, PageOfHistory
<1>10. \A kind : G!On(page, kind) \subseteq page
  BY DEF G!On
<1> HIDE DEF page
<1>11. PICK n \in Nat : Listing(added, n, G!On(page, "added"))
  <2>1. G!On(page, "added") \in SUBSET Nat
    <3>1. page \subseteq Nat
      BY <1>4, <1>7
    <3> QED
      BY <3>1, <1>10
  <2>2. IsFiniteSet(G!On(page, "added"))
    BY <1>7, <1>10, FS_Subset
  <2> QED
    BY <2>1, <2>2, RecordsInOrder
<1> HIDE DEF added
<1>12. fetch \in Seq(Message)
  <2>1. DOMAIN added = 1 .. n /\ \A i \in 1 .. n : added[i] \in page
    BY <1>10, <1>11 DEF Listing
  <2>2. fetch \in [1 .. n -> Message]
    BY <1>9, <2>1
  <2> QED
    BY <2>2
<1>13. \A id \in G!On(page, "added") : G!Record(id)[2] \in G!Range(fetch)
  <2> TAKE id \in G!On(page, "added")
  <2>1. PICK i \in 1 .. n : added[i] = id
    BY <1>11 DEF Listing
  <2>2. i \in DOMAIN fetch /\ fetch[i] = G!Record(id)[2]
    BY <1>11, <2>1 DEF Listing
  <2> QED
    BY <2>2 DEF G!Range
<1>14. gone \subseteq Message /\ \A m \in gone : Ever("deleted", m)
  BY <1>9, <1>10
<1>15. \A id \in G!On(page, "deleted") : G!Record(id)[2] \in gone
  OBVIOUS
<1> HIDE DEF fetch, gone, high
<1>16. mailPass.todo \in Seq(Message) /\ mailPass.drop \subseteq Message
  BY <1>2 DEF PassTyped
<1>17. /\ mailPass.todo \o fetch \in Seq(Message)
       /\ \A x : x \in G!Range(mailPass.todo) \/ x \in G!Range(fetch) => x \in G!Range(mailPass.todo \o fetch)
  BY <1>12, <1>16, JoinedRange
<1>18. /\ mailPass'.at = at /\ mailPass'.full = mailPass.full /\ mailPass'.high = high /\ mailPass'.after = last
       /\ mailPass'.todo = mailPass.todo \o fetch /\ mailPass'.drop = mailPass.drop \union gone
  BY <1>1, <1>2 DEF PassTyped
<1>19. PassTyped(mailPass')
  <2>1. high \in Nat \union {None} /\ last \in Nat \union {None} /\ at \in MailPlace
    BY <1>4, <1>5, <1>6, <1>8 DEF MailPlace
  <2>2. mailPass.drop \union gone \in SUBSET Message
    BY <1>14, <1>16
  <2>3. mailPass' \in [at : MailPlace, full : BOOLEAN, todo : Seq(Message), after : Nat \union {None},
                      more : BOOLEAN, count : Nat, high : Nat \union {None}, largest : Nat,
                      drop : SUBSET Message, did : SUBSET Message]
    BY <1>1, <1>2, <1>4, <1>17, <2>1, <2>2 DEF PassTyped
  <2> QED
    BY <1>8, <1>18, <2>3 DEF PassTyped
<1>20. HistoryPass'
  <2>1. ASSUME NEW m \in Message \ mailBlamed' PROVE HistoryFollowed(m)'
    <3>1. HistoryFollowed(m)
      BY <1>1, <1>3, <2>1 DEF HistoryPass
    <3>2. /\ Until("deleted", m, mailPass.after)' <=> Until("deleted", m, last)
          /\ Until("added", m, mailPass.after)' <=> Until("added", m, last)
      BY <1>1, <1>18 DEF Until
    <3>3. Until("deleted", m, last) => Until("deleted", m, after) \/ m \in gone
      BY <1>9, <1>15
    <3>4. Until("added", m, last) => Until("added", m, after) \/ m \in G!Range(fetch)
      BY <1>9, <1>13
    <3>5. m \in G!Range(mailPass'.todo) <=> m \in G!Range(mailPass.todo \o fetch)
      BY <1>18
    <3>6. G!Box' = G!Box /\ (Dropped(m)' <=> Dropped(m)) /\ (Copied(m)' <=> Copied(m))
      BY <1>1 DEF G!Box, Dropped, Copied
    <3>7. (m \in G!Range(mailPass.todo))' <=> m \in G!Range(mailPass'.todo)
      BY DEF G!Range
    <3> QED
      BY <1>17, <1>18, <3>1, <3>2, <3>3, <3>4, <3>5, <3>6, <3>7 DEF HistoryFollowed
  <2>2. \A m \in mailPass'.drop : Ever("deleted", m)'
    BY <1>1, <1>3, <1>14, <1>18, MailboxStays DEF HistoryPass
  <2>3. at # "history" => high <= last
    BY <1>4, <1>5, <1>6, <1>8
  <2>4. mailPass'.after \in FirstId .. now' /\ mailPass'.high \in FirstId .. now'
    BY <1>1, <1>4, <1>5, <1>8, <1>18
  <2>5. mailPass'.at \in {"history", "fetch", "delete"} /\ mailPass'.at # "delete" /\ mailCursor' # None
    BY <1>1, <1>3, <1>6, <1>18 DEF HistoryPass
  <2> QED
    BY <1>18, <2>1, <2>2, <2>3, <2>4, <2>5 DEF HistoryPass
<1>21. mailCursor # None => \A m \in Message \ mailBlamed' : Followed(m, mailCursor)'
  BY <1>1, StaysFollowed
<1>22. /\ ~ mailPass'.full
       /\ emails' \subseteq Message /\ mailMemory' \subseteq Message /\ mailBlamed' \subseteq Message
  BY <1>1, <1>2, <1>3, <1>18 DEF MailTyped
<1> QED
  BY <1>1, <1>19, <1>20, <1>21, <1>22, PassSteps

LEMMA MailFails == ASSUME MailInv, G!Fails PROVE MailInv'
<1>1. /\ mailPass' = G!NoPass /\ mailBlamed' = mailBlamed \union mailPass.did
      /\ UNCHANGED <<mail, log, now, mailCursor, emails, mailMemory>>
  BY DEF G!Fails
<1>2. /\ emails' \subseteq Message /\ mailMemory' \subseteq Message /\ mailBlamed' \subseteq Message
      /\ mailBlamed \subseteq mailBlamed'
  BY <1>1, PassIsTyped DEF MailInv, MailTyped
<1>3. mailCursor # None => \A m \in Message \ mailBlamed' : Followed(m, mailCursor)'
  BY <1>1, <1>2, StaysFollowed
<1> QED
  BY <1>1, <1>2, <1>3, NoPassTyped, PassSteps

LEMMA PageDoneKeeps == ASSUME MailInv, G!PageDone PROVE MailInv'
<1>1. /\ mailPass.at = "fetch" /\ mailPass.full
      /\ UNCHANGED <<mail, log, now, mailCursor, emails, mailMemory, mailBlamed>>
      /\ mailPass' = [mailPass EXCEPT !.at = "list"]
  BY DEF G!PageDone, G!Steps, G!Quiet
<1>2. PassTyped(mailPass) /\ FullPass /\ MailTyped
  BY <1>1, PassIsTyped DEF MailInv
<1>3. /\ PassTyped(mailPass') /\ mailPass'.at = "list" /\ mailPass'.full
      /\ mailPass'.drop = mailPass.drop /\ mailPass'.did = mailPass.did
  BY <1>1, <1>2 DEF PassTyped, MailPlace
<1>4. FullPass'
  BY <1>1, <1>2, <1>3, MailboxStays DEF FullPass, Copied
<1>5. mailCursor # None => \A m \in Message \ mailBlamed' : Followed(m, mailCursor)'
  BY <1>1, StaysFollowed
<1>6. emails' \subseteq Message /\ mailMemory' \subseteq Message /\ mailBlamed' \subseteq Message
  BY <1>1, <1>2 DEF MailTyped
<1> QED
  BY <1>1, <1>3, <1>4, <1>5, <1>6, PassSteps

LEMMA FetchedKeeps == ASSUME MailInv, G!Fetched PROVE MailInv'
<1>1. /\ mailPass.at = "fetch" /\ (mailPass.todo = <<>> \/ ~ G!Room)
      /\ UNCHANGED <<mail, log, now, mailCursor, emails, mailMemory>>
      /\ mailPass' = [mailPass EXCEPT !.at = "delete"]
      /\ mailBlamed' = IF mailPass.full THEN mailBlamed \union (G!Arrived \ mailPass.did) ELSE mailBlamed
  BY DEF G!Fetched, G!Steps
<1>2. PassTyped(mailPass) /\ MailTyped
  BY PassIsTyped DEF MailInv
<1>3. /\ PassTyped(mailPass') /\ mailPass'.at = "delete" /\ mailPass'.full = mailPass.full
      /\ mailPass'.drop = mailPass.drop /\ mailPass'.did = mailPass.did /\ mailPass'.high = mailPass.high
      /\ mailPass'.after = mailPass.after /\ mailPass'.todo = mailPass.todo
  BY <1>1, <1>2 DEF PassTyped, MailPlace
<1>4. /\ emails' \subseteq Message /\ mailMemory' \subseteq Message /\ mailBlamed' \subseteq Message
      /\ mailBlamed \subseteq mailBlamed'
  BY <1>1, <1>2 DEF MailTyped, G!Arrived
<1>5. mailCursor # None => \A m \in Message \ mailBlamed' : Followed(m, mailCursor)'
  BY <1>1, <1>4, StaysFollowed
<1>6. ASSUME mailPass'.full PROVE FullPass'
  <2>1. FullPass /\ mailBlamed' = mailBlamed \union (G!Arrived \ mailPass.did)
    BY <1>1, <1>3, <1>6 DEF MailInv
  <2>2. \A m \in Message : Ever("added", m) => m \in G!Arrived
    BY DEF Ever, G!Arrived
  <2>3. \A m \in Message \ mailBlamed' : m \in mailPass'.did \/ ~ Ever("added", m)'
    BY <1>1, <1>3, <2>1, <2>2, MailboxStays
  <2>4. \A m \in mailPass'.did \ mailBlamed' : m \in G!Box' /\ Copied(m)'
    BY <1>1, <1>3, <1>4, <2>1, MailboxStays DEF FullPass, Copied
  <2> QED
    BY <1>1, <1>3, <2>1, <2>3, <2>4 DEF FullPass
<1>7. ASSUME ~ mailPass'.full PROVE HistoryPass'
  <2>1. HistoryPass /\ mailPass.todo = <<>> /\ mailBlamed' = mailBlamed
    BY <1>1, <1>3, <1>7 DEF MailInv, G!Room
  <2>2. ASSUME NEW m \in Message \ mailBlamed' PROVE HistoryFollowed(m)'
    <3>1. HistoryFollowed(m)
      BY <2>1, <2>2 DEF HistoryPass
    <3>2. /\ Until("deleted", m, mailPass.after)' <=> Until("deleted", m, mailPass.after)
          /\ Until("added", m, mailPass.after)' <=> Until("added", m, mailPass.after)
      BY <1>1, <1>3 DEF Until
    <3> QED
      BY <1>1, <1>3, <3>1, <3>2, MailboxStays DEF HistoryFollowed, Dropped, Copied, G!Range
  <2>3. \A m \in mailPass'.drop : Ever("deleted", m)'
    BY <1>1, <1>3, <2>1, MailboxStays DEF HistoryPass
  <2> QED
    BY <1>1, <1>3, <2>1, <2>2, <2>3 DEF HistoryPass
<1> QED
  BY <1>1, <1>3, <1>4, <1>5, <1>6, <1>7, PassSteps

LEMMA MailFinishKeeps == ASSUME G!GmailParameters, MailInv, G!Finish PROVE MailInv'
<1>1. /\ mailPass.at = "delete" /\ mailPass.drop = {} /\ mailCursor' = mailPass.high
      /\ UNCHANGED <<mail, log, now, emails, mailMemory, mailBlamed>>
      /\ mailPass' = [mailPass EXCEPT !.at = "idle", !.did = {}]
  BY DEF G!Finish
<1>2. PassTyped(mailPass) /\ MailTyped /\ BoxIsHistory
  BY PassIsTyped DEF MailInv
<1>3. mailPass'.at = "idle" /\ PassTyped(mailPass')
  BY <1>1, <1>2 DEF PassTyped, MailPlace
<1>4. MailTyped'
  BY <1>1, <1>2, <1>3 DEF MailTyped, PassTyped
<1>5. BoxIsHistory'
  BY <1>1, <1>2, MailboxStays
<1>6. ASSUME mailCursor' # None, NEW m \in Message \ mailBlamed PROVE Followed(m, mailPass.high)
  <2>1. CASE mailPass.full
    <3>1. FullPass
      BY <1>1, <2>1 DEF MailInv
    <3>2. (m \in G!Box /\ Copied(m)) \/ ~ Ever("added", m)
      BY <1>1, <1>6, <3>1 DEF FullPass
    <3>3. /\ Ever("deleted", m) => Ever("added", m)
          /\ m \in G!Box <=> Ever("added", m) /\ ~ Ever("deleted", m)
      BY <1>2 DEF BoxIsHistory
    <3>4. ~ Ever("deleted", m)
      BY <3>2, <3>3
    <3>5. ~ Until("deleted", m, mailPass.high)
      BY <3>4, UntilIsEver
    <3>6. Until("added", m, mailPass.high) => Copied(m)
      BY <3>2, UntilIsEver
    <3> QED
      BY <3>5, <3>6 DEF Followed
  <2>2. CASE ~ mailPass.full
    <3>1. HistoryPass
      BY <1>1, <2>2 DEF MailInv
    <3>2. HistoryFollowed(m)
      BY <1>6, <3>1 DEF HistoryPass
    <3>3. /\ mailPass.high \in Int /\ mailPass.after \in Int /\ mailPass.high <= mailPass.after
          /\ mailPass.todo = <<>>
      BY <1>1, <3>1 DEF HistoryPass
    <3>4. \A kind : Until(kind, m, mailPass.high) => Until(kind, m, mailPass.after)
      <4>1. DOMAIN log \subseteq Int /\ FirstId \in Int
        <5>1. log \in Seq(Kinds \X Message)
          BY <1>2 DEF MailTyped
        <5>2. DOMAIN log = 1 .. Len(log)
          BY <5>1
        <5> QED
          BY <5>2 DEF G!GmailParameters
      <4>2. \A i \in DOMAIN log : FirstId + i <= mailPass.high => FirstId + i <= mailPass.after
        BY <3>3, <4>1
      <4> QED
        BY <4>2 DEF Until
    <3>5. m \notin mailPass.drop /\ m \notin G!Range(mailPass.todo)
      BY <1>1, <3>3 DEF G!Range
    <3> QED
      BY <3>2, <3>4, <3>5 DEF HistoryFollowed, Followed
  <2> QED
    BY <2>1, <2>2
<1>7. ASSUME mailCursor' # None, NEW m \in Message \ mailBlamed' PROVE Followed(m, mailCursor)'
  <2>1. Followed(m, mailPass.high)
    BY <1>1, <1>6, <1>7
  <2>2. /\ Until("deleted", m, mailCursor)' <=> Until("deleted", m, mailPass.high)
        /\ Until("added", m, mailCursor)' <=> Until("added", m, mailPass.high)
    BY <1>1 DEF Until
  <2> QED
    BY <1>1, <2>1, <2>2, MailboxStays DEF Followed, Dropped, Copied
<1> QED
  BY <1>3, <1>4, <1>5, <1>7 DEF MailInv

LEMMA RestOfRange ==
  ASSUME NEW T, NEW s \in Seq(T), s # <<>>
  PROVE  /\ Head(s) \in T /\ Tail(s) \in Seq(T)
         /\ \A x : x \in G!Range(s) => x = Head(s) \/ x \in G!Range(Tail(s))
<1>1. /\ Head(s) = s[1] /\ Tail(s) \in Seq(T) /\ Len(Tail(s)) = Len(s) - 1 /\ Len(s) \in Nat \ {0}
      /\ \A i \in 1 .. Len(s) - 1 : Tail(s)[i] = s[i + 1]
      /\ DOMAIN s = 1 .. Len(s) /\ DOMAIN Tail(s) = 1 .. Len(s) - 1
      /\ Head(s) \in T
  OBVIOUS
<1>2. ASSUME NEW x, x \in G!Range(s), x # Head(s) PROVE x \in G!Range(Tail(s))
  <2>1. PICK i \in 1 .. Len(s) : s[i] = x
    BY <1>1, <1>2 DEF G!Range
  <2>2. i - 1 \in 1 .. Len(s) - 1 /\ (i - 1) + 1 = i
    BY <1>1, <1>2, <2>1
  <2>3. Tail(s)[i - 1] = x
    BY <1>1, <2>1, <2>2
  <2> QED
    BY <1>1, <2>2, <2>3 DEF G!Range
<1> QED
  BY <1>1, <1>2

(* After a message was fetched, or not, the others are as they were; it is *)
(* in the box and copied, or blamed.                                       *)
LEMMA FetchKeeps ==
  ASSUME MailInv, mailPass.at = "fetch", UNCHANGED <<mail, log, now, mailCursor>>,
         NEW m \in Message,
         \A x \in Message \ {m} : /\ x \in emails' <=> x \in emails
                                  /\ x \in mailMemory' <=> x \in mailMemory
                                  /\ x \in mailBlamed' <=> x \in mailBlamed,
         m \in mailBlamed' \/ (m \in G!Box /\ m \in emails' /\ m \in mailMemory'),
         emails' \subseteq Message, mailMemory' \subseteq Message, mailBlamed' \subseteq Message,
         PassTyped(mailPass'), mailPass'.at = "fetch", mailPass'.full = mailPass.full,
         mailPass'.drop = mailPass.drop, mailPass'.after = mailPass.after,
         mailPass'.did \subseteq mailPass.did \union {m},
         ~ mailPass.full => mailPass'.high = mailPass.high,
         \A x : x \in G!Range(mailPass.todo) => x = m \/ x \in G!Range(mailPass'.todo)
  PROVE  MailInv'
<1>1. BoxIsHistory /\ PassTyped(mailPass)
  BY PassIsTyped DEF MailInv
<1>2. /\ G!Box' = G!Box
      /\ \A k, x : Ever(k, x)' <=> Ever(k, x)
      /\ \A k, x, c : Until(k, x, c)' <=> Until(k, x, c)
  BY MailboxStays
<1>3. ASSUME m \notin mailBlamed' PROVE Copied(m)' /\ m \in G!Box /\ \A c : ~ Until("deleted", m, c)
  <2>1. Copied(m)' /\ m \in G!Box
    BY <1>3 DEF Copied
  <2>2. ~ Ever("deleted", m)
    BY <1>1, <2>1 DEF BoxIsHistory
  <2> QED
    BY <2>1, <2>2, UntilIsEver
<1>4. ASSUME NEW x \in Message \ mailBlamed', x # m
      PROVE  (Copied(x)' <=> Copied(x)) /\ (Dropped(x)' <=> Dropped(x)) /\ x \in Message \ mailBlamed
  BY <1>4 DEF Copied, Dropped
<1>5. ASSUME mailCursor # None, NEW x \in Message \ mailBlamed' PROVE Followed(x, mailCursor)'
  <2>1. /\ Until("deleted", x, mailCursor)' <=> Until("deleted", x, mailCursor)
        /\ Until("added", x, mailCursor)' <=> Until("added", x, mailCursor)
    BY DEF Until
  <2>2. CASE x = m
    <3>1. m \notin mailBlamed'
      BY <1>5, <2>2
    <3>2. Copied(x)' /\ ~ Until("deleted", x, mailCursor)
      BY <1>3, <2>2, <3>1
    <3> QED
      BY <2>1, <3>2 DEF Followed
  <2>3. CASE x # m
    <3>1. /\ Copied(x)' <=> Copied(x)
          /\ Dropped(x)' <=> Dropped(x)
          /\ x \in Message \ mailBlamed
      BY <1>4, <1>5, <2>3
    <3>2. Followed(x, mailCursor)
      BY <1>5, <3>1 DEF MailInv
    <3> QED
      BY <1>2, <2>1, <3>1, <3>2 DEF Followed
  <2> QED
    BY <2>2, <2>3
<1>6. ASSUME mailPass'.full PROVE FullPass'
  <2>1. FullPass
    BY <1>6 DEF MailInv
  <2>2. ASSUME NEW x \in mailPass'.did \ mailBlamed' PROVE x \in G!Box' /\ Copied(x)'
    <3>1. x \in Message
      BY <2>2 DEF PassTyped
    <3>2. CASE x = m
      <4>1. m \notin mailBlamed'
        BY <2>2, <3>2
      <4> QED
        BY <1>2, <1>3, <3>2, <4>1
    <3>3. CASE x # m
      <4>1. (Copied(x)' <=> Copied(x)) /\ x \in Message \ mailBlamed /\ x \in mailPass.did
        BY <1>4, <2>2, <3>1, <3>3
      <4>2. x \in G!Box /\ Copied(x)
        BY <2>1, <4>1 DEF FullPass
      <4> QED
        BY <1>2, <4>1, <4>2
    <3> QED
      BY <3>2, <3>3
  <2> QED
    BY <2>1, <2>2 DEF FullPass
<1>7. ASSUME ~ mailPass'.full PROVE HistoryPass'
  <2>1. HistoryPass /\ mailPass'.high = mailPass.high
    BY <1>7 DEF MailInv
  <2>2. ASSUME NEW x \in Message \ mailBlamed' PROVE HistoryFollowed(x)'
    <3>1. /\ Until("deleted", x, mailPass.after)' <=> Until("deleted", x, mailPass.after)
          /\ Until("added", x, mailPass.after)' <=> Until("added", x, mailPass.after)
      BY DEF Until
    <3>2. CASE x = m
      <4>1. m \notin mailBlamed'
        BY <2>2, <3>2
      <4>2. Copied(x)' /\ ~ Until("deleted", x, mailPass.after)
        BY <1>3, <3>2, <4>1
      <4> QED
        BY <3>1, <4>2 DEF HistoryFollowed
    <3>3. CASE x # m
      <4>1. /\ Copied(x)' <=> Copied(x)
            /\ Dropped(x)' <=> Dropped(x)
            /\ x \in Message \ mailBlamed
        BY <1>4, <2>2, <3>3
      <4>2. HistoryFollowed(x)
        BY <2>1, <4>1 DEF HistoryPass
      <4>3. x \in G!Range(mailPass.todo) => (x \in G!Range(mailPass.todo))'
        <5>1. (x \in G!Range(mailPass.todo))' <=> x \in G!Range(mailPass'.todo)
          BY DEF G!Range
        <5> QED
          BY <3>3, <5>1
      <4> QED
        BY <1>2, <3>1, <4>1, <4>2, <4>3 DEF HistoryFollowed
    <3> QED
      BY <3>2, <3>3
  <2>3. \A x \in mailPass'.drop : Ever("deleted", x)'
    BY <1>2, <2>1 DEF HistoryPass
  <2> QED
    BY <2>1, <2>2, <2>3 DEF HistoryPass
<1> QED
  BY <1>5, <1>6, <1>7, PassSteps

LEMMA IngestKeeps == ASSUME G!GmailParameters, MailInv, G!Ingest PROVE MailInv'
<1> DEFINE m == Head(mailPass.todo)
           largest == G!Largest(mail[m])
           high == IF mailPass.full THEN G!Raise(mailPass.high, {mail[m]}) ELSE mailPass.high
           done == [mailPass EXCEPT !.todo = Tail(@), !.count = @ + 1, !.did = @ \union {m}, !.largest = largest,
                                    !.high = high]
           failed == [mailPass EXCEPT !.todo = Tail(@)]
<1>1. /\ mailPass.at = "fetch" /\ mailPass.todo # <<>>
      /\ UNCHANGED <<mail, log, now, mailCursor>>
      /\ \/ /\ m \in G!Box /\ emails' = emails \union {m} /\ mailMemory' = mailMemory \union {m}
            /\ mailPass' = done /\ mailBlamed' = mailBlamed \ {m}
         \/ /\ mailPass' = failed /\ mailBlamed' = mailBlamed \union {m} /\ UNCHANGED <<emails, mailMemory>>
         \/ /\ mailPass' = failed /\ mailBlamed' = mailBlamed \union {m}
            /\ emails' = emails \union {m} /\ UNCHANGED mailMemory
  <2>1. mailPass.at = "fetch" /\ mailPass.todo # <<>>
    BY DEF G!Ingest
  <2> QED
    BY <2>1 DEF G!Ingest, G!Steps, G!Done, G!Failed, G!Next1
<1>2. PassTyped(mailPass) /\ MailTyped
  BY PassIsTyped DEF MailInv
<1>3. /\ m \in Message /\ Tail(mailPass.todo) \in Seq(Message)
      /\ \A x : x \in G!Range(mailPass.todo) => x = m \/ x \in G!Range(Tail(mailPass.todo))
  BY <1>1, <1>2, RestOfRange DEF PassTyped
<1>4. PICK k \in Message : k = m
  BY <1>3
<1>5. /\ emails \subseteq Message /\ mailMemory \subseteq Message /\ mailBlamed \subseteq Message
  BY <1>2 DEF MailTyped
<1>6. CASE /\ k \in G!Box /\ emails' = emails \union {k} /\ mailMemory' = mailMemory \union {k}
           /\ mailPass' = done /\ mailBlamed' = mailBlamed \ {k}
  <2>1. mail[m] \in FirstId .. now /\ FirstId \in Nat /\ now \in Nat /\ mail[m] \in Nat /\ None \notin Nat
    BY <1>2, <1>4, <1>6 DEF MailTyped, G!Box, G!GmailParameters
  <2>2. largest \in Nat
    <3>1. mailPass.largest \in Nat
      BY <1>2 DEF PassTyped
    <3>2. \E x \in {mailPass.largest, mail[m]} : \A y \in {mailPass.largest, mail[m]} : x >= y
      BY <2>1, <3>1
    <3>3. largest \in {mailPass.largest, mail[m]}
      BY <3>2 DEF G!Largest, G!Max
    <3> QED
      BY <2>1, <3>1, <3>3
  <2>3. high \in (FirstId .. now) \union {None} /\ high \in Nat \union {None}
    <3>1. mailPass.high \in (FirstId .. now) \union {None} /\ mailPass.high \in Nat \union {None}
      BY <1>2 DEF PassTyped
    <3>2. IsFiniteSet({mail[m]}) /\ {mail[m]} \in SUBSET Nat
      BY <2>1, FS_Singleton
    <3>3. G!Raise(mailPass.high, {mail[m]}) \in {mail[m]} \union {mailPass.high}
      BY <2>1, <3>1, <3>2, RaisedAmong
    <3>4. G!Raise(mailPass.high, {mail[m]}) \in {mailPass.high, mail[m]}
      BY <3>3
    <3> QED
      BY <2>1, <3>1, <3>4
  <2>4. ~ mailPass.full => high = mailPass.high
    OBVIOUS
  <2> HIDE DEF largest, high
  <2>5. /\ mailPass'.at = "fetch" /\ mailPass'.full = mailPass.full /\ mailPass'.drop = mailPass.drop
        /\ mailPass'.after = mailPass.after /\ mailPass'.did = mailPass.did \union {k}
        /\ mailPass'.high = high /\ mailPass'.todo = Tail(mailPass.todo)
    BY <1>1, <1>2, <1>4, <1>6 DEF PassTyped
  <2>6. PassTyped(mailPass')
    <3>1. mailPass.did \union {m} \in SUBSET Message /\ mailPass.count + 1 \in Nat
      BY <1>2, <1>3 DEF PassTyped
    <3>2. mailPass' \in [at : MailPlace, full : BOOLEAN, todo : Seq(Message), after : Nat \union {None},
                         more : BOOLEAN, count : Nat, high : Nat \union {None}, largest : Nat,
                         drop : SUBSET Message, did : SUBSET Message]
      BY <1>2, <1>3, <1>6, <2>2, <2>3, <3>1 DEF PassTyped
    <3> QED
      BY <2>3, <2>5, <3>2 DEF PassTyped
  <2>7. /\ \A x \in Message \ {k} : /\ x \in emails' <=> x \in emails
                                    /\ x \in mailMemory' <=> x \in mailMemory
                                    /\ x \in mailBlamed' <=> x \in mailBlamed
        /\ k \in G!Box /\ k \in emails' /\ k \in mailMemory'
        /\ emails' \subseteq Message /\ mailMemory' \subseteq Message /\ mailBlamed' \subseteq Message
    BY <1>5, <1>6
  <2>8. \A x : x \in G!Range(mailPass.todo) => x = k \/ x \in G!Range(mailPass'.todo)
    BY <1>3, <1>4, <2>5
  <2> HIDE DEF m, done, failed
  <2> QED
    BY <1>1, <2>4, <2>5, <2>6, <2>7, <2>8, FetchKeeps
<1>7. CASE /\ mailPass' = failed /\ mailBlamed' = mailBlamed \union {k}
           /\ emails' \in {emails, emails \union {k}} /\ mailMemory' = mailMemory
  <2>1. /\ mailPass'.at = "fetch" /\ mailPass'.full = mailPass.full /\ mailPass'.drop = mailPass.drop
        /\ mailPass'.after = mailPass.after /\ mailPass'.did = mailPass.did
        /\ mailPass'.high = mailPass.high /\ mailPass'.todo = Tail(mailPass.todo)
    BY <1>1, <1>2, <1>7 DEF PassTyped
  <2>2. PassTyped(mailPass')
    BY <1>2, <1>3, <1>7 DEF PassTyped
  <2>3. /\ \A x \in Message \ {k} : /\ x \in emails' <=> x \in emails
                                    /\ x \in mailMemory' <=> x \in mailMemory
                                    /\ x \in mailBlamed' <=> x \in mailBlamed
        /\ k \in mailBlamed'
        /\ emails' \subseteq Message /\ mailMemory' \subseteq Message /\ mailBlamed' \subseteq Message
    BY <1>5, <1>7
  <2>4. \A x : x \in G!Range(mailPass.todo) => x = k \/ x \in G!Range(mailPass'.todo)
    BY <1>3, <1>4, <2>1
  <2> HIDE DEF m, done, failed
  <2>5. mailPass'.did \subseteq mailPass.did \union {k}
    BY <2>1
  <2> QED
    BY <1>1, <2>1, <2>2, <2>3, <2>4, <2>5, FetchKeeps
<1> HIDE DEF m, done, failed
<1> QED
  BY <1>1, <1>4, <1>6, <1>7

LEMMA MailDeleteKeeps == ASSUME MailInv, G!Delete PROVE MailInv'
<1>1. PICK m \in mailPass.drop :
        /\ emails' \in {emails, emails \ {m}} /\ mailMemory' \in {mailMemory, mailMemory \ {m}}
        /\ mailBlamed' = IF m \in emails' \union mailMemory' THEN mailBlamed \union {m} ELSE mailBlamed
        /\ mailPass' = [mailPass EXCEPT !.drop = @ \ {m}]
        /\ UNCHANGED <<mail, log, now, mailCursor>>
  BY DEF G!Delete, G!Steps
<1>2. mailPass.at = "delete"
  BY DEF G!Delete
<1>3. PassTyped(mailPass) /\ MailTyped /\ BoxIsHistory
  BY PassIsTyped DEF MailInv
<1>4. ~ mailPass.full /\ HistoryPass
  BY <1>1, <1>2 DEF MailInv, FullPass
<1>5. /\ PassTyped(mailPass') /\ mailPass'.at = "delete" /\ mailPass'.full = mailPass.full
      /\ mailPass'.drop = mailPass.drop \ {m} /\ mailPass'.high = mailPass.high
      /\ mailPass'.after = mailPass.after /\ mailPass'.todo = mailPass.todo
  BY <1>1, <1>2, <1>3 DEF PassTyped
<1>6. m \in Message /\ m \notin G!Box
  BY <1>1, <1>3, <1>4 DEF PassTyped, HistoryPass, BoxIsHistory
<1>7. /\ G!Box' = G!Box
      /\ \A k, x : Ever(k, x)' <=> Ever(k, x)
      /\ \A k, x, c : Until(k, x, c)' <=> Until(k, x, c)
  BY <1>1, MailboxStays
<1>8. /\ emails' \subseteq Message /\ mailMemory' \subseteq Message /\ mailBlamed' \subseteq Message
      /\ m \notin mailBlamed' => Dropped(m)'
      /\ \A x \in Message \ mailBlamed' : x \in Message \ mailBlamed
  BY <1>1, <1>3, <1>6 DEF MailTyped, Dropped
<1>9. \A x : x # m => (Dropped(x)' <=> Dropped(x)) /\ (Copied(x)' <=> Copied(x))
  BY <1>1 DEF Dropped, Copied
<1>10. ASSUME mailCursor # None, NEW x \in Message \ mailBlamed' PROVE Followed(x, mailCursor)'
  <2>1. /\ Until("deleted", x, mailCursor)' <=> Until("deleted", x, mailCursor)
        /\ Until("added", x, mailCursor)' <=> Until("added", x, mailCursor)
    BY <1>1 DEF Until
  <2>2. CASE x = m
    BY <1>6, <1>7, <1>8, <1>10, <2>2 DEF Followed
  <2>3. CASE x # m
    <3>1. Followed(x, mailCursor)
      BY <1>8, <1>10 DEF MailInv
    <3> QED
      BY <1>7, <1>9, <2>1, <2>3, <3>1 DEF Followed
  <2> QED
    BY <2>2, <2>3
<1>11. ASSUME NEW x \in Message \ mailBlamed' PROVE HistoryFollowed(x)'
  <2>1. /\ Until("deleted", x, mailPass.after)' <=> Until("deleted", x, mailPass.after)
        /\ Until("added", x, mailPass.after)' <=> Until("added", x, mailPass.after)
    BY <1>1, <1>5 DEF Until
  <2>2. CASE x = m
    BY <1>6, <1>7, <1>8, <1>11, <2>2 DEF HistoryFollowed
  <2>3. CASE x # m
    <3>1. HistoryFollowed(x)
      BY <1>4, <1>8, <1>11 DEF HistoryPass
    <3>2. (x \in G!Range(mailPass.todo))' <=> x \in G!Range(mailPass.todo)
      BY <1>5 DEF G!Range
    <3>3. x \in mailPass.drop <=> x \in mailPass'.drop
      BY <1>5, <2>3
    <3> QED
      BY <1>7, <1>9, <2>1, <2>3, <3>1, <3>2, <3>3 DEF HistoryFollowed
  <2> QED
    BY <2>2, <2>3
<1>12. \A x \in mailPass'.drop : Ever("deleted", x)'
  BY <1>4, <1>5, <1>7 DEF HistoryPass
<1>13. HistoryPass'
  BY <1>1, <1>4, <1>5, <1>11, <1>12 DEF HistoryPass
<1> QED
  BY <1>1, <1>4, <1>5, <1>8, <1>10, <1>13, PassSteps

(* Nothing of the mailbox or the pass changes.                             *)
LEMMA MailStands ==
  ASSUME MailInv,
         UNCHANGED <<mail, log, now, emails, mailMemory, mailCursor, mailPass, mailBlamed>>
  PROVE  MailInv'
<1>1. PassTyped(mailPass) /\ MailTyped
  BY PassIsTyped DEF MailInv
<1>2. /\ G!Box' = G!Box
      /\ \A k, x : Ever(k, x)' <=> Ever(k, x)
  BY MailboxStays
<1>3. PassTyped(mailPass')
  BY <1>1
<1>4. FullPass => FullPass'
  BY <1>2 DEF FullPass, Copied
<1>5. HistoryPass => HistoryPass'
  <2>1. \A x : HistoryFollowed(x) => HistoryFollowed(x)'
    BY <1>2 DEF HistoryFollowed, Until, Dropped, Copied, G!Range
  <2> QED
    BY <1>2, <2>1 DEF HistoryPass
<1>6. mailCursor # None => \A m \in Message \ mailBlamed' : Followed(m, mailCursor)'
  BY StaysFollowed
<1>7. emails' \subseteq Message /\ mailMemory' \subseteq Message /\ mailBlamed' \subseteq Message
  BY <1>1 DEF MailTyped
<1>8. /\ mailPass'.at # "idle" /\ mailPass'.full => FullPass'
      /\ mailPass'.at # "idle" /\ ~ mailPass'.full => HistoryPass'
  BY <1>4, <1>5 DEF MailInv
<1> QED
  BY <1>3, <1>6, <1>7, <1>8, PassSteps

LEMMA MailStarts == ASSUME G!GmailParameters, G!GmailInit PROVE MailInv
<1>1. /\ mail = [m \in Message |-> None] /\ log = <<>> /\ now = FirstId /\ emails = {} /\ mailMemory = {}
      /\ mailCursor = None /\ mailPass = G!NoPass /\ mailBlamed = {}
      /\ FirstId \in Nat /\ LastId \in Nat /\ FirstId <= LastId
  BY DEF G!GmailInit, G!GmailParameters
<1>2. log \in Seq(Kinds \X Message) /\ Len(log) = 0 /\ DOMAIN log = {}
  BY <1>1
<1>3. MailTyped
  BY <1>1, <1>2, NoPassTyped DEF MailTyped, PassTyped
<1>4. BoxIsHistory
  BY <1>1, <1>2 DEF BoxIsHistory, Ever, G!Box
<1> QED
  BY <1>1, <1>3, <1>4, NoPassTyped DEF MailInv

LEMMA MailNextKeeps ==
  ASSUME G!GmailParameters, MailInv, [G!GmailNext]_(G!gmailVars)
  PROVE  MailInv'
<1>1. CASE UNCHANGED G!gmailVars
  BY <1>1, MailStands DEF G!gmailVars
<1>2. ASSUME NEW m \in Message, G!Arrives(m) \/ G!Changes(m) \/ G!Goes(m) PROVE MailInv'
  <2>1. None # now + 1 /\ BoxIsHistory
    BY DEF G!GmailParameters, MailInv, MailTyped
  <2>2. ~ Ever("added", m) <=> m \notin G!Arrived
    BY DEF Ever, G!Arrived
  <2>3. "added" \in Kinds /\ "changed" \in Kinds /\ "deleted" \in Kinds
    BY DEF Kinds
  <2>4. CASE G!Arrives(m)
    BY <2>1, <2>2, <2>3, <2>4, HappensKeeps DEF G!Arrives
  <2>5. CASE G!Changes(m)
    BY <2>1, <2>3, <2>5, HappensKeeps DEF G!Changes
  <2>6. CASE G!Goes(m)
    BY <2>1, <2>3, <2>6, HappensKeeps DEF G!Goes
  <2> QED
    BY <1>2, <2>4, <2>5, <2>6
<1>3. G!Forget => MailInv'
  BY MailStands DEF G!Forget
<1>4. G!Begin \/ G!ListPage \/ G!HistoryPage \/ G!Ingest => MailInv'
  BY MailBeginKeeps, ListPageKeeps, HistoryPageKeeps, IngestKeeps
<1>5. G!PageDone \/ G!Fetched \/ G!Delete \/ G!Finish => MailInv'
  BY PageDoneKeeps, FetchedKeeps, MailDeleteKeeps, MailFinishKeeps
<1>6. G!ListFails \/ G!CutShort => MailInv'
  BY MailFails DEF G!ListFails, G!CutShort
<1> QED
  BY <1>1, <1>2, <1>3, <1>4, <1>5, <1>6 DEF G!GmailNext

(* The invariant of the pass over the mailbox, at every step of it.        *)
THEOREM MailInvariance ==
  ASSUME G!GmailParameters
  PROVE  G!GmailSpec => []MailInv
<1>1. G!GmailInit => MailInv
  BY MailStarts
<1>2. MailInv /\ [G!GmailNext]_(G!gmailVars) => MailInv'
  BY MailNextKeeps
<1> QED
  BY <1>1, <1>2, PTL DEF G!GmailSpec

(* Both invariants say more than the property.                             *)
LEMMA FilesMirrored == ASSUME FilesInv PROVE F!FileTypeOK /\ F!MirrorHolds
<1>1. DirectoryTyped
  BY DEF FilesInv
<1>2. F!FileTypeOK
  BY <1>1 DEF DirectoryTyped, F!FileTypeOK, Copy, PlaceInPass, Walking
<1>3. F!MirrorHolds
  <2>1. CASE pass.at = "idle"
    BY <2>1 DEF FilesInv
  <2>2. CASE pass.at # "idle"
    BY <2>2 DEF F!MirrorHolds
  <2> QED
    BY <2>1, <2>2
<1> QED
  BY <1>2, <1>3

LEMMA MailMirrored ==
  ASSUME G!GmailParameters, MailInv
  PROVE  G!GmailTypeOK /\ G!MailboxMirrored
<1>1. MailTyped /\ FirstId \in Nat /\ LastId \in Nat
  BY DEF MailInv, G!GmailParameters
<1>2. FirstId .. now \subseteq FirstId .. LastId
  BY <1>1 DEF MailTyped
<1>3. G!GmailTypeOK
  <2>1. mail \in [Message -> (FirstId .. LastId) \union {None}]
    BY <1>1, <1>2 DEF MailTyped
  <2>2. mailCursor \in (FirstId .. LastId) \union {None}
    BY <1>1, <1>2 DEF MailTyped
  <2>3. mailPass.at \in MailPlace
    BY <1>1 DEF MailTyped
  <2> QED
    BY <1>1, <2>1, <2>2, <2>3 DEF MailTyped, G!GmailTypeOK, MailPlace
<1>4. \A kind, m : G!UpTo(kind, m) <=> Until(kind, m, mailCursor)
  BY DEF G!UpTo, Until
<1>5. G!MailboxMirrored
  BY <1>4 DEF MailInv, G!MailboxMirrored, Followed, Dropped, Copied
<1> QED
  BY <1>3, <1>5

-----------------------------------------------------------------------------
(***************************************************************************)
(* The run.  Every behaviour of MCStores is one of each of its parts, and  *)
(* so the properties that the run checks of a part follow from those of    *)
(* the part itself.                                                        *)
(***************************************************************************)
THEOREM PartsRun ==
  Spec => /\ L!LayerSpec /\ V!IndexSpec /\ O!StoreSpec /\ M!MigrationSpec
          /\ F!FileSpec /\ G!GmailSpec /\ E!Spec
<1>1. Init => /\ L!LayerInit /\ V!IndexInit /\ O!StoreInit /\ M!MigrationInit
              /\ F!FileInit /\ G!GmailInit /\ E!Init
  BY DEF Init
<1>2. [Next]_allVars => [V!IndexNext]_(V!indexVars)
  BY DEF Next, allVars, indexVars, V!indexVars
<1>3. [Next]_allVars => [O!StoreNext]_(O!storeVars)
  BY DEF Next, allVars, storeVars, O!storeVars
<1>4. [Next]_allVars => [M!MigrationNext]_(M!migrationVars)
  BY DEF Next, allVars, migrationVars, M!migrationVars
<1>5. [Next]_allVars => [E!Next]_(E!vars)
  BY DEF Next, allVars, expiryVars, E!vars
<1>6. [Next]_allVars => [L!LayerNext]_(L!layerVars)
  BY DEF Next, allVars, layerVars, L!layerVars
<1>7. [Next]_allVars => [F!FileNext]_(F!fileVars)
  BY DEF Next, allVars, fileVars, F!fileVars
<1>8. [Next]_allVars => [G!GmailNext]_(G!gmailVars)
  BY DEF Next, allVars, mailVars, G!gmailVars
<1> QED
  BY <1>1, <1>2, <1>3, <1>4, <1>5, <1>6, <1>7, <1>8, PTL
  DEF Spec, L!LayerSpec, V!IndexSpec, O!StoreSpec, M!MigrationSpec, F!FileSpec, G!GmailSpec, E!Spec

(* However the calls of one process overlap, fail or die: no two people    *)
(* have one address, the counts are those of the links unless a call broke *)
(* off there, and the dates of the links lie between first and last.       *)
THEOREM MemoryStaysConsistent == Spec => []MemoryConsistent
<1>1. L!LayerSpec => []LayerInv
  BY Parameters, LayerInvariance
<1>2. LayerInv => MemoryConsistent
  BY LayerConsistent DEF MemoryConsistent
<1> QED
  BY <1>1, <1>2, PartsRun, PTL

(* After a pass that ended, storage and memory hold what the directory or  *)
(* the mailbox holds, but for what the pass reported or could not know;    *)
(* whatever changes, arrives or goes while a pass reads, whatever fails,   *)
(* and wherever the process dies.                                          *)
THEOREM SourcesStayMirrored == Spec => []SourcesMirrored
<1>1. (F!FileSpec => []FilesInv) /\ (G!GmailSpec => []MailInv)
  BY Parameters, FilesInvariance, MailInvariance
<1>2. FilesInv /\ MailInv => SourcesMirrored
  BY Parameters, FilesMirrored, MailMirrored DEF SourcesMirrored
<1> QED
  BY <1>1, <1>2, PartsRun, PTL

(* What the directory of the run holds can be read with the key on disk.   *)
THEOREM DirectoryReadable == Spec => []ReadableForever
<1>1. O!StoreSpec => []O!StoreTypeOK /\ []O!ReadableForever
  BY Parameters, ObjectsTypes, AlwaysReadable
<1>2. O!StoreTypeOK /\ O!ReadableForever => ReadableForever
  BY DEF ReadableForever
<1> QED
  BY <1>1, <1>2, PartsRun, PTL

LEMMA CapabilitiesCanonical == M!MigrationSpec => [](capabilities \subseteq 1 .. Canonical)
<1>1. M!MigrationInit => capabilities \subseteq 1 .. Canonical
  BY DEF M!MigrationInit
<1>2. capabilities \subseteq 1 .. Canonical /\ [M!MigrationNext]_(M!migrationVars) => (capabilities \subseteq 1 .. Canonical)'
  <2> SUFFICES ASSUME capabilities \subseteq 1 .. Canonical, [M!MigrationNext]_(M!migrationVars)
               PROVE  capabilities' \subseteq 1 .. Canonical
    OBVIOUS
  <2>1. CASE UNCHANGED M!migrationVars
    BY <2>1 DEF M!migrationVars
  <2>2. ASSUME NEW p \in Process, M!SeedCapability(p) PROVE capabilities' \subseteq 1 .. Canonical
    BY <2>2 DEF M!SeedCapability
  <2>3. ASSUME NEW p \in Process,
               \/ M!OpenDatabase(p) \/ M!ReadVersion(p) \/ M!Apply(p) \/ M!Record(p) \/ M!Commit(p)
               \/ M!Migrated(p) \/ M!CountCapabilities(p) \/ M!Stop(p)
        PROVE  capabilities' \subseteq 1 .. Canonical
    BY <2>3 DEF M!OpenDatabase, M!ReadVersion, M!Apply, M!Record, M!Commit, M!Migrated, M!CountCapabilities, M!Stop
  <2> QED
    BY <2>1, <2>2, <2>3 DEF M!MigrationNext
<1> QED
  BY <1>1, <1>2, PTL DEF M!MigrationSpec

(* The database of the run has each migration once, in order.              *)
THEOREM DatabaseMigratedOnce == Spec => []MigratedOnce
<1>1. M!MigrationSpec => []MigrationInv
  BY Parameters, MigrationInvariance
<1>2. MigrationInv /\ capabilities \subseteq 1 .. Canonical => M!MigrationTypeOK /\ M!MigratedOnce
  <2> SUFFICES ASSUME MigrationInv, capabilities \subseteq 1 .. Canonical
               PROVE  M!MigrationTypeOK /\ M!MigratedOnce
    OBVIOUS
  <2>1. M!MigratedOnce
    BY DEF MigrationInv, InOrder, ProcessLocated, M!MigratedOnce
  <2>2. ASSUME NEW s \in M!Store
        PROVE  applied[s] \in Seq(1 .. Versions[s]) /\ recorded[s] \subseteq 1 .. Versions[s]
    <3> DEFINE n == Len(applied[s])
    <3>1. applied[s] \in Seq(Nat) /\ Versions[s] \in Nat /\ n \in Nat /\ n <= Versions[s] /\ recorded[s] = 1 .. n
      BY Parameters DEF MigrationInv, TablesTyped, InOrder, M!MigrationParameters, M!Store
    <3>2. DOMAIN applied[s] = 1 .. n /\ \A i \in 1 .. n : applied[s][i] = i
      BY <3>1 DEF MigrationInv, InOrder
    <3> HIDE DEF n
    <3>3. \A i \in 1 .. n : i \in 1 .. Versions[s]
      BY <3>1
    <3>4. applied[s] \in Seq(1 .. Versions[s])
      BY <3>1, <3>2, <3>3 DEF n
    <3> QED
      BY <3>1, <3>3, <3>4
  <2>3. \A p \in Process : proc[p].at \in MigrationStep
    BY DEF MigrationInv, TablesTyped
  <2> QED
    BY <2>1, <2>2, <2>3 DEF M!MigrationTypeOK, MigrationStep
<1>3. M!MigrationTypeOK /\ M!MigratedOnce => MigratedOnce
  BY DEF MigratedOnce
<1> QED
  BY <1>1, <1>2, <1>3, CapabilitiesCanonical, PartsRun, PTL

(* The index of every adapter holds vectors of one dimension, however the  *)
(* calls that set the dimension of an empty one overlap.                   *)
THEOREM IndexOfOneDimension == Spec => []OneDimension
<1>1. V!IndexSpec => []IndexInv
  BY Parameters, IndexInvariance
<1>2. IndexInv => V!IndexTypeOK /\ V!OneDimension
  BY DEF IndexInv, IndexTyped, InHand, V!IndexTypeOK, Dimension
<1>3. V!IndexTypeOK /\ V!OneDimension => OneDimension
  BY DEF OneDimension
<1> QED
  BY <1>1, <1>2, <1>3, PartsRun, PTL

(* Each adapter of the run implements the map of adapter.go.               *)
THEOREM MapImplemented == Spec => ImplementsStore
<1>1. V!IndexSpec => V!ImplementsStore
  BY Parameters, AdaptersImplementStore
<1> QED
  BY <1>1, PartsRun, PTL DEF ImplementsStore
-----------------------------------------------------------------------------
(***************************************************************************)
(* The expiry filter.  The digits of an instant that are written are a     *)
(* prefix, so two texts of one second part at the first digit where the    *)
(* instants do, if the lesser one is written there, and else where the     *)
(* lesser text ends: its Z is above every digit, and its first character   *)
(* above the dot.                                                          *)
(***************************************************************************)

(* The digits that are written are those up to the last that is not 0.     *)
LEMMA WrittenUpTo ==
  ASSUME NEW t \in E!Time
  PROVE  \E n \in 0 .. Digits : /\ E!Written(t) = 1 .. n
                                /\ \A i \in n + 1 .. Digits : t.frac[i] = 0
<1> DEFINE T == {n \in 0 .. Digits : \A i \in n + 1 .. Digits : t.frac[i] = 0}
<1>1. Digits \in Nat /\ T \subseteq Nat /\ Digits \in T
  BY Parameters
<1>2. PICK n \in T : \A k \in T : n <= k
  <2> HIDE DEF T
  <2> QED
    BY <1>1, LeastNatural
<1>3. n \in Nat /\ n <= Digits /\ \A i \in n + 1 .. Digits : t.frac[i] = 0
  BY <1>1
<1>4. n # 0 => t.frac[n] # 0
  <2> SUFFICES ASSUME n # 0, t.frac[n] = 0 PROVE FALSE
    OBVIOUS
  <2>1. \A i \in (n - 1) + 1 .. Digits : t.frac[i] = 0
    <3> TAKE i \in (n - 1) + 1 .. Digits
    <3>1. i = n \/ i \in n + 1 .. Digits
      BY <1>1, <1>3
    <3> QED
      BY <1>3, <3>1
  <2>2. n - 1 \in T
    BY <1>1, <1>3, <2>1
  <2> QED
    BY <1>2, <1>3, <2>2
<1> HIDE DEF T
<1>5. ASSUME NEW i \in 1 .. n PROVE i \in E!Written(t)
  <2>1. n \in i .. Digits /\ t.frac[n] # 0 /\ i \in 1 .. Digits
    BY <1>1, <1>3, <1>4
  <2> QED
    BY <2>1 DEF E!Written
<1>6. ASSUME NEW i \in E!Written(t) PROVE i \in 1 .. n
  <2>1. i \in 1 .. Digits /\ \E j \in i .. Digits : t.frac[j] # 0
    BY DEF E!Written
  <2>2. PICK j \in i .. Digits : t.frac[j] # 0
    BY <2>1
  <2>3. j \notin n + 1 .. Digits
    BY <1>3, <2>2
  <2> QED
    BY <1>1, <1>3, <2>1, <2>3
<1>7. E!Written(t) = 1 .. n
  BY <1>5, <1>6
<1> QED
  BY <1>1, <1>3, <1>7

LEMMA TextTyped ==
  ASSUME NEW t \in E!Time, NEW i \in 0 .. Digits + 2
  PROVE  E!Format(t)[i] \in Nat /\ (i - 1 \in E!Written(t) => E!Format(t)[i] < E!Zulu)
<1>1. Digits \in Nat /\ Base \in Nat /\ t.sec \in Nat /\ E!Written(t) \subseteq 1 .. Digits
  BY Parameters DEF E!Time, E!Written
<1>2. \A j \in 1 .. Digits : t.frac[j] \in 0 .. Base - 1
  BY DEF E!Time, E!Fraction
<1>3. E!Zulu = Base + 2 /\ E!Dot = 1 /\ E!Blank = 0
  BY DEF E!Zulu, E!Dot, E!Blank
<1>4. \A j \in E!Written(t) : E!Digit(t.frac[j]) \in Nat /\ E!Digit(t.frac[j]) < E!Zulu
  BY <1>1, <1>2, <1>3 DEF E!Digit
<1>5. E!Format(t)[i] = CASE i = 0 -> t.sec
      [] i = 1 -> IF E!Written(t) = {} THEN E!Zulu ELSE E!Dot
      [] i - 1 \in E!Written(t) -> E!Digit(t.frac[i - 1])
      [] i - 1 \notin E!Written(t) /\ i - 2 \in E!Written(t) -> E!Zulu
      [] OTHER -> E!Blank
  BY DEF E!Format
<1>6. i = 0 => i - 1 \notin E!Written(t)
  BY <1>1
<1>7. i = 1 => i - 1 \notin E!Written(t)
  BY <1>1
<1> QED
  BY <1>1, <1>3, <1>4, <1>5, <1>6, <1>7

LEMMA TextAsymmetric ==
  ASSUME NEW s \in E!Time, NEW t \in E!Time, E!SortsBefore(s, t)
  PROVE  ~ E!SortsBefore(t, s)
<1> DEFINE a == E!Format(s)
           b == E!Format(t)
<1>1. \A i \in 0 .. Digits + 2 : a[i] \in Nat /\ b[i] \in Nat
  BY TextTyped
<1>2. E!TextLess(a, b)
  BY DEF E!SortsBefore
<1> HIDE DEF a, b
<1>3. ASSUME E!TextLess(b, a) PROVE FALSE
  <2>1. PICK k \in 0 .. Digits + 2 : a[k] < b[k] /\ \A i \in 0 .. k - 1 : a[i] = b[i]
    BY <1>2 DEF E!TextLess, E!DiffersAt
  <2>2. PICK j \in 0 .. Digits + 2 : b[j] < a[j] /\ \A i \in 0 .. j - 1 : b[i] = a[i]
    BY <1>3 DEF E!TextLess, E!DiffersAt
  <2>3. a[k] \in Nat /\ b[k] \in Nat /\ a[j] \in Nat /\ b[j] \in Nat /\ k \in Nat /\ j \in Nat
    BY <1>1
  <2>4. k < j => k \in 0 .. j - 1
    BY <2>3
  <2>5. j < k => j \in 0 .. k - 1
    BY <2>3
  <2>6. k = j \/ k < j \/ j < k
    BY <2>3
  <2> QED
    BY <2>1, <2>2, <2>3, <2>4, <2>5, <2>6
<1> QED
  BY <1>3 DEF E!SortsBefore, a, b

LEMMA BeforeAsymmetric ==
  ASSUME NEW s \in E!Time, NEW t \in E!Time, E!Before(s, t)
  PROVE  ~ E!Before(t, s)
<1>1. s.sec \in Nat /\ t.sec \in Nat /\ \A i \in 1 .. Digits : s.frac[i] \in Nat /\ t.frac[i] \in Nat
  BY Parameters DEF E!Time, E!Fraction
<1>2. CASE s.sec < t.sec
  BY <1>1, <1>2 DEF E!Before
<1>3. ASSUME E!Before(t, s), s.sec = t.sec PROVE FALSE
  <2>1. PICK k \in 1 .. Digits :
          s.frac[k] < t.frac[k] /\ \A i \in 1 .. k - 1 : s.frac[i] = t.frac[i]
    BY <1>1, <1>3 DEF E!Before, E!FirstDifference
  <2>2. PICK j \in 1 .. Digits :
          t.frac[j] < s.frac[j] /\ \A i \in 1 .. j - 1 : t.frac[i] = s.frac[i]
    BY <1>1, <1>3 DEF E!Before, E!FirstDifference
  <2>3. k < j => k \in 1 .. j - 1
    OBVIOUS
  <2>4. j < k => j \in 1 .. k - 1
    OBVIOUS
  <2>5. k = j \/ k < j \/ j < k
    OBVIOUS
  <2> QED
    BY <1>1, <2>1, <2>2, <2>3, <2>4, <2>5
<1> QED
  BY <1>2, <1>3 DEF E!Before

(* Two fractions are the same, or differ first at some digit.              *)
LEMMA DifferSomewhere ==
  ASSUME NEW s \in E!Time, NEW t \in E!Time, s.frac # t.frac
  PROVE  \E k \in 1 .. Digits : /\ s.frac[k] < t.frac[k] \/ t.frac[k] < s.frac[k]
                                /\ \A i \in 1 .. k - 1 : s.frac[i] = t.frac[i]
<1> DEFINE T == {i \in 1 .. Digits : s.frac[i] # t.frac[i]}
<1>1. \A i \in 1 .. Digits : s.frac[i] \in Nat /\ t.frac[i] \in Nat
  BY Parameters DEF E!Time, E!Fraction
<1>2. T # {}
  <2> DEFINE f == s.frac
             g == t.frac
  <2>1. f \in [1 .. Digits -> 0 .. Base - 1] /\ g \in [1 .. Digits -> 0 .. Base - 1] /\ f # g
    BY DEF E!Time, E!Fraction
  <2>2. T = {} => \A i \in 1 .. Digits : f[i] = g[i]
    OBVIOUS
  <2> HIDE DEF f, g
  <2>3. f = [i \in 1 .. Digits |-> f[i]] /\ g = [i \in 1 .. Digits |-> g[i]]
    BY <2>1
  <2>4. (\A i \in 1 .. Digits : f[i] = g[i]) => [i \in 1 .. Digits |-> f[i]] = [i \in 1 .. Digits |-> g[i]]
    OBVIOUS
  <2> HIDE DEF T
  <2> QED
    BY <2>1, <2>2, <2>3, <2>4
<1>3. PICK k \in T : \A i \in T : k <= i
  <2>1. T \subseteq Nat
    OBVIOUS
  <2> HIDE DEF T
  <2> QED
    BY <1>2, <2>1, LeastNatural
<1>4. \A i \in 1 .. k - 1 : i \in 1 .. Digits /\ i \notin T
  BY <1>3, Parameters
<1> QED
  BY <1>1, <1>3, <1>4

(* Where the digits of one second part, the texts part in the same way if  *)
(* the lesser digit is written, and in the other if it is not.             *)
LEMMA TextsPart ==
  ASSUME NEW s \in E!Time, NEW t \in E!Time, s.sec = t.sec, NEW k \in 1 .. Digits,
         s.frac[k] < t.frac[k], \A i \in 1 .. k - 1 : s.frac[i] = t.frac[i]
  PROVE  /\ k \in E!Written(s) => E!SortsBefore(s, t) /\ ~ E!ShortOf(s, t)
         /\ k \notin E!Written(s) => E!SortsBefore(t, s) /\ E!ShortOf(s, t)
         /\ ~ E!ShortOf(t, s)
<1> DEFINE a == E!Format(s)
           b == E!Format(t)
<1>1. PICK m \in 0 .. Digits : E!Written(s) = 1 .. m /\ \A i \in m + 1 .. Digits : s.frac[i] = 0
  BY WrittenUpTo
<1>2. PICK n \in 0 .. Digits : E!Written(t) = 1 .. n /\ \A i \in n + 1 .. Digits : t.frac[i] = 0
  BY WrittenUpTo
<1>3. /\ Digits \in Nat /\ Base \in Nat
      /\ \A i \in 1 .. Digits : s.frac[i] \in 0 .. Base - 1 /\ t.frac[i] \in 0 .. Base - 1
  BY Parameters DEF E!Time, E!Fraction
<1>4. k <= n
  <2>1. t.frac[k] # 0
    BY <1>3
  <2> QED
    BY <1>2, <1>3, <2>1
<1>5. a[0] = b[0] /\ (m # 0 => a[1] = E!Dot) /\ b[1] = E!Dot
  BY <1>1, <1>2, <1>3, <1>4 DEF E!Format
<1>6. \A i \in 2 .. Digits + 1 : i - 1 \in 1 .. m => a[i] = s.frac[i - 1] + 2
  BY <1>1, <1>3 DEF E!Format, E!Digit
<1>7. \A i \in 2 .. Digits + 1 : i - 1 \in 1 .. n => b[i] = t.frac[i - 1] + 2
  BY <1>2, <1>3 DEF E!Format, E!Digit
<1>8. m = 0 => a[1] = E!Zulu
  BY <1>1, <1>3 DEF E!Format
<1>9. m # 0 => a[m + 2] = E!Zulu
  <2> SUFFICES ASSUME m # 0 PROVE a[m + 2] = E!Zulu
    OBVIOUS
  <2>1. m + 2 \in 0 .. Digits + 2 /\ m + 2 # 0 /\ m + 2 # 1 /\ (m + 2) - 1 \notin E!Written(s) /\ (m + 2) - 2 \in E!Written(s)
    BY <1>1, <1>3
  <2> QED
    BY <2>1 DEF E!Format
<1> HIDE DEF a, b
<1>10. ~ E!ShortOf(t, s)
  <2> SUFFICES ASSUME E!ShortOf(t, s) PROVE FALSE
    OBVIOUS
  <2>1. k \in E!Written(t)
    BY <1>2, <1>4
  <2> QED
    BY <1>3, <2>1 DEF E!ShortOf
<1>11. ASSUME k \in E!Written(s) PROVE E!SortsBefore(s, t) /\ ~ E!ShortOf(s, t)
  <2>1. k <= m
    BY <1>1, <1>11
  <2>2. a[k + 1] = s.frac[k] + 2 /\ b[k + 1] = t.frac[k] + 2
    BY <1>3, <1>4, <1>6, <1>7, <2>1
  <2>3. a[k + 1] < b[k + 1]
    BY <1>3, <2>2
  <2>4. ASSUME NEW i \in 0 .. (k + 1) - 1 PROVE a[i] = b[i]
    <3>1. CASE i = 0 \/ i = 1
      BY <1>5, <2>1, <3>1
    <3>2. CASE i \in 2 .. k
      <4>1. i \in 2 .. Digits + 1 /\ i - 1 \in 1 .. m /\ i - 1 \in 1 .. n /\ i - 1 \in 1 .. k - 1
        BY <1>3, <1>4, <2>1, <3>2
      <4> QED
        BY <1>6, <1>7, <4>1
    <3> QED
      BY <3>1, <3>2
  <2>5. k + 1 \in 0 .. Digits + 2
    BY <1>3
  <2>6. E!SortsBefore(s, t)
    BY <2>3, <2>4, <2>5 DEF E!SortsBefore, E!TextLess, E!DiffersAt, a, b
  <2> QED
    BY <1>3, <1>11, <2>6 DEF E!ShortOf
<1>12. ASSUME k \notin E!Written(s) PROVE E!SortsBefore(t, s) /\ E!ShortOf(s, t)
  <2>1. m < k
    BY <1>1, <1>12
  <2>2. E!ShortOf(s, t)
    <3>1. \A i \in 1 .. m : i \in 1 .. k - 1
      BY <2>1
    <3>2. 1 .. m \subseteq 1 .. n
      BY <1>4, <2>1
    <3>3. k \in 1 .. n /\ k \notin 1 .. m
      BY <1>4, <2>1
    <3> QED
      BY <1>1, <1>2, <3>1, <3>2, <3>3 DEF E!ShortOf
  <2>3. CASE m = 0
    <3>1. b[1] < a[1]
      BY <1>3, <1>5, <1>8, <2>3 DEF E!Zulu, E!Dot
    <3>2. \A i \in 0 .. 1 - 1 : b[i] = a[i]
      BY <1>5
    <3>3. 1 \in 0 .. Digits + 2
      BY <1>3
    <3> QED
      BY <2>2, <3>1, <3>2, <3>3 DEF E!SortsBefore, E!TextLess, E!DiffersAt, a, b
  <2>4. CASE m # 0
    <3>1. m + 2 \in 2 .. Digits + 1 /\ (m + 2) - 1 \in 1 .. n /\ m + 1 \in 1 .. Digits /\ (m + 2) - 1 = m + 1
      BY <1>3, <1>4, <2>1
    <3>2. b[m + 2] = t.frac[m + 1] + 2
      BY <1>7, <3>1
    <3>3. b[m + 2] < a[m + 2]
      BY <1>3, <1>9, <2>4, <3>1, <3>2 DEF E!Zulu
    <3>4. ASSUME NEW i \in 0 .. (m + 2) - 1 PROVE b[i] = a[i]
      <4>1. CASE i = 0 \/ i = 1
        BY <1>5, <2>4, <4>1
      <4>2. CASE i \in 2 .. m + 1
        <5>1. i \in 2 .. Digits + 1 /\ i - 1 \in 1 .. m /\ i - 1 \in 1 .. n /\ i - 1 \in 1 .. k - 1
          BY <1>3, <1>4, <2>1, <4>2
        <5> QED
          BY <1>6, <1>7, <5>1
      <4> QED
        BY <4>1, <4>2
    <3>5. m + 2 \in 0 .. Digits + 2
      BY <1>3
    <3> QED
      BY <2>2, <3>3, <3>4, <3>5 DEF E!SortsBefore, E!TextLess, E!DiffersAt, a, b
  <2> QED
    BY <2>3, <2>4
<1> QED
  BY <1>10, <1>11, <1>12

LEMMA SecondsPart ==
  ASSUME NEW s \in E!Time, NEW t \in E!Time, s.sec < t.sec
  PROVE  E!SortsBefore(s, t) /\ E!Before(s, t)
<1>0. 0 \in 0 .. Digits + 2
  BY Parameters
<1>1. \A u \in E!Time : E!Format(u)[0] = u.sec
  <2> TAKE u \in E!Time
  <2>1. u.sec \in Nat
    BY DEF E!Time
  <2>2. E!Format(u)[0] = CASE 0 = 0 -> u.sec
                         [] 0 = 1 -> IF E!Written(u) = {} THEN E!Zulu ELSE E!Dot
                         [] 0 - 1 \in E!Written(u) -> E!Digit(u.frac[0 - 1])
                         [] 0 - 1 \notin E!Written(u) /\ 0 - 2 \in E!Written(u) -> E!Zulu
                         [] OTHER -> E!Blank
    BY <1>0 DEF E!Format
  <2>3. 0 # 1 /\ 0 - 1 \notin E!Written(u) /\ 0 - 2 \notin E!Written(u)
    BY DEF E!Written
  <2> QED
    BY <2>1, <2>2, <2>3
<1>2. \A i \in 0 .. 0 - 1 : E!Format(s)[i] = E!Format(t)[i]
  OBVIOUS
<1> QED
  BY <1>0, <1>1, <1>2 DEF E!SortsBefore, E!TextLess, E!DiffersAt, E!Before

(* The text order is that of time but where the digits of one begin with   *)
(* those of the other.                                                     *)
LEMMA TextAgainstTime ==
  ASSUME NEW s \in E!Time, NEW t \in E!Time
  PROVE  ~ (E!SortsBefore(s, t) <=> E!Before(s, t)) <=> (s.sec = t.sec /\ (E!ShortOf(s, t) \/ E!ShortOf(t, s)))
<1>1. s.sec \in Nat /\ t.sec \in Nat
  BY DEF E!Time
<1>2. CASE s.sec < t.sec
  BY <1>1, <1>2, SecondsPart
<1>3. CASE t.sec < s.sec
  <2>1. E!SortsBefore(t, s) /\ E!Before(t, s)
    BY <1>3, SecondsPart
  <2>2. ~ E!SortsBefore(s, t) /\ ~ E!Before(s, t)
    BY <2>1, TextAsymmetric, BeforeAsymmetric
  <2> QED
    BY <1>1, <1>3, <2>2
<1>4. CASE s.sec = t.sec /\ s.frac = t.frac
  <2>1. s = t
    BY <1>4 DEF E!Time
  <2>2. ~ E!SortsBefore(s, t) /\ ~ E!Before(s, t)
    BY <2>1, TextAsymmetric, BeforeAsymmetric
  <2>3. ~ E!ShortOf(s, t) /\ ~ E!ShortOf(t, s)
    BY <2>1 DEF E!ShortOf
  <2> QED
    BY <2>2, <2>3
<1>5. CASE s.sec = t.sec /\ s.frac # t.frac
  <2>1. PICK k \in 1 .. Digits : /\ s.frac[k] < t.frac[k] \/ t.frac[k] < s.frac[k]
                                 /\ \A i \in 1 .. k - 1 : s.frac[i] = t.frac[i]
    BY <1>5, DifferSomewhere
  <2>2. CASE s.frac[k] < t.frac[k]
    <3>1. E!Before(s, t) /\ s.frac[k] # t.frac[k]
      <4>1. s.frac[k] # t.frac[k]
        BY <2>2, Parameters DEF E!Time, E!Fraction
      <4> QED
        BY <1>5, <2>1, <2>2, <4>1 DEF E!Before, E!FirstDifference
    <3>2. /\ k \in E!Written(s) => E!SortsBefore(s, t) /\ ~ E!ShortOf(s, t)
          /\ k \notin E!Written(s) => E!SortsBefore(t, s) /\ E!ShortOf(s, t)
          /\ ~ E!ShortOf(t, s)
      BY <1>5, <2>1, <2>2, TextsPart
    <3>3. E!SortsBefore(t, s) => ~ E!SortsBefore(s, t)
      BY TextAsymmetric
    <3> QED
      BY <1>5, <3>1, <3>2, <3>3
  <2>3. CASE t.frac[k] < s.frac[k]
    <3>1. E!Before(t, s)
      <4>1. s.frac[k] # t.frac[k]
        BY <2>3, Parameters DEF E!Time, E!Fraction
      <4> QED
        BY <1>5, <2>1, <2>3, <4>1 DEF E!Before, E!FirstDifference
    <3>2. /\ k \in E!Written(t) => E!SortsBefore(t, s) /\ ~ E!ShortOf(t, s)
          /\ k \notin E!Written(t) => E!SortsBefore(s, t) /\ E!ShortOf(t, s)
          /\ ~ E!ShortOf(s, t)
      BY <1>5, <2>1, <2>3, TextsPart
    <3>3. (E!SortsBefore(t, s) => ~ E!SortsBefore(s, t)) /\ ~ E!Before(s, t)
      BY <3>1, TextAsymmetric, BeforeAsymmetric
    <3> QED
      BY <1>5, <3>2, <3>3
  <2> QED
    BY <2>1, <2>2, <2>3
<1> QED
  BY <1>1, <1>2, <1>3, <1>4, <1>5

LEMMA InstantsTyped == E!Spec => [](clock \in E!Instant /\ expires \in E!Instant)
<1>1. E!Init => clock \in E!Instant /\ expires \in E!Instant
  <2> SUFFICES ASSUME E!Init PROVE clock \in E!Instant
    BY DEF E!Init
  <2>1. clock = [sec |-> 0, frac |-> [i \in 1 .. Digits |-> 0]]
    BY DEF E!Init
  <2>2. 0 \in 0 .. MaxSec /\ [i \in 1 .. Digits |-> 0] \in E!Fraction
    BY Parameters DEF E!Fraction
  <2> QED
    BY <2>1, <2>2 DEF E!Instant
<1>2. clock \in E!Instant /\ expires \in E!Instant /\ [E!Next]_(E!vars)
      => (clock \in E!Instant /\ expires \in E!Instant)'
  BY DEF E!Next, E!Reissue, E!Tick, E!vars
<1> QED
  BY <1>1, <1>2, PTL DEF E!Spec

(* The filter of the queries and the Go method disagree on an expiry only  *)
(* where the digits of one instant begin with those of the other, whatever *)
(* the base, the digits and the instants.                                  *)
THEOREM FilterAgainstMethod == Spec => []DisagreeOnlyOnPrefix
<1>1. clock \in E!Instant /\ expires \in E!Instant => DisagreeOnlyOnPrefix
  <2> SUFFICES ASSUME clock \in E!Instant, expires \in E!Instant PROVE E!DisagreeOnlyOnPrefix
    BY DEF DisagreeOnlyOnPrefix
  <2>1. clock \in E!Time /\ expires \in E!Time
    BY DEF E!Instant, E!Time
  <2>2. ~ (E!SortsBefore(clock, expires) <=> E!Before(clock, expires))
        <=> (clock.sec = expires.sec /\ (E!ShortOf(clock, expires) \/ E!ShortOf(expires, clock)))
    BY <2>1, TextAgainstTime
  <2>3. E!SortsBefore(clock, expires) \in BOOLEAN /\ E!Before(clock, expires) \in BOOLEAN
    BY DEF E!SortsBefore, E!TextLess, E!Before
  <2> QED
    BY <2>2, <2>3 DEF E!DisagreeOnlyOnPrefix, E!ActiveInStore, E!ActiveInGo
<1> QED
  BY <1>1, InstantsTyped, PartsRun, PTL
-----------------------------------------------------------------------------
(* The rules, of every input.                                              *)

LEMMA NarrowerMatchesLess ==
  ASSUME NEW p, NEW v, NEW w, NEW a, S!NarrowerValue(p, v, w), S!MatchValue(p, v, a)
  PROVE  S!MatchValue(p, w, a)
<1>1. CASE v = w
  BY <1>1
<1>2. CASE v.is = "list" /\ w.is = "list" /\ (IF p = "set_excludes" THEN w.of \subseteq v.of ELSE v.of \subseteq w.of)
  <2>1. p \in {"glob_list", "set_intersect", "set_subset", "set_excludes", "range_includes"}
    BY <1>2 DEF S!MatchValue, S!MatchEquals, S!MatchPrefix, S!MatchSenderGlob
  <2>2. CASE p = "glob_list"
    BY <1>2, <2>2 DEF S!MatchValue, S!MatchGlobList, S!Listed, S!AsList
  <2>3. CASE p = "set_intersect"
    BY <1>2, <2>3 DEF S!MatchValue, S!MatchSetIntersect
  <2>4. CASE p = "set_subset"
    BY <1>2, <2>4 DEF S!MatchValue, S!MatchSetSubset
  <2>5. CASE p = "set_excludes"
    BY <1>2, <2>5 DEF S!MatchValue, S!MatchSetExcludes
  <2>6. CASE p = "range_includes"
    BY <1>2, <2>6 DEF S!MatchValue, S!MatchRangeIncludes, S!Since, S!Until
  <2> QED
    BY <2>1, <2>2, <2>3, <2>4, <2>5, <2>6
<1>3. CASE v.is = "range" /\ w.is = "range" /\ S!Since(w) <= S!Since(v) /\ S!Until(v) <= S!Until(w)
  <2>1. p = "range_includes" /\ S!MatchRangeIncludes(v, a)
    BY <1>3 DEF S!MatchValue, S!MatchEquals, S!MatchPrefix, S!MatchSenderGlob, S!MatchGlobList, S!Listed,
       S!MatchSetIntersect, S!MatchSetSubset, S!MatchSetExcludes
  <2>2. ASSUME NEW u PROVE S!Since(u) \in Nat /\ S!Until(u) \in Nat
    BY DEF S!Since, S!Until, S!IsTime, S!Times
  <2>3. S!Times[a.of] \in S!Since(v) .. S!Until(v) => S!Times[a.of] \in S!Since(w) .. S!Until(w)
    BY <1>3, <2>2
  <2> QED
    BY <2>1, <2>3 DEF S!MatchValue, S!MatchRangeIncludes
<1> QED
  BY <1>1, <1>2, <1>3 DEF S!NarrowerValue

LEMMA NarrowerScopes ==
  ASSUME NEW schema, NEW scope, NEW wide, NEW attempt
  PROVE  S!NarrowerAdmitsLess(schema, scope, wide, attempt)
<1> SUFFICES ASSUME S!Narrower(schema, scope, wide), S!MatchScope(schema, scope, attempt),
                    NEW f \in DOMAIN schema \intersect DOMAIN wide
             PROVE  f \in DOMAIN attempt /\ S!MatchValue(schema[f], wide[f], attempt[f])
  BY DEF S!NarrowerAdmitsLess, S!MatchScope
<1>1. f \in DOMAIN scope /\ S!NarrowerValue(schema[f], scope[f], wide[f])
  BY DEF S!Narrower
<1>2. f \in DOMAIN attempt /\ S!MatchValue(schema[f], scope[f], attempt[f])
  BY <1>1 DEF S!MatchScope
<1> QED
  BY <1>1, <1>2, NarrowerMatchesLess

(* Tightening a grant is safe, whatever its schema and whatever a caller   *)
(* attempts.                                                               *)
THEOREM ScopesTighten == Spec => []NarrowerAdmitsLess
<1>1. NarrowerAdmitsLess
  BY NarrowerScopes DEF NarrowerAdmitsLess
<1> QED
  BY <1>1, PTL

LEMMA AcceptedServed ==
  ASSUME NEW process, NEW m, NEW registered, NEW clients
  PROVE  C!AcceptedIsServed(process, m, registered, clients)
<1> SUFFICES ASSUME C!Accepts(process, m, registered)
             PROVE  /\ C!Resolves(m, clients) => \A f \in {"authorization", "token"} : C!Endpoints(m)[f] = "https"
                    /\ "ingestor" \in C!Range(m.roles) => C!Armed(m)
  BY DEF C!AcceptedIsServed
<1>1. ASSUME C!Resolves(m, clients), NEW f \in {"authorization", "token"} PROVE C!Endpoints(m)[f] = "https"
  <2>1. m.oauth # None /\ C!OAuthErrors(m, process) = {}
    BY <1>1 DEF C!Resolves, C!Accepts
  <2>2. {g \in {"authorization", "token"} :
           m.oauth[g] # (IF C!WellKnownOAuthProvider(process, m.oauth.provider) THEN "" ELSE "https")} = {}
    BY <2>1 DEF C!OAuthErrors
  <2>3. C!WellKnown(m.oauth.provider) \/ m.oauth[f] = "https"
    BY <2>2 DEF C!WellKnownOAuthProvider
  <2>4. C!WellKnown(m.oauth.provider) => C!Providers[m.oauth.provider][f] = "https"
    BY DEF C!WellKnown, C!Providers
  <2> QED
    BY <2>3, <2>4 DEF C!Endpoints
<1>2. ASSUME "ingestor" \in C!Range(m.roles) PROVE C!Armed(m)
  <2>1. C!IngestorErrors(m) = {}
    BY DEF C!Accepts
  <2>2. m.ingestor # None
    BY <1>2, <2>1 DEF C!IngestorErrors
  <2>3. m.ingestor.trigger \in C!ToolNames(m)
    BY <2>1, <2>2 DEF C!IngestorErrors
  <2> QED
    BY <2>2, <2>3 DEF C!Armed
<1> QED
  BY <1>1, <1>2

(* What a manifest that is accepted declares can be served, whoever reads  *)
(* it.                                                                     *)
THEOREM ManifestsServed == Spec => []AcceptedIsServed
<1>1. AcceptedIsServed
  BY AcceptedServed DEF AcceptedIsServed
<1> QED
  BY <1>1, PTL
-----------------------------------------------------------------------------
(* The search: the rows of some places in the order of their distance, the *)
(* earlier first at a tie.  A list of that order has at r the row of rank  *)
(* r, and a place that comes after all the others is inserted behind those *)
(* that are no farther; the scan inserts into the first k of the list what *)
(* the order inserts into the whole.                                       *)
SearchRow == [dist : Int, zero : BOOLEAN, meta : SUBSET N!Value]

LEMMA SearchCounted == \A T : N!Cardinality(T) = Cardinality(T)
BY DEF N!Cardinality, Cardinality, N!IsFiniteSet, IsFiniteSet

LEMMA RowAt ==
  ASSUME NEW rows \in Seq(SearchRow), NEW i \in 1 .. Len(rows)
  PROVE  rows[i] \in SearchRow /\ rows[i].dist \in Int
<1>1. rows[i] \in SearchRow
  <2> HIDE DEF SearchRow
  <2> QED
    OBVIOUS
<1>2. \A row \in SearchRow : row.dist \in Int
  BY DEF SearchRow
<1> QED
  BY <1>1, <1>2

NearestFirst(list, m, rows, T) ==
  /\ m \in Nat /\ list \in [1 .. m -> T]
  /\ \A x \in T : \E i \in 1 .. m : list[i] = x
  /\ \A i, j \in 1 .. m : i < j => N!Before(rows, list[i], list[j])

LEMMA NearestOnce ==
  ASSUME NEW rows \in Seq(SearchRow), NEW T \in SUBSET (1 .. Len(rows)), NEW list, NEW m,
         NearestFirst(list, m, rows, T)
  PROVE  /\ \A i, j \in 1 .. m : N!Before(rows, list[i], list[j]) <=> i < j
         /\ \A i, j \in 1 .. m : list[i] = list[j] => i = j
<1>1. m \in Nat /\ \A i \in 1 .. m : list[i] \in 1 .. Len(rows)
  BY DEF NearestFirst
<1>2. \A x \in 1 .. Len(rows) : rows[x].dist \in Int
  BY RowAt
<1>3. \A x, y \in 1 .. Len(rows) : N!Before(rows, x, y) => ~ N!Before(rows, y, x) /\ x # y
  BY <1>2 DEF N!Before
<1>4. ASSUME NEW i \in 1 .. m, NEW j \in 1 .. m PROVE i < j \/ i = j \/ j < i
  BY <1>1
<1>5. ASSUME NEW i \in 1 .. m, NEW j \in 1 .. m
      PROVE  (N!Before(rows, list[i], list[j]) <=> i < j) /\ (list[i] = list[j] => i = j)
  <2>1. i < j => N!Before(rows, list[i], list[j])
    BY DEF NearestFirst
  <2>2. j < i => N!Before(rows, list[j], list[i])
    BY DEF NearestFirst
  <2>3. ~ N!Before(rows, list[i], list[i])
    BY <1>1, <1>3
  <2>4. i = j => ~ (i < j)
    BY <1>1
  <2> QED
    BY <1>1, <1>3, <1>4, <2>1, <2>2, <2>3, <2>4
<1> QED
  BY <1>5

(* The row of rank r is the one at r.                                      *)
FirstRows(list, m, rows, k) == [r \in 1 .. (IF m < k THEN m ELSE k) |-> rows[list[r]]]

LEMMA NearestByRank ==
  ASSUME NEW rows \in Seq(SearchRow), NEW T \in SUBSET (1 .. Len(rows)), NEW list, NEW m,
         NearestFirst(list, m, rows, T), NEW k \in Int
  PROVE  /\ Cardinality(T) = m
         /\ N!Nearest(rows, T, k) = FirstRows(list, m, rows, k)
<1>1. m \in Nat /\ \A i \in 1 .. m : list[i] \in T
  BY DEF NearestFirst
<1>2. \A i, j \in 1 .. m : list[i] = list[j] => i = j
  BY NearestOnce
<1>3. \A n \in Nat : IsFiniteSet(1 .. n) /\ Cardinality(1 .. n) = n
  BY FS_Interval
<1>4. Cardinality(T) = m
  <2>1. list \in Bijection(1 .. m, T)
    BY <1>2 DEF NearestFirst, Bijection, Injection, Surjection, IsInjective
  <2>2. ExistsBijection(1 .. m, T)
    BY <2>1 DEF ExistsBijection
  <2> QED
    BY <1>1, <1>3, <2>2, FS_Bijection
<1>5. ASSUME NEW r \in 1 .. m PROVE N!Rank(rows, T, list[r]) = r
  <2> DEFINE ahead == {x \in T : N!Before(rows, x, list[r])}
             first == [q \in 1 .. r - 1 |-> list[q]]
  <2>1. r - 1 \in Nat /\ \A q \in 1 .. r - 1 : q \in 1 .. m /\ q < r
    BY <1>1
  <2>2. \A q \in 1 .. r - 1 : first[q] \in ahead
    BY <1>1, <2>1 DEF NearestFirst
  <2>3. ASSUME NEW x \in ahead PROVE \E q \in 1 .. r - 1 : first[q] = x
    <3>1. PICK q \in 1 .. m : list[q] = x
      BY DEF NearestFirst
    <3>2. q < r
      BY <3>1, NearestOnce
    <3>3. q \in 1 .. r - 1
      BY <1>1, <3>2
    <3> QED
      BY <3>1, <3>3
  <2>4. \A p, q \in 1 .. r - 1 : first[p] = first[q] => p = q
    BY <1>2, <2>1
  <2>5. first \in Bijection(1 .. r - 1, ahead)
    <3>1. first \in [1 .. r - 1 -> ahead]
      BY <2>2
    <3> HIDE DEF first, ahead
    <3> QED
      BY <2>3, <2>4, <3>1 DEF Bijection, Injection, Surjection, IsInjective
  <2>6. ExistsBijection(1 .. r - 1, ahead)
    BY <2>5 DEF ExistsBijection
  <2>7. Cardinality(ahead) = r - 1
    <3> HIDE DEF first, ahead
    <3> QED
      BY <1>3, <2>1, <2>6, FS_Bijection
  <2>8. N!Rank(rows, T, list[r]) = 1 + Cardinality(ahead)
    BY SearchCounted DEF N!Rank
  <2> HIDE DEF ahead
  <2> QED
    BY <2>7, <2>8
<1>6. ASSUME NEW r \in 1 .. m PROVE (CHOOSE i \in T : N!Rank(rows, T, i) = r) = list[r]
  <2>1. ASSUME NEW i \in T, N!Rank(rows, T, i) = r PROVE i = list[r]
    <3>1. PICK q \in 1 .. m : list[q] = i
      BY DEF NearestFirst
    <3> QED
      BY <1>5, <2>1, <3>1
  <2>2. list[r] \in T /\ N!Rank(rows, T, list[r]) = r
    BY <1>1, <1>5
  <2> QED
    BY <2>1, <2>2
<1>7. N!Nearest(rows, T, k)
        = [r \in 1 .. (IF m < k THEN m ELSE k) |-> rows[CHOOSE i \in T : N!Rank(rows, T, i) = r]]
  BY <1>4, SearchCounted DEF N!Nearest
<1>8. \A r \in 1 .. (IF m < k THEN m ELSE k) : r \in 1 .. m
  BY <1>1
<1> QED
  BY <1>4, <1>6, <1>7, <1>8 DEF FirstRows

(* Where a place that comes after all the others goes.                     *)
Inserted(list, m, p, x) ==
  [q \in 1 .. m + 1 |-> IF q <= p THEN list[q] ELSE IF q = p + 1 THEN x ELSE list[q - 1]]

LEMMA InsertedInOrder ==
  ASSUME NEW rows \in Seq(SearchRow), NEW n \in 1 .. Len(rows), NEW T \in SUBSET (1 .. n - 1),
         NEW list, NEW m, NearestFirst(list, m, rows, T)
  PROVE  \E p \in 0 .. m : /\ \A q \in 1 .. m : rows[list[q]].dist <= rows[n].dist <=> q <= p
                           /\ NearestFirst(Inserted(list, m, p, n), m + 1, rows, T \union {n})
<1> DEFINE D(q) == rows[list[q]].dist
           near == {0} \union {q \in 1 .. m : D(q) <= rows[n].dist}
<1>1. m \in Nat /\ n \in Nat /\ \A q \in 1 .. m : list[q] \in T /\ list[q] \in 1 .. Len(rows) /\ list[q] < n
  <2>1. m \in Nat /\ \A q \in 1 .. m : list[q] \in T
    BY DEF NearestFirst
  <2>2. n \in Nat /\ Len(rows) \in Nat /\ n <= Len(rows)
    OBVIOUS
  <2>3. ASSUME NEW x \in T PROVE x \in 1 .. Len(rows) /\ x < n
    <3>1. x \in 1 .. n - 1
      OBVIOUS
    <3> QED
      BY <2>2, <3>1
  <2> QED
    BY <2>1, <2>2, <2>3
<1>2. rows[n].dist \in Int /\ \A q \in 1 .. m : D(q) \in Int
  BY <1>1, RowAt
<1>3. near \in SUBSET Nat /\ near # {} /\ IsFiniteSet(near)
  <2>1. near \subseteq 0 .. m
    BY <1>1
  <2>2. IsFiniteSet(0 .. m)
    BY <1>1, FS_Interval
  <2>3. IsFiniteSet(near) /\ near # {}
    BY <2>1, <2>2, FS_Subset
  <2> QED
    BY <1>1, <2>1, <2>3
<1>4. PICK p \in near : \A q \in near : q <= p
  <2> HIDE DEF near
  <2> QED
    BY <1>3, GreatestNumber
<1>5. p \in 0 .. m
  BY <1>1
<1>6. \A i, j \in 1 .. m : i < j => N!Before(rows, list[i], list[j]) /\ D(i) <= D(j)
  <2> SUFFICES ASSUME NEW i \in 1 .. m, NEW j \in 1 .. m, i < j
               PROVE  N!Before(rows, list[i], list[j]) /\ D(i) <= D(j)
    OBVIOUS
  <2>1. N!Before(rows, list[i], list[j])
    BY DEF NearestFirst
  <2>2. D(i) < D(j) \/ D(i) = D(j)
    BY <2>1 DEF N!Before
  <2>3. D(i) \in Int /\ D(j) \in Int
    BY <1>2
  <2> HIDE DEF D
  <2> QED
    BY <2>1, <2>2, <2>3
<1>7. ASSUME NEW q \in 1 .. m PROVE D(q) <= rows[n].dist <=> q <= p
  <2>1. D(q) <= rows[n].dist => q <= p
    BY <1>4
  <2>2. ASSUME q <= p PROVE D(q) <= rows[n].dist
    <3>1. p \in 1 .. m /\ D(p) <= rows[n].dist
      BY <1>1, <1>5, <2>2
    <3>2. q = p \/ q < p
      BY <1>1, <1>5, <2>2
    <3>3. D(q) <= D(p)
      BY <1>2, <1>6, <3>1, <3>2
    <3> HIDE DEF D
    <3> QED
      BY <1>2, <3>1, <3>3
  <2> QED
    BY <2>1, <2>2
<1> DEFINE new == Inserted(list, m, p, n)
<1>8. \A q \in 1 .. m + 1 : /\ q <= p => q \in 1 .. m /\ new[q] = list[q]
                            /\ q = p + 1 => new[q] = n
                            /\ q > p + 1 => q - 1 \in 1 .. m /\ new[q] = list[q - 1]
  BY <1>1, <1>5 DEF Inserted
<1>9. ASSUME NEW q \in 1 .. m + 1 PROVE q <= p \/ q = p + 1 \/ q > p + 1
  BY <1>1, <1>5
<1>10. new \in [1 .. m + 1 -> T \union {n}]
  <2>1. \A q \in 1 .. m + 1 : new[q] \in T \union {n}
    <3> HIDE DEF new
    <3> QED
      BY <1>1, <1>8, <1>9
  <2>2. new = [q \in 1 .. m + 1 |-> new[q]]
    BY DEF Inserted
  <2> HIDE DEF new
  <2> QED
    BY <2>1, <2>2
<1>11. ASSUME NEW x \in T \union {n} PROVE \E q \in 1 .. m + 1 : new[q] = x
  <2> HIDE DEF new
  <2>1. CASE x = n
    <3>1. p + 1 \in 1 .. m + 1
      BY <1>1, <1>5
    <3> QED
      BY <1>8, <2>1, <3>1
  <2>2. CASE x \in T
    <3>1. PICK i \in 1 .. m : list[i] = x
      BY <2>2 DEF NearestFirst
    <3>2. i \in 1 .. m + 1 /\ i + 1 \in 1 .. m + 1 /\ (i <= p \/ i + 1 > p + 1) /\ (i + 1) - 1 = i
      BY <1>1, <1>5
    <3> QED
      BY <1>8, <3>1, <3>2
  <2> QED
    BY <2>1, <2>2
<1>12. ASSUME NEW i \in 1 .. m + 1, NEW j \in 1 .. m + 1, i < j
       PROVE  N!Before(rows, new[i], new[j])
  <2> HIDE DEF new
  <2>1. CASE j <= p
    <3>1. i <= p
      BY <1>1, <1>5, <1>12, <2>1
    <3> QED
      BY <1>6, <1>8, <1>12, <2>1, <3>1
  <2>2. CASE j = p + 1
    <3>1. i <= p
      BY <1>1, <1>5, <1>12, <2>2
    <3>2. new[i] = list[i] /\ new[j] = n /\ i \in 1 .. m
      BY <1>8, <2>2, <3>1
    <3>3. D(i) <= rows[n].dist /\ list[i] < n
      BY <1>1, <1>7, <3>1, <3>2
    <3> QED
      BY <1>2, <3>2, <3>3 DEF N!Before
  <2>3. CASE j > p + 1
    <3>1. new[j] = list[j - 1] /\ j - 1 \in 1 .. m /\ j - 1 > p
      BY <1>1, <1>5, <1>8, <2>3
    <3>2. CASE i <= p
      <4>1. i < j - 1
        BY <1>1, <1>5, <3>1, <3>2
      <4> QED
        BY <1>6, <1>8, <3>1, <3>2, <4>1
    <3>3. CASE i = p + 1
      <4>1. new[i] = n /\ ~ (j - 1 <= p)
        BY <1>1, <1>5, <1>8, <3>1, <3>3
      <4>2. ~ (D(j - 1) <= rows[n].dist)
        BY <1>7, <3>1, <4>1
      <4>3. rows[n].dist < D(j - 1)
        <5> HIDE DEF D
        <5> QED
          BY <1>2, <3>1, <4>2
      <4> QED
        BY <3>1, <4>1, <4>3 DEF N!Before
    <3>4. CASE i > p + 1
      <4>1. new[i] = list[i - 1] /\ i - 1 \in 1 .. m /\ i - 1 < j - 1
        BY <1>1, <1>5, <1>8, <1>12, <3>4
      <4> QED
        BY <1>6, <3>1, <4>1
    <3> QED
      BY <1>9, <3>2, <3>3, <3>4
  <2> QED
    BY <1>9, <2>1, <2>2, <2>3
<1>13. NearestFirst(new, m + 1, rows, T \union {n})
  <2> HIDE DEF new
  <2> QED
    BY <1>1, <1>10, <1>11, <1>12 DEF NearestFirst
<1> QED
  BY <1>5, <1>7, <1>13

(* A sequence with one element more, as the code cuts and joins it.        *)
LEMMA InsertedBetween ==
  ASSUME NEW T, NEW s \in Seq(T), NEW p \in 0 .. Len(s), NEW h \in T
  PROVE  SubSeq(s, 1, p) \o <<h>> \o SubSeq(s, p + 1, Len(s)) = Inserted(s, Len(s), p, h)
<1> DEFINE m == Len(s)
           front == SubSeq(s, 1, p)
           back == SubSeq(s, p + 1, m)
           half == front \o <<h>>
           all == half \o back
<1>1. m \in Nat /\ p \in Nat /\ p <= m
  OBVIOUS
<1>2. /\ front \in Seq(T) /\ Len(front) = p
      /\ \A i \in 1 .. p : front[i] = s[i]
  <2>1. \A i \in 1 .. p : s[i] \in T
    BY <1>1
  <2>2. /\ front \in Seq(T) /\ Len(front) = IF 1 <= p THEN p - 1 + 1 ELSE 0
        /\ \A i \in 1 .. p - 1 + 1 : front[i] = s[1 + i - 1]
    BY <1>1, <2>1, SubSeqProperties
  <2> HIDE DEF front
  <2> QED
    BY <1>1, <2>2
<1>3. /\ back \in Seq(T) /\ Len(back) = m - p
      /\ \A i \in 1 .. m - p : back[i] = s[p + i]
  <2>1. \A i \in p + 1 .. m : s[i] \in T
    BY <1>1
  <2>2. /\ back \in Seq(T) /\ Len(back) = IF p + 1 <= m THEN m - (p + 1) + 1 ELSE 0
        /\ \A i \in 1 .. m - (p + 1) + 1 : back[i] = s[(p + 1) + i - 1]
    BY <1>1, <2>1, SubSeqProperties
  <2> HIDE DEF back
  <2> QED
    BY <1>1, <2>2
<1> HIDE DEF front, back
<1>4. <<h>> \in Seq(T) /\ Len(<<h>>) = 1 /\ <<h>>[1] = h
  OBVIOUS
<1>5. /\ half \in Seq(T) /\ Len(half) = p + 1
      /\ \A i \in 1 .. p + 1 : half[i] = IF i <= p THEN s[i] ELSE h
  <2>1. /\ half \in Seq(T) /\ Len(half) = p + 1
        /\ \A i \in 1 .. p + 1 : half[i] = IF i <= p THEN front[i] ELSE <<h>>[i - p]
    BY <1>2, <1>4, ConcatProperties
  <2> HIDE DEF half
  <2>2. ASSUME NEW i \in 1 .. p + 1 PROVE half[i] = IF i <= p THEN s[i] ELSE h
    <3>1. i <= p => i \in 1 .. p
      BY <1>1
    <3>2. ~ (i <= p) => i - p = 1
      BY <1>1
    <3> QED
      BY <1>2, <1>4, <2>1, <3>1, <3>2
  <2> QED
    BY <2>1, <2>2
<1> HIDE DEF half
<1>6. /\ all \in Seq(T) /\ Len(all) = m + 1
      /\ \A i \in 1 .. m + 1 : all[i] = IF i <= p + 1 THEN half[i] ELSE back[i - (p + 1)]
  <2>1. /\ all \in Seq(T) /\ Len(all) = Len(half) + Len(back)
        /\ \A i \in 1 .. Len(half) + Len(back) : all[i] = IF i <= Len(half) THEN half[i] ELSE back[i - Len(half)]
    BY <1>3, <1>5, ConcatProperties
  <2>2. Len(half) + Len(back) = m + 1
    BY <1>1, <1>3, <1>5
  <2> QED
    BY <1>5, <2>1, <2>2
<1> HIDE DEF all
<1>7. ASSUME NEW i \in 1 .. m + 1
      PROVE  all[i] = IF i <= p THEN s[i] ELSE IF i = p + 1 THEN h ELSE s[i - 1]
  <2>1. CASE i <= p + 1
    <3>1. i \in 1 .. p + 1 /\ (~ (i <= p) => i = p + 1)
      BY <1>1, <2>1
    <3> QED
      BY <1>5, <1>6, <2>1, <3>1
  <2>2. CASE ~ (i <= p + 1)
    <3>1. /\ i - (p + 1) \in 1 .. m - p /\ p + (i - (p + 1)) = i - 1
          /\ ~ (i <= p) /\ i # p + 1
      BY <1>1, <2>2
    <3> QED
      BY <1>3, <1>6, <2>2, <3>1
  <2> QED
    BY <2>1, <2>2
<1>8. all = [i \in 1 .. m + 1 |-> all[i]]
  BY <1>1, <1>6
<1>9. all = Inserted(s, m, p, h)
  <2> HIDE DEF m
  <2> QED
    BY <1>7, <1>8 DEF Inserted
<1> QED
  BY <1>9 DEF all, half, front, back

(* insertHit moves a hit up to its place.                                  *)
LEMMA BubbledUp ==
  ASSUME NEW hits \in Seq(SearchRow), NEW h \in SearchRow, NEW p \in 0 .. Len(hits),
         \A q \in 1 .. Len(hits) : hits[q].dist <= h.dist <=> q <= p
  PROVE  N!BubbleUp(hits, h) = Inserted(hits, Len(hits), p, h)
<1> DEFINE near == {0} \union {i \in DOMAIN hits : hits[i].dist <= h.dist}
<1>1. DOMAIN hits = 1 .. Len(hits) /\ Len(hits) \in Nat
  OBVIOUS
<1>2. near = 0 .. p
  BY <1>1
<1>3. N!Max(near) = CHOOSE x \in near : \A y \in near : x >= y
  BY DEF N!Max
<1> HIDE DEF near
<1>4. p \in near /\ \A y \in near : p >= y
  BY <1>2
<1>5. \A x \in near : (\A y \in near : x >= y) => x = p
  BY <1>2
<1>6. N!Max(near) = p
  BY <1>3, <1>4, <1>5
<1>7. N!BubbleUp(hits, h) = SubSeq(hits, 1, p) \o <<h>> \o SubSeq(hits, p + 1, Len(hits))
  BY <1>6 DEF N!BubbleUp, near
<1> QED
  BY <1>7, InsertedBetween

(* The first k of the list, with a row that comes after all the others.    *)
LEMMA HitInserted ==
  ASSUME NEW rows \in Seq(SearchRow), NEW n \in 1 .. Len(rows), NEW T \in SUBSET (1 .. n - 1),
         NEW list, NEW m, NearestFirst(list, m, rows, T), NEW k \in Int, k > 0
  PROVE  N!InsertHit(N!Nearest(rows, T, k), rows[n], k) = N!Nearest(rows, T \union {n}, k)
<1>1. PICK p \in 0 .. m : /\ \A q \in 1 .. m : rows[list[q]].dist <= rows[n].dist <=> q <= p
                          /\ NearestFirst(Inserted(list, m, p, n), m + 1, rows, T \union {n})
  BY InsertedInOrder
<1> DEFINE size == IF m < k THEN m ELSE k
           wide == IF m + 1 < k THEN m + 1 ELSE k
           hits == N!Nearest(rows, T, k)
           new  == Inserted(list, m, p, n)
           h    == rows[n]
<1>2. m \in Nat /\ p \in Nat /\ p <= m /\ size \in Nat /\ wide \in Nat /\ n \in 1 .. Len(rows) /\ Len(rows) \in Nat
  BY DEF NearestFirst
<1>3. T \in SUBSET (1 .. Len(rows)) /\ T \union {n} \in SUBSET (1 .. Len(rows))
  BY <1>2
<1>4. hits = [r \in 1 .. size |-> rows[list[r]]]
  BY <1>3, NearestByRank DEF FirstRows
<1>5. N!Nearest(rows, T \union {n}, k) = [r \in 1 .. wide |-> rows[new[r]]]
  <2> DEFINE all == T \union {n}
             last == m + 1
  <2>1. NearestFirst(new, last, rows, all) /\ all \in SUBSET (1 .. Len(rows))
    BY <1>1, <1>3
  <2> HIDE DEF all, last, new
  <2>2. N!Nearest(rows, all, k) = FirstRows(new, last, rows, k)
    BY <2>1, NearestByRank, ZenonT(60)
  <2> QED
    BY <2>2 DEF all, last, FirstRows
<1>6. h \in SearchRow /\ h.dist \in Int
  BY RowAt
<1>7. \A r \in 1 .. m : rows[list[r]] \in SearchRow /\ rows[list[r]].dist \in Int
  BY <1>3, RowAt DEF NearestFirst
<1> HIDE DEF hits
<1>8. \A r \in 1 .. size : r \in 1 .. m /\ hits[r] = rows[list[r]]
  BY <1>2, <1>4
<1>9. hits \in Seq(SearchRow) /\ Len(hits) = size
  <2>1. \A r \in 1 .. size : rows[list[r]] \in SearchRow
    BY <1>7, <1>8
  <2> HIDE DEF size
  <2> QED
    BY <1>2, <1>4, <2>1
<1>10. \A q \in 1 .. m + 1 : new[q] = IF q <= p THEN list[q] ELSE IF q = p + 1 THEN n ELSE list[q - 1]
  BY DEF Inserted
<1> HIDE DEF new, h
<1>11. CASE m < k
  <2>1. size = m /\ wide = m + 1
    BY <1>2, <1>11
  <2>2. \A q \in 1 .. Len(hits) : hits[q].dist <= h.dist <=> q <= p
    BY <1>1, <1>8, <1>9, <2>1 DEF h
  <2>3. N!BubbleUp(hits, h) = Inserted(hits, m, p, h)
    BY <1>2, <1>6, <1>9, <2>1, <2>2, BubbledUp
  <2>4. N!InsertHit(hits, h, k) = Inserted(hits, m, p, h)
    BY <1>9, <1>11, <2>1, <2>3 DEF N!InsertHit
  <2>5. ASSUME NEW q \in 1 .. m + 1
        PROVE  (IF q <= p THEN hits[q] ELSE IF q = p + 1 THEN h ELSE hits[q - 1]) = rows[new[q]]
    <3>1. (q <= p => q \in 1 .. size) /\ (q > p + 1 => q - 1 \in 1 .. size) /\ (q <= p \/ q = p + 1 \/ q > p + 1)
      BY <1>2, <2>1
    <3> QED
      BY <1>2, <1>8, <1>10, <3>1 DEF h
  <2> QED
    BY <1>5, <2>1, <2>4, <2>5 DEF Inserted, hits, h
<1>12. CASE ~ (m < k) /\ p >= k
  <2>1. size = k /\ wide = k /\ k \in 1 .. m
    BY <1>2, <1>12
  <2>2. hits[Len(hits)].dist <= h.dist /\ hits[Len(hits)].dist \in Int
    BY <1>1, <1>2, <1>7, <1>8, <1>9, <1>12, <2>1 DEF h
  <2>3. ~ (Len(hits) < k) /\ h.dist >= hits[Len(hits)].dist
    BY <1>6, <1>9, <2>1, <2>2
  <2>4. N!InsertHit(hits, h, k) = hits
    BY <2>3 DEF N!InsertHit
  <2>5. ASSUME NEW q \in 1 .. k PROVE rows[list[q]] = rows[new[q]]
    <3>1. q <= p /\ q \in 1 .. m + 1
      BY <1>2, <1>12, <2>1
    <3> QED
      BY <1>10, <3>1
  <2> QED
    BY <1>4, <1>5, <2>1, <2>4, <2>5 DEF hits, h
<1>13. CASE ~ (m < k) /\ p < k
  <2> DEFINE short == SubSeq(hits, 1, Len(hits) - 1)
  <2>1. size = k /\ wide = k /\ k \in 1 .. m /\ ~ (k <= p)
    BY <1>2, <1>13
  <2>2. ~ (hits[Len(hits)].dist <= h.dist) /\ hits[Len(hits)].dist \in Int
    BY <1>1, <1>2, <1>7, <1>8, <1>9, <2>1 DEF h
  <2>3. ~ (Len(hits) < k) /\ ~ (h.dist >= hits[Len(hits)].dist)
    BY <1>6, <1>9, <2>1, <2>2
  <2>4. N!InsertHit(hits, h, k) = N!BubbleUp(short, h)
    BY <2>3 DEF N!InsertHit
  <2>5. /\ short \in Seq(SearchRow) /\ Len(short) = k - 1
        /\ \A i \in 1 .. k - 1 : short[i] = hits[i]
    <3>1. Len(hits) = k /\ k - 1 \in Nat
      BY <1>9, <2>1
    <3>2. \A i \in 1 .. k - 1 : hits[i] \in SearchRow
      BY <1>7, <1>8, <2>1
    <3>3. /\ SubSeq(hits, 1, k - 1) \in Seq(SearchRow)
          /\ Len(SubSeq(hits, 1, k - 1)) = IF 1 <= k - 1 THEN k - 1 - 1 + 1 ELSE 0
          /\ \A i \in 1 .. k - 1 - 1 + 1 : SubSeq(hits, 1, k - 1)[i] = hits[1 + i - 1]
      BY <3>1, <3>2, SubSeqProperties
    <3>4. short = SubSeq(hits, 1, k - 1)
      BY <3>1
    <3> HIDE DEF short
    <3>5. k - 1 - 1 + 1 = k - 1 /\ \A i \in 1 .. k - 1 : 1 + i - 1 = i
      BY <3>1
    <3>6. (IF 1 <= k - 1 THEN k - 1 - 1 + 1 ELSE 0) = k - 1
      BY <3>1
    <3> QED
      BY <3>3, <3>4, <3>5, <3>6
  <2> HIDE DEF short
  <2>6. \A q \in 1 .. Len(short) : short[q].dist <= h.dist <=> q <= p
    <3>1. \A q \in 1 .. k - 1 : q \in 1 .. size /\ q \in 1 .. m
      BY <1>2, <2>1
    <3> QED
      BY <1>1, <1>8, <2>5, <3>1 DEF h
  <2>7. p \in 0 .. Len(short)
    BY <1>2, <1>13, <2>5
  <2>8. N!InsertHit(hits, h, k) = Inserted(short, k - 1, p, h)
    BY <1>6, <2>4, <2>5, <2>6, <2>7, BubbledUp
  <2>9. ASSUME NEW q \in 1 .. k
        PROVE  (IF q <= p THEN short[q] ELSE IF q = p + 1 THEN h ELSE short[q - 1]) = rows[new[q]]
    <3>1. /\ q <= p => q \in 1 .. k - 1 /\ q \in 1 .. size
          /\ q > p + 1 => q - 1 \in 1 .. k - 1 /\ q - 1 \in 1 .. size
          /\ q <= p \/ q = p + 1 \/ q > p + 1
          /\ q \in 1 .. m + 1
      BY <1>2, <1>13, <2>1
    <3> QED
      BY <1>2, <1>8, <1>10, <2>5, <3>1 DEF h
  <2>10. (k - 1) + 1 = k
    OBVIOUS
  <2> QED
    BY <1>5, <2>1, <2>8, <2>9, <2>10 DEF Inserted, hits, h
<1> QED
  BY <1>2, <1>11, <1>12, <1>13 DEF hits, h

-----------------------------------------------------------------------------
(* The scan: the rows up to a place that match, and what it holds of them. *)
Among(rows, filter, n) == {i \in 1 .. n : N!MatchesFilter(rows[i], filter) /\ ~ rows[i].zero}

Unordered(rows, filter) ==
  {n \in 0 .. Len(rows) : \A list, m : ~ NearestFirst(list, m, rows, Among(rows, filter, n))}

LEMMA OneMore ==
  ASSUME NEW rows, NEW filter, NEW n \in Nat \ {0}
  PROVE  /\ Among(rows, filter, n - 1) \in SUBSET (1 .. n - 1)
         /\ Among(rows, filter, n) =
              IF N!MatchesFilter(rows[n], filter) /\ ~ rows[n].zero
              THEN Among(rows, filter, n - 1) \union {n} ELSE Among(rows, filter, n - 1)
<1>1. 1 .. n = (1 .. n - 1) \union {n} /\ n \notin 1 .. n - 1
  OBVIOUS
<1>2. \A i \in 1 .. n : i \in 1 .. n - 1 \/ i = n
  BY <1>1
<1> QED
  BY <1>1, <1>2 DEF Among

LEMMA PrefixOrdered ==
  ASSUME NEW rows \in Seq(SearchRow), NEW filter, NEW n \in 0 .. Len(rows)
  PROVE  \E list, m : NearestFirst(list, m, rows, Among(rows, filter, n))
<1> SUFFICES ASSUME \A list, m : ~ NearestFirst(list, m, rows, Among(rows, filter, n)) PROVE FALSE
  OBVIOUS
<1>1. Unordered(rows, filter) \subseteq Nat /\ n \in Unordered(rows, filter)
  BY DEF Unordered
<1>2. PICK a \in Unordered(rows, filter) : \A b \in Unordered(rows, filter) : a <= b
  BY <1>1, LeastNatural
<1>3. /\ a \in 0 .. Len(rows) /\ Len(rows) \in Nat
      /\ \A list, m : ~ NearestFirst(list, m, rows, Among(rows, filter, a))
  BY <1>2 DEF Unordered
<1>4. a # 0
  <2> SUFFICES ASSUME a = 0 PROVE FALSE
    OBVIOUS
  <2>1. Among(rows, filter, a) = {} /\ 1 .. 0 = {}
    BY DEF Among
  <2>2. NearestFirst([i \in 1 .. 0 |-> 0], 0, rows, {})
    BY <2>1 DEF NearestFirst
  <2> QED
    BY <1>3, <2>1, <2>2
<1>5. a \in Nat \ {0} /\ a \in 1 .. Len(rows) /\ a - 1 \in 0 .. Len(rows) /\ ~ (a <= a - 1)
  BY <1>3, <1>4
<1>6. PICK list, m : NearestFirst(list, m, rows, Among(rows, filter, a - 1))
  BY <1>2, <1>5 DEF Unordered
<1>7. CASE N!MatchesFilter(rows[a], filter) /\ ~ rows[a].zero
  <2>1. Among(rows, filter, a) = Among(rows, filter, a - 1) \union {a}
    BY <1>5, <1>7, OneMore
  <2>2. \E p \in 0 .. m : NearestFirst(Inserted(list, m, p, a), m + 1, rows, Among(rows, filter, a - 1) \union {a})
    BY <1>5, <1>6, OneMore, InsertedInOrder
  <2> QED
    BY <1>3, <2>1, <2>2
<1>8. CASE ~ (N!MatchesFilter(rows[a], filter) /\ ~ rows[a].zero)
  BY <1>3, <1>5, <1>6, <1>8, OneMore
<1> QED
  BY <1>7, <1>8

(* The bounded scan finds the nearest of all rows that match.              *)
LEMMA ScanNearest ==
  ASSUME NEW rows \in Seq(SearchRow), NEW k \in Int, NEW filter
  PROVE  N!ScanIsNearest(rows, k, filter)
<1>1. CASE k <= 0
  BY <1>1 DEF N!ScanIsNearest, N!SqliteSearch
<1>2. CASE ~ (k <= 0)
  <2> DEFINE body(f, n) ==
               IF n = 0 THEN <<>>
               ELSE IF N!MatchesFilter(rows[n], filter) /\ ~ rows[n].zero
                    THEN N!InsertHit(f[n - 1], rows[n], k) ELSE f[n - 1]
             scan == CHOOSE f : f = [n \in 0 .. Len(rows) |-> body(f, n)]
             best == [n \in 0 .. Len(rows) |-> N!Nearest(rows, Among(rows, filter, n), k)]
  <2>1. N!SqliteSearch(rows, k, filter) = scan[Len(rows)]
    BY <1>2 DEF N!SqliteSearch
  <2>2. k > 0 /\ Len(rows) \in Nat
    BY <1>2
  <2>3. \A n \in 0 .. Len(rows) : n = 0 \/ (n \in Nat \ {0} /\ n \in 1 .. Len(rows) /\ n - 1 \in 0 .. Len(rows))
    BY <2>2
  <2>4. best[0] = <<>>
    <3>1. Among(rows, filter, 0) = {} /\ Cardinality({}) = 0 /\ 0 \in 0 .. Len(rows)
      BY <2>2, FS_EmptySet DEF Among
    <3>2. N!Nearest(rows, {}, k) = [r \in 1 .. 0 |-> rows[CHOOSE i \in {} : N!Rank(rows, {}, i) = r]]
      BY <2>2, <3>1, SearchCounted DEF N!Nearest
    <3>3. N!Nearest(rows, {}, k) = <<>>
      BY <3>2
    <3> QED
      BY <3>1, <3>3
  <2>5. ASSUME NEW n \in 0 .. Len(rows) PROVE best[n] = body(best, n)
    <3>1. CASE n = 0
      BY <2>4, <3>1
    <3>2. CASE n # 0
      <4>1. n \in Nat \ {0} /\ n \in 1 .. Len(rows) /\ n - 1 \in 0 .. Len(rows)
        BY <2>3, <3>2
      <4>2. /\ best[n] = N!Nearest(rows, Among(rows, filter, n), k)
            /\ best[n - 1] = N!Nearest(rows, Among(rows, filter, n - 1), k)
        BY <4>1
      <4> HIDE DEF best
      <4>3. PICK list, m : NearestFirst(list, m, rows, Among(rows, filter, n - 1))
        BY <4>1, PrefixOrdered
      <4>4. N!InsertHit(best[n - 1], rows[n], k) = N!Nearest(rows, Among(rows, filter, n - 1) \union {n}, k)
        <5> DEFINE T == Among(rows, filter, n - 1)
        <5>1. T \in SUBSET (1 .. n - 1) /\ NearestFirst(list, m, rows, T)
          BY <4>1, <4>3, OneMore
        <5> HIDE DEF T
        <5>2. N!InsertHit(N!Nearest(rows, T, k), rows[n], k) = N!Nearest(rows, T \union {n}, k)
          BY <2>2, <4>1, <5>1, HitInserted
        <5> QED
          BY <4>2, <5>2 DEF T
      <4> QED
        BY <3>2, <4>1, <4>2, <4>4, OneMore
    <3> QED
      BY <3>1, <3>2
  <2>6. best = [n \in 0 .. Len(rows) |-> body(best, n)]
    <3>1. best = [n \in 0 .. Len(rows) |-> best[n]]
      OBVIOUS
    <3> HIDE DEF best, body
    <3> QED
      BY <2>5, <3>1
  <2>7. scan = [n \in 0 .. Len(rows) |-> body(scan, n)]
    <3> DEFINE solves(f) == f = [n \in 0 .. Len(rows) |-> body(f, n)]
    <3>1. solves(best)
      BY <2>6
    <3>2. scan = CHOOSE f : solves(f)
      OBVIOUS
    <3> HIDE DEF solves, scan, best
    <3>3. solves(scan)
      BY <3>1, <3>2
    <3> QED
      BY <3>3 DEF solves
  <2> HIDE DEF scan, best
  <2>8. \A n \in 0 .. Len(rows) : scan[n] = body(scan, n)
    <3> HIDE DEF body
    <3> QED
      BY <2>7
  <2> DEFINE wrong == {n \in 0 .. Len(rows) : scan[n] # best[n]}
  <2>9. wrong = {}
    <3> SUFFICES ASSUME wrong # {} PROVE FALSE
      OBVIOUS
    <3>1. wrong \subseteq Nat
      BY <2>2
    <3>2. PICK n \in wrong : \A other \in wrong : n <= other
      <4> HIDE DEF wrong
      <4> QED
        BY <3>1, LeastNatural
    <3>3. n \in 0 .. Len(rows) /\ scan[n] # best[n]
      BY <3>2
    <3>4. n # 0 => scan[n - 1] = best[n - 1]
      <4>1. n # 0 => n - 1 \in 0 .. Len(rows) /\ ~ (n <= n - 1)
        BY <2>2, <3>3
      <4> QED
        BY <3>2, <4>1
    <3> QED
      BY <2>5, <2>8, <3>3, <3>4
  <2>10. scan[Len(rows)] = best[Len(rows)] /\ Len(rows) \in 0 .. Len(rows)
    BY <2>2, <2>9
  <2>11. N!Fitting(rows, filter) = Among(rows, filter, Len(rows))
    BY DEF N!Fitting, Among
  <2> QED
    BY <1>2, <2>1, <2>10, <2>11 DEF N!ScanIsNearest, best
<1> QED
  BY <1>1, <1>2

(* The places that a server compares are those that the scan does, and a   *)
(* score that was made of a distance is turned back into it.               *)
LEMMA EqualFits ==
  ASSUME NEW rows \in Seq(SearchRow), NEW filter \in SUBSET N!Value,
         \A i \in DOMAIN rows : ~ rows[i].zero, \A v \in filter : v.type = "string"
  PROVE  /\ N!Equal(rows, filter) = N!Fitting(rows, filter)
         /\ N!Fitting(rows, {}) = DOMAIN rows
<1>1. ASSUME NEW want \in filter, NEW got PROVE N!ValuesEqual(got, want) <=> got = want
  BY DEF N!ValuesEqual, N!Number
<1>2. ASSUME NEW i \in DOMAIN rows
      PROVE  filter \subseteq rows[i].meta <=> N!MatchesFilter(rows[i], filter)
  BY <1>1 DEF N!MatchesFilter
<1>3. \A i \in DOMAIN rows : N!MatchesFilter(rows[i], {})
  BY DEF N!MatchesFilter
<1> QED
  BY <1>2, <1>3 DEF N!Equal, N!Fitting

LEMMA NearestHits ==
  ASSUME NEW rows \in Seq(SearchRow), NEW k \in Int, k > 0, NEW places \in SUBSET (1 .. Len(rows))
  PROVE  LET c == Cardinality(places)
         IN /\ c \in Nat
            /\ DOMAIN N!Nearest(rows, places, k) = 1 .. (IF c < k THEN c ELSE k)
            /\ Len(N!Nearest(rows, places, k)) = (IF c < k THEN c ELSE k)
<1>1. IsFiniteSet(1 .. Len(rows))
  BY FS_Interval
<1>2. IsFiniteSet(places)
  BY <1>1, FS_Subset
<1>3. Cardinality(places) \in Nat
  BY <1>2, FS_CardinalityType
<1> DEFINE size == IF Cardinality(places) < k THEN Cardinality(places) ELSE k
           hits == N!Nearest(rows, places, k)
<1>4. size \in Nat
  BY <1>3
<1>5. hits = [r \in 1 .. size |-> rows[CHOOSE i \in places : N!Rank(rows, places, i) = r]]
  BY SearchCounted DEF N!Nearest
<1>6. DOMAIN hits = 1 .. size /\ Len(hits) = size
  <2> HIDE DEF size
  <2>1. DOMAIN hits = 1 .. size
    BY <1>5
  <2> QED
    BY <1>4, <1>5, <2>1
<1> QED
  BY <1>3, <1>6

(* Whoever changes the adapter gets the distances it got before.           *)
LEMMA AdaptersCompare ==
  ASSUME NEW rows \in Seq(SearchRow), NEW k \in Int, NEW filter \in SUBSET N!Value
  PROVE  N!AdaptersAgree(rows, k, filter)
<1> SUFFICES ASSUME k > 0, \A i \in DOMAIN rows : ~ rows[i].zero, \A v \in filter : v.type = "string"
             PROVE  LET scan == N!Distances(N!SqliteSearch(rows, k, filter))
                    IN /\ N!Distances(N!ChromaSearch(rows, k, filter)) = scan
                       /\ N!Distances(N!QdrantSearch(rows, k, filter, "Cosine")) = scan
                       /\ IF filter = {} THEN N!Distances(N!PgvectorSearch(rows, k, filter)) = scan
                          ELSE Len(N!PgvectorSearch(rows, k, filter)) >= Len(scan)
  BY DEF N!AdaptersAgree
<1> DEFINE fits == N!Fitting(rows, filter)
           hits == N!Nearest(rows, fits, k)
           texts == {i \in DOMAIN rows : \A want \in filter : \E got \in rows[i].meta : got.is = want.is}
<1>1. N!Limit(k) = k /\ ~ (k <= 0) /\ DOMAIN rows = 1 .. Len(rows) /\ Len(rows) \in Nat
  BY DEF N!Limit
<1>2. N!SqliteSearch(rows, k, filter) = hits
  BY <1>1, ScanNearest DEF N!ScanIsNearest
<1>3. N!ChromaSearch(rows, k, filter) = hits
  BY <1>1, EqualFits DEF N!ChromaSearch
<1>4. fits \in SUBSET (1 .. Len(rows)) /\ texts \in SUBSET (1 .. Len(rows))
  BY <1>1 DEF N!Fitting
<1>5. \A i \in DOMAIN hits : hits[i] \in SearchRow /\ hits[i].dist \in Int
  <2>1. fits = Among(rows, filter, Len(rows)) /\ Len(rows) \in 0 .. Len(rows)
    BY <1>1 DEF N!Fitting, Among
  <2>2. PICK list, m : NearestFirst(list, m, rows, fits)
    BY <2>1, PrefixOrdered
  <2> HIDE DEF fits
  <2> HIDE DEF texts
  <2>3. hits = FirstRows(list, m, rows, k)
    BY <1>4, <2>2, NearestByRank, ZenonT(60)
  <2>4. ASSUME NEW r \in 1 .. (IF m < k THEN m ELSE k) PROVE list[r] \in 1 .. Len(rows)
    <3>1. m \in Nat /\ list \in [1 .. m -> fits]
      BY <2>2 DEF NearestFirst
    <3>2. r \in 1 .. m
      BY <3>1
    <3> QED
      BY <1>4, <3>1, <3>2
  <2> QED
    BY <2>3, <2>4, RowAt DEF FirstRows
<1>6. N!Distances(N!QdrantSearch(rows, k, filter, "Cosine")) = N!Distances(hits)
  <2> DEFINE turned == [i \in DOMAIN hits |-> [hits[i] EXCEPT !.dist = 1 - (1 - hits[i].dist)]]
  <2>1. N!QdrantSearch(rows, k, filter, "Cosine") = turned
    BY <1>1, EqualFits DEF N!QdrantSearch, N!Score, N!Distance
  <2>2. \A i \in DOMAIN hits : turned[i].dist = hits[i].dist
    <3> HIDE DEF hits
    <3> QED
      BY <1>5 DEF SearchRow
  <2>3. DOMAIN turned = DOMAIN hits
    OBVIOUS
  <2> HIDE DEF turned, hits
  <2> QED
    BY <2>1, <2>2, <2>3 DEF N!Distances
<1>7. N!PgvectorSearch(rows, k, filter) = N!Nearest(rows, texts, k)
  BY <1>1 DEF N!PgvectorSearch
<1>8. CASE filter = {}
  <2>1. texts = fits
    BY <1>8, EqualFits
  <2> QED
    BY <1>2, <1>3, <1>6, <1>7, <1>8, <2>1
<1>9. CASE filter # {}
  <2>1. fits \subseteq texts
    BY EqualFits DEF N!Equal
  <2>2. IsFiniteSet(texts)
    BY <1>4, FS_Interval, FS_Subset
  <2> DEFINE c == Cardinality(fits)
             t == Cardinality(texts)
  <2>3. c <= t
    BY <2>1, <2>2, FS_Subset
  <2> HIDE DEF fits, texts
  <2>4. /\ c \in Nat /\ t \in Nat
        /\ Len(N!Nearest(rows, texts, k)) = (IF t < k THEN t ELSE k)
        /\ DOMAIN hits = 1 .. (IF c < k THEN c ELSE k)
    BY <1>4, NearestHits
  <2>5. Len(N!Distances(hits)) = (IF c < k THEN c ELSE k)
    <3> DEFINE size == IF c < k THEN c ELSE k
    <3>1. size \in Nat
      BY <2>4
    <3>2. N!Distances(hits) = [i \in 1 .. size |-> hits[i].dist]
      BY <2>4 DEF N!Distances
    <3> HIDE DEF size, hits
    <3>3. Len(N!Distances(hits)) = size
      BY <3>1, <3>2
    <3> QED
      BY <3>3 DEF size
  <2>6. (IF t < k THEN t ELSE k) >= (IF c < k THEN c ELSE k)
    <3> HIDE DEF c, t
    <3> QED
      BY <2>3, <2>4
  <2> QED
    BY <1>2, <1>3, <1>6, <1>7, <1>9, <2>4, <2>5, <2>6
<1> QED
  BY <1>8, <1>9

-----------------------------------------------------------------------------
(* The models: the first adapter that can serve has a model that can.      *)
LEMMA FirstNumber ==
  ASSUME NEW T \in SUBSET Nat, T # {}
  PROVE  P!Min(T) \in T
<1>1. \E x \in T : \A y \in T : x <= y
  BY LeastNatural
<1>2. P!Min(T) = CHOOSE x \in T : \A y \in T : x <= y
  BY DEF P!Min
<1> QED
  BY <1>1, <1>2

Catalog(Names) == Seq([id : Names, caps : SUBSET {"text", "embeddings"}])

LEMMA FirstServes ==
  ASSUME NEW Names, None \notin Names, NEW cap, NEW adapters \in Seq(Catalog(Names))
  PROVE  LET a == P!FirstAdapter(adapters, cap)
             model == P!FirstModel(a, cap)
         IN IF \E i \in DOMAIN adapters : P!Offers(adapters[i], cap)
            THEN a # P!ModelNone /\ model \in Names /\ P!CanServe(a, model, cap)
            ELSE a = P!ModelNone /\ model = None
<1> DEFINE able == {i \in DOMAIN adapters : P!Offers(adapters[i], cap)}
           a == P!FirstAdapter(adapters, cap)
           model == P!FirstModel(a, cap)
<1>1. a = IF able = {} THEN P!ModelNone ELSE adapters[P!Min(able)]
  BY DEF P!FirstAdapter
<1>2. ~ P!Offers(P!ModelNone, cap)
  BY DEF P!Offers, P!Able, P!ModelNone
<1>3. CASE able = {}
  <2>1. a = P!ModelNone /\ model = None
    BY <1>1, <1>2, <1>3 DEF P!FirstModel
  <2> QED
    BY <1>3, <2>1
<1>4. CASE able # {}
  <2>1. able \in SUBSET Nat
    OBVIOUS
  <2>2. P!Min(able) \in able
    <3> HIDE DEF able
    <3> QED
      BY <1>4, <2>1, FirstNumber
  <2>3. a \in Catalog(Names) /\ P!Offers(a, cap)
    BY <1>1, <1>4, <2>2
  <2> DEFINE can == P!Able(a, cap)
  <2>4. can # {} /\ can \in SUBSET (1 .. Len(a))
    BY <2>3 DEF P!Offers, P!Able, Catalog
  <2>5. P!Min(can) \in can
    <3> HIDE DEF can
    <3>1. can \in SUBSET Nat
      BY <2>4
    <3> QED
      BY <2>4, <3>1, FirstNumber
  <2>6. model = a[P!Min(can)].id
    BY <2>3 DEF P!FirstModel
  <2> HIDE DEF a
  <2>7. cap \in a[P!Min(can)].caps /\ P!Min(can) \in DOMAIN a
    BY <2>5 DEF P!Able
  <2>8. model \in Names
    <3> DEFINE i == P!Min(can)
    <3>1. i \in DOMAIN a
      BY <2>7
    <3> HIDE DEF i
    <3> DEFINE Model == [id : Names, caps : SUBSET {"text", "embeddings"}]
    <3>2. a[i] \in Model
      <4>1. a \in Seq(Model)
        BY <2>3 DEF Catalog
      <4> HIDE DEF Model
      <4> QED
        BY <3>1, <4>1
    <3>3. a[i].id \in Names
      BY <3>2
    <3> QED
      BY <2>6, <3>3 DEF i
  <2>9. P!CanServe(a, model, cap)
    BY <2>6, <2>7 DEF P!CanServe
  <2>10. \E i \in DOMAIN adapters : P!Offers(adapters[i], cap)
    BY <1>4
  <2>11. a # P!ModelNone
    BY <1>2, <2>3
  <2> HIDE DEF model
  <2> QED
    BY <2>8, <2>9, <2>10, <2>11 DEF model, a
<1> QED
  BY <1>3, <1>4

LEMMA ModelsPicked ==
  ASSUME NEW Names, None \notin Names, "unknown" \notin Names, NEW adapters \in Seq(Catalog(Names)), NEW k \in Int
  PROVE  P!OneSpace(adapters, k) /\ P!CallServed(adapters)
<1> DEFINE a == P!EmbeddingAdapter(adapters)
           model == P!FirstModel(a, "embeddings")
<1>1. P!QueryModel(adapters, None) = model /\ P!EntryModel(adapters) = model
  BY DEF P!QueryModel, P!EntryModel
<1>2. \/ model \in Names /\ P!CanServe(a, model, "embeddings")
      \/ model = None
  BY FirstServes DEF P!EmbeddingAdapter
<1>3. P!Clamp(k) \in 1 .. 100
  BY DEF P!Clamp
<1> HIDE DEF a, model
<1>4. P!MemoryQuery(adapters, "q", None, k)
        = IF model = None THEN P!Answer("unavailable", None, 0) ELSE P!Answer("hits", model, P!Clamp(k))
  BY <1>1, <1>2 DEF P!MemoryQuery, a
<1>5. P!OneSpace(adapters, k)
  BY <1>1, <1>3, <1>4 DEF P!OneSpace, P!Answer
<1> DEFINE g == P!GenerativeAdapter(adapters)
           by == P!FirstModel(g, "text")
<1>6. IF \E i \in DOMAIN adapters : P!Offers(adapters[i], "text")
      THEN g # P!ModelNone /\ by \in Names /\ P!CanServe(g, by, "text")
      ELSE g = P!ModelNone /\ by = None
  BY FirstServes DEF P!GenerativeAdapter
<1>7. <<"hi">> # <<>>
  OBVIOUS
<1> HIDE DEF g, by
<1>8. P!ModelCall(adapters, <<"hi">>, None)
        = IF by = None \/ g = P!ModelNone THEN P!Answer("unavailable", None, 0)
          ELSE IF ~ P!CanServe(g, by, "text") THEN P!Answer("backend", by, 0)
          ELSE P!Answer("text", by, 0)
  BY <1>7 DEF P!ModelCall, g, by
<1>9. P!CallServed(adapters)
  BY <1>6, <1>8 DEF P!CallServed, P!Answer
<1> QED
  BY <1>5, <1>9

(* The inputs of a run stay what they were.                                *)
LEMMA InputsKept == Spec => [](/\ part = "search" => SearchInput(input)
                               /\ part = "model" => ModelInput(input))
<1> DEFINE Inputs == /\ part = "search" => SearchInput(input)
                     /\ part = "model" => ModelInput(input)
<1>1. Init => Inputs
  <2> SUFFICES ASSUME Init PROVE Inputs
    OBVIOUS
  <2>1. CASE part = "search"
    BY <2>1 DEF Init
  <2>2. CASE part = "model"
    BY <2>2 DEF Init
  <2> QED
    BY <2>1, <2>2
<1>2. Inputs /\ [Next]_allVars => Inputs'
  <2>1. [Next]_allVars => UNCHANGED <<part, input>>
    BY DEF Next, allVars
  <2> QED
    BY <2>1 DEF SearchInput, ModelInput
<1> HIDE DEF Inputs
<1>3. Spec => []Inputs
  BY <1>1, <1>2, PTL DEF Spec
<1> QED
  BY <1>3 DEF Inputs

LEMMA SearchInputTyped ==
  ASSUME SearchInput(input)
  PROVE  input.rows \in Seq(SearchRow) /\ input.k \in Int /\ input.filter \in SUBSET N!Value
<1>1. PICK rows \in UNION {[1 .. n -> Rows] : n \in 0 .. 3}, k \in -1 .. 3,
           filter \in {{}, {[type |-> "float", is |-> "1"]}, {[type |-> "string", is |-> "1"]}} :
        input = [rows |-> rows, k |-> k, filter |-> filter]
  BY DEF SearchInput
<1>2. \A type \in {"int", "float", "string"} : [type |-> type, is |-> "1"] \in N!Value
  BY DEF N!Value
<1>3. filter \in SUBSET N!Value
  BY <1>2
<1>4. Rows \subseteq SearchRow
  <2>1. {{}, {[type |-> "int", is |-> "1"]}, {[type |-> "string", is |-> "1"]}} \subseteq SUBSET N!Value
    BY <1>2
  <2>2. {{}} \subseteq SUBSET N!Value /\ {FALSE} \subseteq BOOLEAN /\ {TRUE} \subseteq BOOLEAN
        /\ 1 .. 2 \subseteq Int /\ {1} \subseteq Int
    OBVIOUS
  <2> QED
    BY <2>1, <2>2 DEF Rows, SearchRow
<1>5. rows \in Seq(SearchRow)
  <2>1. PICK n \in 0 .. 3 : rows \in [1 .. n -> Rows]
    OBVIOUS
  <2>2. rows \in [1 .. n -> SearchRow]
    BY <1>4, <2>1
  <2> HIDE DEF SearchRow
  <2> QED
    BY <2>2
<1> QED
  BY <1>1, <1>3, <1>5

LEMMA ModelInputTyped ==
  ASSUME ModelInput(input)
  PROVE  input.adapters \in Seq(Catalog(ModelId)) /\ input.k \in Int
<1>1. PICK adapters \in UNION {[1 .. n -> Catalogs] : n \in 0 .. 2}, k \in {0, 1, 101} :
        input = [adapters |-> adapters, k |-> k]
  BY DEF ModelInput
<1> DEFINE Model == [id : ModelId, caps : SUBSET {"text", "embeddings"}]
<1>2. Models \subseteq Model
  BY DEF Models
<1> HIDE DEF Model
<1>3. Catalogs \subseteq Seq(Model)
  <2> SUFFICES ASSUME NEW n \in 0 .. 2, NEW c \in [1 .. n -> Models] PROVE c \in Seq(Model)
    BY DEF Catalogs
  <2>1. c \in [1 .. n -> Model]
    BY <1>2
  <2> QED
    BY <2>1
<1>4. Catalogs \subseteq Catalog(ModelId)
  BY <1>3 DEF Catalog, Model
<1>5. adapters \in Seq(Catalog(ModelId))
  <2> DEFINE All == Catalog(ModelId)
  <2>1. PICK n \in 0 .. 2 : adapters \in [1 .. n -> Catalogs]
    OBVIOUS
  <2>2. adapters \in [1 .. n -> All]
    BY <1>4, <2>1
  <2> HIDE DEF All
  <2>3. adapters \in Seq(All)
    BY <2>2
  <2> QED
    BY <2>3 DEF All
<1> QED
  BY <1>1, <1>5

(* A search finds the nearest rows, whichever adapter holds them, and a    *)
(* query or a call that names no model finds one that can serve it: each   *)
(* lemma above is about any rows, any filter and any adapters.             *)
THEOREM SearchesFind == Spec => []SearchFinds
<1>1. (part = "search" => SearchInput(input)) /\ (part = "model" => ModelInput(input)) => SearchFinds
  <2> SUFFICES ASSUME part = "search" => SearchInput(input), part = "model" => ModelInput(input)
               PROVE  SearchFinds
    OBVIOUS
  <2>1. part = "search" => /\ N!ScanIsNearest(input.rows, input.k, input.filter)
                           /\ N!AdaptersAgree(input.rows, input.k, input.filter)
    BY SearchInputTyped, ScanNearest, AdaptersCompare
  <2>2. "unknown" \notin ModelId /\ None \notin ModelId
    BY NoModel DEF ModelId
  <2>3. part = "model" => P!OneSpace(input.adapters, input.k) /\ P!CallServed(input.adapters)
    BY <2>2, ModelInputTyped, ModelsPicked
  <2> QED
    BY <2>1, <2>3 DEF SearchFinds
<1> QED
  BY <1>1, InputsKept, PTL
=============================================================================
