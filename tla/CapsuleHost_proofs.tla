------------------------- MODULE CapsuleHost_proofs -------------------------
(***************************************************************************)
(* Proofs about CapsuleHost and the installer below it, for any console    *)
(* requests, command line processes, capsules and permissions, and any     *)
(* number of calls.                                                        *)
(***************************************************************************)
EXTENDS CapsuleHost, TLAPS

-----------------------------------------------------------------------------
(***************************************************************************)
(* The inductive invariant.  A call belongs to one worker at a time.  An   *)
(* install has in hand exactly the grants that were issued under its call, *)
(* nobody but an uninstall that listed them has revoked one before it is   *)
(* rolled back, and what a rollback has left to revoke is all that is      *)
(* active.  An uninstall goes on only when what it listed is revoked.  A   *)
(* client has the number of the call that spawned it, so a ticker that is  *)
(* not cancelled is the one in the scheduler's map.                        *)
(***************************************************************************)
Label   == Installing \union Removing \union Starting \union Stopping \union Nameless
Spawned == Starting \ {"start", "spawn"}

By(n) == {g \in DOMAIN grants : grants[g].by = n}
Recorded(n) == \E c \in Capsule : record[c] # None /\ record[c] = n
Live(k) == tick[k] \in {"waiting", "syncing", "calling"} /\ k \notin cancelled

Tables ==
  /\ \A c \in Capsule : record[c] # None =>
       /\ record[c] \in 1 .. calls
       /\ Cardinality(By(record[c])) = Permissions
       /\ record[c] \notin cut => By(record[c]) = Active(record[c])
  /\ \A g \in DOMAIN grants : grants[g].by \in 1 .. calls
  /\ \A n \in undone : n \in 1 .. calls /\ Active(n) = {}

HostTables ==
  /\ \A k \in Client : k > calls => tick[k] = "none"
  /\ \A c \in Capsule : running[c] # 0 => owner[running[c]] \in Capsule
  /\ \A k \in Client : Live(k) => owner[k] \in Capsule /\ ticker[owner[k]] = k

Located(o) ==
  /\ o.at \notin Nameless => o.name \in Capsule
  /\ o.at # "idle" => o.call \in 1 .. calls
  /\ o.then = "start" => o.at \in Installing
  /\ o.then = "remove" => o.at \in Stopping
  /\ o.then = "stopNext" => o.at \in Stopping \ {"stop"}

Installs(o) ==
  o.at \in Installing =>
    /\ o.own = By(o.call)
    /\ o.call \notin undone
    /\ o.at \in {"get", "copy", "issue", "insert"} =>
         ~ Recorded(o.call) /\ (o.call \notin cut => By(o.call) = Active(o.call))
    /\ o.at = "insert" => Cardinality(o.own) = Permissions
    /\ o.at = "rollback" =>
         /\ Recorded(o.call) => o.call \in cut
         /\ o.rest \subseteq o.own /\ Active(o.call) \subseteq o.rest

Removes(o) ==
  o.at \in {"revoke", "delete", "unregister", "removeCode"} =>
    /\ o.own \subseteq DOMAIN grants
    /\ o.at = "revoke" => o.rest \subseteq o.own
    /\ \A g \in o.own : grants[g].by \in cut
    /\ \A g \in o.own : grants[g].active => o.at = "revoke" /\ g \in o.rest

Hosts(o) ==
  /\ o.at \in Spawned => o.client = o.call /\ owner[o.client] = o.name
  /\ o.at \in Installing \union {"start", "spawn"} => tick[o.call] = "none"
  /\ "stopNext" \in {o.at, o.then} => \A k \in o.own : k \in Client /\ owner[k] \in Capsule

InHand(w) == Located(op[w]) /\ Installs(op[w]) /\ Removes(op[w]) /\ Hosts(op[w])

OneCaller == \A w, v \in Worker : op[w].at # "idle" /\ op[v].at # "idle" /\ op[w].call = op[v].call => w = v

IInv ==
  /\ HostTypeOK
  /\ Tables
  /\ HostTables
  /\ \A w \in Worker : InHand(w)
  /\ OneCaller

-----------------------------------------------------------------------------
(* What a step of call n leaves to the workers of other calls. *)
KeptBut(n) ==
  /\ calls' \in Nat /\ calls <= calls'
  /\ cut \subseteq cut' /\ undone' \subseteq undone \union {n}
  /\ \A m \in Call \ {n} : By(m)' = By(m) /\ (Recorded(m)' => Recorded(m))
  /\ \A g \in DOMAIN grants :
       /\ g \in DOMAIN grants' /\ grants'[g].by = grants[g].by
       /\ grants'[g].active => grants[g].active
       /\ grants[g].active /\ ~ grants'[g].active => grants[g].by \in cut' \union {n}

HostKeptBut(n) ==
  /\ \A k \in Client \ {n} : owner'[k] = owner[k] /\ (tick[k] = "none" => tick'[k] = "none")
  /\ \A k \in Client : owner[k] \in Capsule => owner'[k] \in Capsule

(* The worker goes on to a state that is its operation's alone. *)
Moves(w) ==
  /\ op' \in [Worker -> Operation]
  /\ calls' = calls
  /\ \A v \in Worker \ {w} : op'[v] = op[v]

Ends(w) == Moves(w) /\ op'[w] = Idle

GoesTo(w, label, own, rest) ==
  /\ Moves(w)
  /\ op'[w].at = label /\ op'[w].own = own /\ op'[w].rest = rest
  /\ op'[w].name = op[w].name /\ op'[w].call = op[w].call /\ op'[w].then = op[w].then
  /\ op'[w].client = op[w].client

LEMMA CallsAreNat == IInv => calls \in Nat /\ 1 .. calls \subseteq Call
BY CapsuleAssumption DEF IInv, HostTypeOK, InstallTypeOK, Call

LEMMA IdleIsOperation == Idle \in Operation
BY DEF Idle, Operation, Nameless

LEMMA GotoMoves ==
  ASSUME op \in [Worker -> Operation], NEW w \in Worker, NEW o \in Operation, Goto(w, o)
  PROVE  Moves(w) /\ op'[w] = o
BY DEF Goto, Moves

LEMMA GiveEnds ==
  ASSUME op \in [Worker -> Operation], NEW w \in Worker, Give(w)
  PROVE  Ends(w)
BY GotoMoves, IdleIsOperation DEF Give, Ends


(* The three forms in which the installer's steps write an operation. *)
LEMMA AtMoves ==
  ASSUME op \in [Worker -> Operation], NEW w \in Worker, NEW label \in Label, At(w, label)
  PROVE  GoesTo(w, label, op[w].own, op[w].rest)
<1> DEFINE o == [op[w] EXCEPT !.at = label]
<1>1. op[w] \in Operation
  OBVIOUS
<1>2. o \in Operation /\ o.at = label /\ o.own = op[w].own /\ o.rest = op[w].rest /\ o.name = op[w].name
      /\ o.call = op[w].call /\ o.then = op[w].then /\ o.client = op[w].client
  BY <1>1 DEF Operation, Label
<1>3. Goto(w, o)
  BY DEF At
<1> HIDE DEF o
<1> QED
  BY <1>2, <1>3, GotoMoves DEF GoesTo

LEMMA RollbackMoves ==
  ASSUME op \in [Worker -> Operation], NEW w \in Worker, NEW rest \in SUBSET Nat, NEW label \in Label,
         Goto(w, [op[w] EXCEPT !.at = label, !.rest = rest])
  PROVE  GoesTo(w, label, op[w].own, rest)
<1> DEFINE o == [op[w] EXCEPT !.at = label, !.rest = rest]
<1>1. op[w] \in Operation
  OBVIOUS
<1>2. o \in Operation /\ o.at = label /\ o.own = op[w].own /\ o.rest = rest /\ o.name = op[w].name
      /\ o.call = op[w].call /\ o.then = op[w].then /\ o.client = op[w].client
  BY <1>1 DEF Operation, Label
<1>3. Goto(w, o)
  OBVIOUS
<1> HIDE DEF o
<1> QED
  BY <1>2, <1>3, GotoMoves DEF GoesTo

LEMMA RestMoves ==
  ASSUME op \in [Worker -> Operation], NEW w \in Worker, NEW g \in op[w].rest,
         Goto(w, [op[w] EXCEPT !.rest = @ \ {g}])
  PROVE  GoesTo(w, op[w].at, op[w].own, op[w].rest \ {g})
<1> DEFINE o == [op[w] EXCEPT !.rest = @ \ {g}]
<1>1. op[w] \in Operation
  OBVIOUS
<1>2. o \in Operation /\ o.at = op[w].at /\ o.own = op[w].own /\ o.rest = op[w].rest \ {g} /\ o.name = op[w].name
      /\ o.call = op[w].call /\ o.then = op[w].then /\ o.client = op[w].client
  BY <1>1 DEF Operation, Label
<1>3. Goto(w, o)
  OBVIOUS
<1> HIDE DEF o
<1> QED
  BY <1>2, <1>3, GotoMoves DEF GoesTo

LEMMA ReturnMoves ==
  ASSUME op \in [Worker -> Operation], NEW w \in Worker, Return(w)
  PROVE  /\ op[w].then = "idle" => Ends(w)
         /\ op[w].then # "idle" =>
              /\ Moves(w)
              /\ op'[w].at = op[w].then /\ op'[w].then = "idle"
              /\ op'[w].own = op[w].own /\ op'[w].rest = op[w].rest /\ op'[w].name = op[w].name
              /\ op'[w].call = op[w].call /\ op'[w].client = op[w].client
<1> DEFINE o == [op[w] EXCEPT !.at = op[w].then, !.then = "idle"]
<1>1. op[w] \in Operation
  OBVIOUS
<1>a. op[w].then \in Label
  BY <1>1 DEF Operation, Label, Nameless, Starting, Removing
<1>2. o \in Operation /\ o.at = op[w].then /\ o.then = "idle" /\ o.own = op[w].own /\ o.rest = op[w].rest
      /\ o.name = op[w].name /\ o.call = op[w].call /\ o.client = op[w].client
  BY <1>1, <1>a DEF Operation, Label
<1>3. CASE op[w].then = "idle"
  <2>1. Goto(w, Idle)
    BY <1>3 DEF Return
  <2> QED
    BY <2>1, <1>3, GotoMoves, IdleIsOperation DEF Ends
<1>4. CASE op[w].then # "idle"
  <2>1. Goto(w, o)
    BY <1>4 DEF Return
  <2> HIDE DEF o
  <2> QED
    BY <2>1, <1>2, <1>4, GotoMoves
<1> QED
  BY <1>3, <1>4

-----------------------------------------------------------------------------
(* A worker of another call has in hand what it had. *)
LEMMA StaysInHand ==
  ASSUME IInv, NEW n, KeptBut(n), HostKeptBut(n),
         NEW v \in Worker, op'[v] = op[v], op[v].at # "idle" => op[v].call # n
  PROVE  InHand(v)'
<1> DEFINE k == op[v].call
<1>1. InHand(v) /\ op[v] \in Operation
  BY DEF IInv, HostTypeOK, InstallTypeOK
<1>2. calls \in Nat /\ 1 .. calls \subseteq Call /\ 1 .. calls \subseteq 1 .. calls'
  BY CallsAreNat DEF KeptBut
<1>3. Located(op[v])'
  BY <1>1, <1>2 DEF InHand, Located
<1>4. Installs(op[v])'
  <2> SUFFICES ASSUME op[v].at \in Installing
      PROVE  Installs(op[v])'
    BY DEF Installs
  <2>1. op[v].at # "idle" /\ k \in Call \ {n}
    BY <1>1, <1>2 DEF InHand, Located, Installing
  <2>2. By(k)' = By(k) /\ (Recorded(k)' => Recorded(k)) /\ (k \in undone' => k \in undone) /\ (k \in cut => k \in cut')
    BY <2>1 DEF KeptBut
  <2>3. Active(k)' \subseteq Active(k)
    BY <2>2 DEF KeptBut, Active, By
  <2>4. k \notin cut' => Active(k) \subseteq Active(k)'
    BY <2>1, <2>2 DEF KeptBut, Active, By
  <2>5. By(op[v].call)' = By(k)' /\ Recorded(op[v].call)' = Recorded(k)' /\ Active(op[v].call)' = Active(k)'
    OBVIOUS
  <2> QED
    BY <1>1, <2>2, <2>3, <2>4 DEF InHand, Installs
<1>5. Removes(op[v])'
  BY <1>1 DEF InHand, Removes, KeptBut
<1>6. Hosts(op[v])'
  BY <1>1, <1>2 DEF InHand, Hosts, Located, HostKeptBut, Client, Installing, Spawned, Starting, Nameless
<1> QED
  BY <1>3, <1>4, <1>5, <1>6 DEF InHand

(* A worker's step of an operation it has begun keeps the invariant when   *)
(* it keeps the tables and what is its own.                                *)
LEMMA WorkerStep ==
  ASSUME IInv, HostTypeOK', NEW w \in Worker, Moves(w), op[w].at # "idle",
         op'[w].at # "idle" => op'[w].call = op[w].call,
         KeptBut(op[w].call), HostKeptBut(op[w].call), Tables', HostTables', InHand(w)'
  PROVE  IInv'
<1>1. OneCaller
  BY DEF IInv
<1>2. ASSUME NEW v \in Worker
      PROVE  InHand(v)'
  <2>1. CASE v = w
    BY <2>1
  <2>2. CASE v # w
    <3>1. op'[v] = op[v] /\ (op[v].at # "idle" => op[v].call # op[w].call)
      BY <2>2, <1>1 DEF Moves, OneCaller
    <3> QED
      BY <3>1, StaysInHand
  <2> QED
    BY <2>1, <2>2
<1>3. OneCaller'
  <2> SUFFICES ASSUME NEW u \in Worker, NEW v \in Worker, op'[u].at # "idle", op'[v].at # "idle",
                      op'[u].call = op'[v].call
      PROVE  u = v
    BY DEF OneCaller
  <2> QED
    BY <1>1 DEF OneCaller, Moves
<1> QED
  BY <1>2, <1>3 DEF IInv

(* Tables that stand hold what they held. *)
LEMMA TablesStand ==
  ASSUME Tables, UNCHANGED <<record, grants, cut, undone>>, calls \in Nat, calls' \in Nat, calls <= calls'
  PROVE  /\ Tables'
         /\ \A n : KeptBut(n)
<1>1. \A n : By(n)' = By(n)
  BY DEF By
<1>2. \A n : Active(n)' = Active(n)
  BY DEF Active
<1>3. \A n : Recorded(n)' => Recorded(n)
  BY DEF Recorded
<1>4. ASSUME NEW c \in Capsule, record'[c] # None
      PROVE  /\ record'[c] \in 1 .. calls'
             /\ Cardinality(By(record[c]))' = Permissions
             /\ record'[c] \notin cut' => By(record[c])' = Active(record[c])'
  <2>1. PICK r : r = record[c]
    OBVIOUS
  <2>2. r \in 1 .. calls /\ Cardinality(By(r)) = Permissions /\ (r \notin cut => By(r) = Active(r))
    BY <2>1, <1>4 DEF Tables
  <2>3. By(r)' = By(r) /\ Active(r)' = Active(r) /\ r = record'[c]
    BY <2>1, <1>1, <1>2
  <2>4. By(record[c])' = By(r)' /\ Active(record[c])' = Active(r)'
    BY <2>3
  <2> QED
    BY <2>2, <2>3, <2>4
<1>5. Tables'
  <2>1. \A g \in DOMAIN grants' : grants'[g].by \in 1 .. calls'
    BY DEF Tables
  <2>2. \A n \in undone' : n \in 1 .. calls' /\ Active(n)' = {}
    BY <1>2 DEF Tables
  <2> QED
    BY <1>4, <2>1, <2>2 DEF Tables
<1> QED
  BY <1>1, <1>3, <1>5 DEF KeptBut

(* A step of the installer leaves the host's tables alone. *)
LEMMA InstallerStep ==
  ASSUME IInv, InstallTypeOK', UNCHANGED hostVars, NEW w \in Worker, Moves(w),
         op[w].at \in Installing \union Removing, op'[w].at # "idle" => op'[w].call = op[w].call,
         op'[w].at \notin Spawned \union {"spawn", "stopNext"}, op'[w].then # "stopNext",
         op'[w].at \in Installing \union {"start"} => op[w].at \in Installing,
         KeptBut(op[w].call), Tables', Located(op[w])', Installs(op[w])', Removes(op[w])'
  PROVE  IInv'
<1>1. HostTypeOK' /\ HostTables'
  BY DEF IInv, HostTypeOK, HostTables, hostVars, Moves, Live
<1>2. HostKeptBut(op[w].call)
  BY DEF HostKeptBut, hostVars
<1>3. op[w].at # "idle"
  BY DEF Installing, Removing
<1>4. Hosts(op[w])'
  <2>1. InHand(w)
    BY DEF IInv
  <2> QED
    BY <2>1, <1>3 DEF InHand, Hosts, hostVars, Installing, Spawned, Starting
<1> QED
  BY <1>1, <1>2, <1>3, <1>4, WorkerStep DEF InHand

(* A step of the host leaves the installer's tables alone. *)
LEMMA HostsStep ==
  ASSUME IInv, HostTypeOK', UNCHANGED <<record, code, grants, row, cut, undone>>, NEW w \in Worker, Moves(w),
         op[w].at # "idle", op'[w].at # "idle" => op'[w].call = op[w].call,
         op'[w].at \notin Installing \union {"revoke", "delete", "unregister", "removeCode"},
         HostKeptBut(op[w].call), HostTables', Located(op[w])', Hosts(op[w])'
  PROVE  IInv'
<1>1. Tables' /\ KeptBut(op[w].call)
  <2>1. calls \in Nat /\ calls' = calls /\ Tables
    BY CallsAreNat DEF Moves, IInv
  <2> QED
    BY <2>1, TablesStand
<1>2. Installs(op[w])' /\ Removes(op[w])'
  BY DEF Installs, Removes
<1> QED
  BY <1>1, <1>2, WorkerStep DEF InHand

(* An operation begins with the number of a new call. *)
LEMMA BeginKeeps ==
  ASSUME IInv, UNCHANGED <<record, code, grants, row, cut, undone, hostVars>>, NEW w \in Worker,
         NEW o \in Operation, Begin(w, o), o.own = {}, o.then # "stopNext",
         o.at \in {"get", "remove", "start", "stop", "drainAll"},
         o.at # "drainAll" => o.name \in Capsule,
         o.then = "start" => o.at = "get", o.then = "remove" => o.at = "stop"
  PROVE  IInv'
<1>a. op[w].at = "idle" /\ calls < MaxCalls /\ calls' = calls + 1 /\ op' = [op EXCEPT ![w] = [o EXCEPT !.call = calls + 1]]
  BY DEF Begin
<1>b. IInv /\ HostTypeOK /\ Tables /\ HostTables /\ OneCaller /\ \A v \in Worker : InHand(v)
  BY DEF IInv
<1>c. /\ record' = record /\ code' = code /\ grants' = grants /\ row' = row /\ cut' = cut /\ undone' = undone
      /\ proc' = proc /\ owner' = owner /\ running' = running /\ mounted' = mounted /\ ticker' = ticker
      /\ tick' = tick /\ cancelled' = cancelled /\ smu' = smu
  BY DEF hostVars
<1>d. calls \in Nat
  BY <1>b, CallsAreNat
<1>2. PICK m \in Nat : m = calls + 1
  BY <1>d
<1>3. PICK p \in Operation : p = [o EXCEPT !.call = m]
  BY DEF Operation
<1>4. /\ p.at = o.at /\ p.name = o.name /\ p.call = m /\ p.own = {} /\ p.then = o.then
  BY <1>3 DEF Operation
<1>5. op' = [op EXCEPT ![w] = p]
  BY <1>2, <1>3, <1>a
<1>1. calls' = m /\ m \in Call /\ m \in 1 .. m /\ calls < m /\ m \notin 1 .. calls /\ 1 .. calls \subseteq 1 .. m
  <2>1. calls \in Nat /\ MaxCalls \in Nat /\ calls < MaxCalls /\ calls' = calls + 1
    BY <1>a, <1>d, CapsuleAssumption
  <2> QED
    BY <2>1, <1>2 DEF Call
<1> USE <1>b
<1> HIDE DEF IInv
<1>6. op \in [Worker -> Operation] /\ op' \in [Worker -> Operation] /\ op'[w] = p /\ \A v \in Worker \ {w} : op'[v] = op[v]
  BY <1>5, <1>b DEF HostTypeOK, InstallTypeOK
<1>7. HostTypeOK'
  <2>1. m \in 0 .. MaxCalls
    BY <1>1, CapsuleAssumption DEF Call
  <2> QED
    BY <1>1, <1>6, <1>c, <2>1, <1>b DEF HostTypeOK, InstallTypeOK
<1>8. Tables' /\ KeptBut(0)
  BY <1>1, <1>b, <1>c, <1>d, TablesStand
<1>9. HostTables'
  <2>1. \A k \in Client : k > m => k > calls
    BY <1>1, <1>d, CapsuleAssumption DEF Client, Call
  <2> QED
    BY <1>1, <1>b, <1>c, <2>1 DEF HostTables, Live
<1>10. HostKeptBut(0)
  BY <1>c DEF HostKeptBut
<1>11. InHand(w)'
  <2>1. Tables /\ HostTables
    BY <1>b
  <2>2. By(m)' = {} /\ Active(m)' = {} /\ m \notin undone' /\ ~ Recorded(m)'
    <3>1. \A g \in DOMAIN grants : grants[g].by # m
      BY <2>1, <1>1 DEF Tables
    <3>2. By(m)' = {} /\ Active(m)' = {}
      BY <3>1, <1>c DEF By, Active
    <3>3. m \notin undone'
      BY <2>1, <1>1, <1>c DEF Tables
    <3>4. ~ Recorded(m)'
      BY <2>1, <1>1, <1>c DEF Tables, Recorded
    <3> QED
      BY <3>2, <3>3, <3>4
  <2>3. By(op[w].call)' = By(m)' /\ Active(op[w].call)' = Active(m)' /\ Recorded(op[w].call)' = Recorded(m)'
    BY <1>4, <1>6
  <2>4. Installs(op[w])'
    BY <2>2, <2>3, <1>4, <1>6 DEF Installs
  <2>5. tick'[m] = "none"
    BY <2>1, <1>1, <1>c, CapsuleAssumption DEF HostTables, Client, Call
  <2>6. Hosts(op[w])'
    BY <2>5, <1>4, <1>6 DEF Hosts, Spawned, Starting
  <2>7. Located(op[w])'
    BY <1>1, <1>4, <1>6 DEF Located, Installing, Stopping, Nameless
  <2>8. Removes(op[w])'
    BY <1>4, <1>6 DEF Removes
  <2> QED
    BY <2>4, <2>6, <2>7, <2>8 DEF InHand
<1>12. \A v \in Worker : op[v].at # "idle" => op[v].call # 0 /\ op[v].call # m
  BY <1>b, <1>1, <1>d DEF InHand, Located
<1>13. ASSUME NEW v \in Worker PROVE InHand(v)'
  <2>2. v # w => op'[v] = op[v] /\ (op[v].at # "idle" => op[v].call # 0)
    BY <1>12, <1>6
  <2> QED
    BY <2>2, <1>b, <1>8, <1>10, <1>11, StaysInHand
<1>14. OneCaller'
  BY <1>12, <1>4, <1>6, <1>b DEF OneCaller
<1> QED
  BY <1>7, <1>8, <1>9, <1>13, <1>14 DEF IInv

-----------------------------------------------------------------------------
(* The steps of the installer. *)
LEMMA InHandNow ==
  ASSUME IInv, NEW w \in Worker
  PROVE  /\ HostTypeOK /\ InstallTypeOK /\ Tables /\ HostTables
         /\ op \in [Worker -> Operation] /\ op[w] \in Operation
         /\ Located(op[w]) /\ Installs(op[w]) /\ Removes(op[w]) /\ Hosts(op[w])
         /\ calls \in Nat /\ 1 .. calls \subseteq Call
BY CallsAreNat DEF IInv, InHand, HostTypeOK, InstallTypeOK

(* A worker that ends keeps the invariant if the tables do. *)
LEMMA InstallerEnds ==
  ASSUME IInv, InstallTypeOK', UNCHANGED hostVars, NEW w \in Worker, Ends(w),
         op[w].at \in Installing \union Removing, KeptBut(op[w].call), Tables'
  PROVE  IInv'
<1>1. Moves(w) /\ op'[w].at = "idle" /\ op'[w].then = "idle"
  BY DEF Ends, Idle
<1>2. Located(op[w])' /\ Installs(op[w])' /\ Removes(op[w])'
  BY <1>1 DEF Located, Installs, Removes, Nameless, Installing
<1> QED
  BY <1>1, <1>2, InstallerStep DEF Installing, Spawned, Starting

LEMMA QuietTables ==
  ASSUME IInv, UNCHANGED <<record, grants, cut, undone>>, NEW w \in Worker, Moves(w),
         code' \in [Capsule -> {"none", "partial", "whole"}], row' \in [Capsule -> Row]
  PROVE  InstallTypeOK' /\ Tables' /\ KeptBut(op[w].call)
<1>1. Tables /\ calls \in Nat /\ calls' = calls
  BY InHandNow DEF Moves
<1>2. Tables' /\ KeptBut(op[w].call)
  BY <1>1, TablesStand
<1>3. InstallTypeOK'
  BY InHandNow DEF InstallTypeOK, Moves
<1> QED
  BY <1>2, <1>3

LEMMA LocatedMove ==
  ASSUME IInv, NEW w \in Worker, NEW label, NEW own, NEW rest, GoesTo(w, label, own, rest),
         \/ op[w].at \in Installing /\ label \in Installing
         \/ op[w].at \in Removing /\ label \in Removing
  PROVE  Located(op[w])' /\ op'[w].then # "stopNext" /\ op'[w].call = op[w].call /\ op'[w].call \in 1 .. calls
<1>1. Located(op[w]) /\ Moves(w) /\ op'[w].at = label /\ op'[w].name = op[w].name /\ op'[w].call = op[w].call
      /\ op'[w].then = op[w].then
  BY InHandNow DEF GoesTo
<1>2. CASE op[w].at \in Installing /\ label \in Installing
  BY <1>1, <1>2 DEF Located, Moves, Installing, Stopping, Nameless
<1>3. CASE op[w].at \in Removing /\ label \in Removing
  BY <1>1, <1>3 DEF Located, Moves, Removing, Installing, Stopping, Nameless
<1> QED
  BY <1>2, <1>3

(* An install goes on: its part of the invariant is told by call and label. *)
LEMMA InstallGoesOn ==
  ASSUME IInv, InstallTypeOK', UNCHANGED hostVars, NEW w \in Worker,
         NEW label \in Installing, NEW own, NEW rest, GoesTo(w, label, own, rest), op[w].at \in Installing,
         KeptBut(op[w].call), Tables', Installs(op[w])'
  PROVE  IInv'
<1>1. Moves(w) /\ op'[w].at = label
  BY DEF GoesTo
<1>2. Located(op[w])' /\ op'[w].then # "stopNext" /\ op'[w].call = op[w].call
  BY LocatedMove
<1>3. Removes(op[w])'
  BY <1>1 DEF Removes, Installing
<1> QED
  BY <1>1, <1>2, <1>3, InstallerStep DEF Installing, Spawned, Starting

LEMMA RemovalGoesOn ==
  ASSUME IInv, InstallTypeOK', UNCHANGED hostVars, NEW w \in Worker,
         NEW label \in Removing, NEW own, NEW rest, GoesTo(w, label, own, rest), op[w].at \in Removing,
         KeptBut(op[w].call), Tables', Removes(op[w])'
  PROVE  IInv'
<1>1. Moves(w) /\ op'[w].at = label
  BY DEF GoesTo
<1>2. Located(op[w])' /\ op'[w].then # "stopNext" /\ op'[w].call = op[w].call
  BY LocatedMove
<1>3. Installs(op[w])'
  BY <1>1 DEF Installs, Installing, Removing
<1> QED
  BY <1>1, <1>2, <1>3, InstallerStep DEF Removing, Installing, Spawned, Starting

(* By, Active and Recorded of the call in hand, before and after. *)
LEMMA InstallsNext ==
  ASSUME NEW w \in Worker, NEW n, op'[w].call = n, op'[w].own = By(n)', n \notin undone',
         op'[w].at \in {"get", "copy", "issue", "insert"} =>
           ~ Recorded(n)' /\ (n \notin cut' => By(n)' = Active(n)'),
         op'[w].at = "insert" => Cardinality(op'[w].own) = Permissions,
         op'[w].at = "rollback" =>
           (Recorded(n)' => n \in cut') /\ op'[w].rest \subseteq op'[w].own /\ Active(n)' \subseteq op'[w].rest
  PROVE  Installs(op[w])'
<1>1. By(op[w].call)' = By(n)' /\ Active(op[w].call)' = Active(n)' /\ Recorded(op[w].call)' = Recorded(n)'
  OBVIOUS
<1> QED
  BY <1>1 DEF Installs

LEMMA InstallsQuiet ==
  ASSUME IInv, UNCHANGED <<record, grants, cut, undone>>, NEW w \in Worker, op[w].at \in Installing,
         NEW label \in {"get", "copy", "issue", "insert"}, GoesTo(w, label, op[w].own, op[w].rest),
         op[w].at \in {"get", "copy", "issue"}, label = "insert" => Cardinality(op[w].own) = Permissions
  PROVE  Installs(op[w])'
<1>1. PICK n : n = op[w].call
  OBVIOUS
<1>2. By(n)' = By(n) /\ Active(n)' = Active(n) /\ Recorded(n)' = Recorded(n)
  BY DEF By, Active, Recorded
<1>3. op'[w].call = n /\ op'[w].own = op[w].own /\ op'[w].at = label
  BY <1>1 DEF GoesTo
<1>4. Installs(op[w])
  BY InHandNow
<1>5. op[w].own = By(n) /\ n \notin undone /\ ~ Recorded(n) /\ (n \notin cut => By(n) = Active(n))
  BY <1>1, <1>4 DEF Installs
<1> QED
  BY <1>2, <1>3, <1>5, InstallsNext

LEMMA CheckAbsentKeeps ==
  ASSUME IInv, UNCHANGED hostVars, NEW w \in Worker, CheckAbsent(w)
  PROVE  IInv'
<1>1. op[w].at = "get" /\ UNCHANGED <<record, code, grants, row, cut, undone>> /\ (At(w, "copy") \/ Give(w))
  BY DEF CheckAbsent
<1>2. op \in [Worker -> Operation] /\ InstallTypeOK /\ op[w].at \in Installing /\ "copy" \in Label
  BY <1>1, InHandNow DEF Label, Installing
<1>3. code' \in [Capsule -> {"none", "partial", "whole"}] /\ row' \in [Capsule -> Row]
  BY <1>1, <1>2 DEF InstallTypeOK
<1>4. CASE Give(w)
  BY <1>1, <1>2, <1>3, <1>4, GiveEnds, QuietTables, InstallerEnds DEF Ends
<1>5. CASE At(w, "copy")
  <2>1. GoesTo(w, "copy", op[w].own, op[w].rest) /\ Moves(w)
    BY <1>2, <1>5, AtMoves DEF GoesTo
  <2>2. Installs(op[w])'
    BY <1>1, <1>2, <2>1, InstallsQuiet
  <2>3. "copy" \in Installing
    BY DEF Installing
  <2> QED
    BY <1>1, <1>2, <1>3, <2>1, <2>2, <2>3, QuietTables, InstallGoesOn
<1> QED
  BY <1>1, <1>4, <1>5

LEMMA CopyCodeKeeps ==
  ASSUME IInv, UNCHANGED hostVars, NEW w \in Worker, CopyCode(w)
  PROVE  IInv'
<1>1. op[w].at = "copy" /\ UNCHANGED <<record, grants, row, cut, undone>> /\ (At(w, "issue") \/ Give(w))
  BY DEF CopyCode
<1>2. op \in [Worker -> Operation] /\ InstallTypeOK /\ op[w].at \in Installing /\ "issue" \in Label
  BY <1>1, InHandNow DEF Label, Installing
<1>3. code' \in [Capsule -> {"none", "partial", "whole"}] /\ row' \in [Capsule -> Row]
  BY <1>1, <1>2 DEF InstallTypeOK, CopyCode
<1>4. CASE Give(w)
  BY <1>1, <1>2, <1>3, <1>4, GiveEnds, QuietTables, InstallerEnds DEF Ends
<1>5. CASE At(w, "issue")
  <2>1. GoesTo(w, "issue", op[w].own, op[w].rest) /\ Moves(w)
    BY <1>2, <1>5, AtMoves DEF GoesTo
  <2>2. Installs(op[w])'
    BY <1>1, <1>2, <2>1, InstallsQuiet
  <2>3. "issue" \in Installing
    BY DEF Installing
  <2> QED
    BY <1>1, <1>2, <1>3, <2>1, <2>2, <2>3, QuietTables, InstallGoesOn
<1> QED
  BY <1>1, <1>4, <1>5

-----------------------------------------------------------------------------
(* The table of grants: a revocation and an issue. *)
LEMMA Revoking ==
  ASSUME grants \in Seq(Grant), NEW gs, grants' = Revoked(gs)
  PROVE  /\ grants' \in Seq(Grant) /\ DOMAIN grants' = DOMAIN grants
         /\ \A g \in DOMAIN grants : /\ grants'[g].by = grants[g].by
                                     /\ grants'[g].active <=> grants[g].active /\ g \notin gs
         /\ \A n : By(n)' = By(n) /\ Active(n)' = Active(n) \ gs
<1>1. DOMAIN grants = 1 .. Len(grants) /\ Len(grants) \in Nat
  OBVIOUS
<1>2. ASSUME NEW g \in DOMAIN grants
      PROVE  /\ grants'[g] \in Grant /\ grants'[g].by = grants[g].by
             /\ grants'[g].active <=> grants[g].active /\ g \notin gs
  <2>1. grants[g] \in Grant
    BY <1>1
  <2>2. [grants[g] EXCEPT !.active = FALSE] \in Grant /\ [grants[g] EXCEPT !.active = FALSE].by = grants[g].by
        /\ [grants[g] EXCEPT !.active = FALSE].active = FALSE
    BY <2>1 DEF Grant
  <2>3. g \in gs => grants'[g] = [grants[g] EXCEPT !.active = FALSE]
    BY DEF Revoked
  <2>4. g \notin gs => grants'[g] = grants[g]
    BY DEF Revoked
  <2> QED
    BY <2>1, <2>2, <2>3, <2>4
<1>3. DOMAIN grants' = DOMAIN grants /\ grants' = [g \in DOMAIN grants |-> grants'[g]]
  BY DEF Revoked
<1>4. grants' \in [1 .. Len(grants) -> Grant]
  BY <1>1, <1>2, <1>3
<1>5. grants' \in Seq(Grant)
  BY <1>1, <1>4
<1>6. \A n : By(n)' = By(n)
  BY <1>2, <1>3 DEF By
<1>7. \A n : Active(n)' = Active(n) \ gs
  BY <1>2, <1>3 DEF Active
<1> QED
  BY <1>2, <1>3, <1>5, <1>6, <1>7

LEMMA Issuing ==
  ASSUME grants \in Seq(Grant), NEW c \in Capsule, NEW n \in Call,
         grants' = Append(grants, [holder |-> c, by |-> n, active |-> TRUE])
  PROVE  /\ grants' \in Seq(Grant) /\ Len(grants) + 1 \in Nat
         /\ \A g \in DOMAIN grants : g \in DOMAIN grants' /\ grants'[g] = grants[g]
         /\ \A g \in DOMAIN grants' : g \in DOMAIN grants \/ grants'[g].by = n
         /\ By(n)' = By(n) \union {Len(grants) + 1} /\ Active(n)' = Active(n) \union {Len(grants) + 1}
         /\ \A m : m # n => By(m)' = By(m) /\ Active(m)' = Active(m)
<1> DEFINE new == [holder |-> c, by |-> n, active |-> TRUE]
<1>1. new \in Grant /\ new.by = n /\ new.active = TRUE
  BY DEF Grant
<1>2. grants' = Append(grants, new)
  OBVIOUS
<1> HIDE DEF new
<1>3. Len(grants) \in Nat /\ DOMAIN grants = 1 .. Len(grants) /\ grants' \in Seq(Grant) /\ Len(grants') = Len(grants) + 1
      /\ DOMAIN grants' = 1 .. Len(grants')
  BY <1>1, <1>2
<1>4. PICK l \in Nat : l = Len(grants) + 1
  BY <1>3
<1>5. DOMAIN grants' = DOMAIN grants \union {l} /\ l \notin DOMAIN grants
  BY <1>3, <1>4
<1>6. \A g \in DOMAIN grants : grants'[g] = grants[g]
  BY <1>1, <1>2, <1>3
<1>7. grants'[l] = new
  BY <1>1, <1>2, <1>3, <1>4
<1>8. By(n)' = By(n) \union {l} /\ Active(n)' = Active(n) \union {l}
  BY <1>1, <1>5, <1>6, <1>7 DEF By, Active
<1>9. \A m : m # n => By(m)' = By(m) /\ Active(m)' = Active(m)
  BY <1>1, <1>5, <1>6, <1>7 DEF By, Active
<1> QED
  BY <1>1, <1>3, <1>4, <1>5, <1>6, <1>7, <1>8, <1>9

(* The revocation of a grant that no install of record needs. *)
LEMMA RevokeKeeps ==
  ASSUME IInv, UNCHANGED <<record, code, row, cut, undone>>, NEW w \in Worker, Moves(w),
         NEW g \in DOMAIN grants, grants' = Revoked({g}), grants[g].by \in cut \union {op[w].call},
         Recorded(grants[g].by) => grants[g].by \in cut
  PROVE  InstallTypeOK' /\ KeptBut(op[w].call) /\ Tables'
<1>1. InstallTypeOK /\ Tables /\ calls \in Nat /\ calls' = calls /\ grants \in Seq(Grant)
  BY InHandNow DEF Moves, InstallTypeOK
<1>2. /\ grants' \in Seq(Grant) /\ DOMAIN grants' = DOMAIN grants
      /\ \A h \in DOMAIN grants : /\ grants'[h].by = grants[h].by
                                  /\ grants'[h].active <=> grants[h].active /\ h \notin {g}
      /\ \A n : By(n)' = By(n) /\ Active(n)' = Active(n) \ {g}
  BY <1>1, Revoking
<1>3. InstallTypeOK'
  BY <1>1, <1>2 DEF InstallTypeOK, Moves
<1>4. KeptBut(op[w].call)
  <2>1. \A m : Recorded(m)' => Recorded(m)
    BY DEF Recorded
  <2>2. \A h \in DOMAIN grants : grants[h].active /\ ~ grants'[h].active => grants[h].by \in cut' \union {op[w].call}
    BY <1>2
  <2>3. cut \subseteq cut' /\ undone' \subseteq undone \union {op[w].call} /\ calls' \in Nat /\ calls <= calls'
    BY <1>1
  <2> QED
    BY <1>2, <2>1, <2>2, <2>3 DEF KeptBut
<1>5. ASSUME NEW c \in Capsule, record'[c] # None
      PROVE  /\ record'[c] \in 1 .. calls'
             /\ Cardinality(By(record[c]))' = Permissions
             /\ record'[c] \notin cut' => By(record[c])' = Active(record[c])'
  <2>1. PICK r : r = record[c]
    OBVIOUS
  <2>2. r \in 1 .. calls /\ Cardinality(By(r)) = Permissions /\ (r \notin cut => By(r) = Active(r))
    BY <2>1, <1>1, <1>5 DEF Tables
  <2>3. By(r)' = By(r) /\ Active(r)' = Active(r) \ {g} /\ r = record'[c]
    BY <2>1, <1>2
  <2>4. r \notin cut => g \notin By(r)
    BY <2>1, <1>5 DEF By, Recorded
  <2>5. By(record[c])' = By(r)' /\ Active(record[c])' = Active(r)'
    BY <2>3
  <2> QED
    BY <1>1, <2>2, <2>3, <2>4, <2>5
<1>6. \A h \in DOMAIN grants' : grants'[h].by \in 1 .. calls'
  BY <1>1, <1>2 DEF Tables
<1>7. \A n \in undone' : n \in 1 .. calls' /\ Active(n)' = {}
  BY <1>1, <1>2 DEF Tables
<1> QED
  BY <1>3, <1>4, <1>5, <1>6, <1>7 DEF Tables

-----------------------------------------------------------------------------
(* The facts of an install in hand. *)
LEMMA InstallInHand ==
  ASSUME IInv, NEW w \in Worker, op[w].at \in Installing, NEW n, n = op[w].call
  PROVE  /\ n \in 1 .. calls /\ n \in Call /\ n \notin undone /\ op[w].own = By(n) /\ op[w].name \in Capsule
         /\ op[w].own \subseteq Nat
         /\ op[w].at \in {"get", "copy", "issue", "insert"} => ~ Recorded(n) /\ (n \notin cut => By(n) = Active(n))
         /\ op[w].at = "insert" => Cardinality(op[w].own) = Permissions
         /\ op[w].at = "rollback" =>
              (Recorded(n) => n \in cut) /\ op[w].rest \subseteq op[w].own /\ Active(n) \subseteq op[w].rest
<1>1. Located(op[w]) /\ Installs(op[w]) /\ 1 .. calls \subseteq Call /\ op[w] \in Operation
  BY InHandNow
<1> QED
  BY <1>1 DEF Located, Installs, Installing, Nameless, Operation

LEMMA IssueGrantsKeeps ==
  ASSUME IInv, UNCHANGED hostVars, NEW w \in Worker, IssueGrants(w)
  PROVE  IInv'
<1>1. op[w].at = "issue" /\ UNCHANGED <<record, code, row, cut, undone>>
  BY DEF IssueGrants
<1>2. op \in [Worker -> Operation] /\ op[w] \in Operation /\ InstallTypeOK /\ Tables /\ op[w].at \in Installing
      /\ calls \in Nat
  BY <1>1, InHandNow DEF Installing
<1>3. PICK n : n = op[w].call
  OBVIOUS
<1>4. n \in 1 .. calls /\ n \in Call /\ n \notin undone /\ op[w].own = By(n) /\ op[w].name \in Capsule
      /\ ~ Recorded(n) /\ (n \notin cut => By(n) = Active(n)) /\ op[w].own \subseteq Nat
  BY <1>1, <1>2, <1>3, InstallInHand
<1>5. CASE UNCHANGED grants
  <2>1. code' \in [Capsule -> {"none", "partial", "whole"}] /\ row' \in [Capsule -> Row]
    BY <1>1, <1>2 DEF InstallTypeOK
  <2>2. By(n)' = By(n) /\ Active(n)' = Active(n) /\ Recorded(n)' = Recorded(n)
    BY <1>1, <1>5 DEF By, Active, Recorded
  <2>3. CASE Goto(w, [op[w] EXCEPT !.at = "rollback", !.rest = op[w].own])
    <3>1. "rollback" \in Label /\ "rollback" \in Installing
      BY DEF Label, Installing
    <3>a. PICK all \in SUBSET Nat : all = op[w].own
      BY <1>4
    <3>b. Goto(w, [op[w] EXCEPT !.at = "rollback", !.rest = all])
      BY <2>3, <3>a
    <3>c. GoesTo(w, "rollback", op[w].own, all)
      BY <1>2, <3>1, <3>b, RollbackMoves
    <3>2. GoesTo(w, "rollback", op[w].own, op[w].own) /\ Moves(w)
      BY <3>a, <3>c DEF GoesTo
    <3>3. op'[w].call = n /\ op'[w].own = op[w].own /\ op'[w].at = "rollback" /\ op'[w].rest = op[w].own
      BY <1>3, <3>2 DEF GoesTo
    <3>4. Active(n) \subseteq By(n)
      BY DEF Active, By
    <3>5. /\ op'[w].own = By(n)' /\ op'[w].at \notin {"get", "copy", "issue", "insert"} /\ op'[w].at # "insert"
          /\ (Recorded(n)' => n \in cut') /\ op'[w].rest \subseteq op'[w].own /\ Active(n)' \subseteq op'[w].rest
      BY <1>4, <2>2, <3>3, <3>4
    <3>d. By(op[w].call)' = By(n)' /\ Active(op[w].call)' = Active(n)' /\ Recorded(op[w].call)' = Recorded(n)'
      BY <3>3
    <3>6. Installs(op[w])'
      BY <1>1, <1>4, <3>3, <3>5, <3>d DEF Installs
    <3> QED
      BY <1>1, <1>2, <1>5, <2>1, <3>1, <3>2, <3>6, QuietTables, InstallGoesOn
  <2>4. CASE Cardinality(op[w].own) = Permissions /\ At(w, "insert")
    <3>1. "insert" \in Label /\ "insert" \in Installing
      BY DEF Label, Installing
    <3>2. GoesTo(w, "insert", op[w].own, op[w].rest) /\ Moves(w)
      BY <1>2, <2>4, <3>1, AtMoves DEF GoesTo
    <3>3. Installs(op[w])'
      BY <1>1, <1>2, <1>5, <2>4, <3>2, InstallsQuiet
    <3> QED
      BY <1>1, <1>2, <1>5, <2>1, <3>1, <3>2, <3>3, QuietTables, InstallGoesOn
  <2>5. \/ Goto(w, [op[w] EXCEPT !.at = "rollback", !.rest = op[w].own])
        \/ Cardinality(op[w].own) = Permissions /\ At(w, "insert")
        \/ grants' = Append(grants, [holder |-> op[w].name, by |-> op[w].call, active |-> TRUE])
    BY <1>1 DEF IssueGrants
  <2>6. grants' # Append(grants, [holder |-> op[w].name, by |-> op[w].call, active |-> TRUE])
    <3>1. grants \in Seq(Grant) /\ [holder |-> op[w].name, by |-> op[w].call, active |-> TRUE] \in Grant
      BY <1>2, <1>3, <1>4 DEF InstallTypeOK, Grant
    <3>2. PICK new \in Grant : new = [holder |-> op[w].name, by |-> op[w].call, active |-> TRUE]
      BY <3>1
    <3>3. Len(Append(grants, new)) = Len(grants) + 1 /\ Len(grants) \in Nat
      BY <3>1
    <3> QED
      BY <1>5, <3>2, <3>3
  <2> QED
    BY <2>3, <2>4, <2>5, <2>6
<1>6. CASE /\ grants' = Append(grants, [holder |-> op[w].name, by |-> op[w].call, active |-> TRUE])
           /\ Goto(w, [op[w] EXCEPT !.own = @ \union {Len(grants) + 1}])
  <2>1. grants \in Seq(Grant) /\ grants' = Append(grants, [holder |-> op[w].name, by |-> n, active |-> TRUE])
    BY <1>2, <1>3, <1>6 DEF InstallTypeOK
  <2>2. /\ grants' \in Seq(Grant) /\ Len(grants) + 1 \in Nat
        /\ \A g \in DOMAIN grants : g \in DOMAIN grants' /\ grants'[g] = grants[g]
        /\ \A g \in DOMAIN grants' : g \in DOMAIN grants \/ grants'[g].by = n
        /\ By(n)' = By(n) \union {Len(grants) + 1} /\ Active(n)' = Active(n) \union {Len(grants) + 1}
        /\ \A m : m # n => By(m)' = By(m) /\ Active(m)' = Active(m)
    BY <1>4, <2>1, Issuing
  <2>3. PICK more \in SUBSET Nat : more = op[w].own \union {Len(grants) + 1}
    BY <1>4, <2>2
  <2>4. PICK o \in Operation : o = [op[w] EXCEPT !.own = more]
    BY <1>2 DEF Operation
  <2>5. o.at = "issue" /\ o.own = more /\ o.rest = op[w].rest /\ o.name = op[w].name /\ o.call = op[w].call
        /\ o.then = op[w].then /\ o.client = op[w].client
    BY <1>1, <1>2, <2>4 DEF Operation
  <2>6. Goto(w, o)
    BY <1>6, <2>3, <2>4
  <2>7. GoesTo(w, "issue", more, op[w].rest) /\ Moves(w) /\ calls' = calls /\ op' \in [Worker -> Operation]
    BY <1>2, <2>5, <2>6, GotoMoves DEF GoesTo, Moves
  <2>8. Recorded(n)' = Recorded(n) /\ \A m : Recorded(m)' = Recorded(m)
    BY <1>1 DEF Recorded
  <2>9. Installs(op[w])'
    <3>1. op'[w].call = n /\ op'[w].own = more /\ op'[w].at = "issue"
      BY <1>3, <2>7 DEF GoesTo
    <3> QED
      BY <1>1, <1>4, <2>2, <2>3, <2>8, <3>1, InstallsNext
  <2>10. InstallTypeOK'
    BY <1>1, <1>2, <2>2, <2>7 DEF InstallTypeOK
  <2>11. KeptBut(op[w].call)
    BY <1>1, <1>2, <1>3, <2>2, <2>7, <2>8 DEF KeptBut
  <2>12. Tables'
    <3>1. ASSUME NEW c \in Capsule, record'[c] # None
          PROVE  /\ record'[c] \in 1 .. calls'
                 /\ Cardinality(By(record[c]))' = Permissions
                 /\ record'[c] \notin cut' => By(record[c])' = Active(record[c])'
      <4>1. PICK r : r = record[c] /\ r = record'[c]
        BY <1>1
      <4>2. r \in 1 .. calls /\ Cardinality(By(r)) = Permissions /\ (r \notin cut => By(r) = Active(r)) /\ r # n
        BY <4>1, <1>2, <1>4, <3>1 DEF Tables, Recorded
      <4>3. By(record[c])' = By(r)' /\ Active(record[c])' = Active(r)'
        BY <4>1
      <4> QED
        BY <1>1, <2>2, <2>7, <4>1, <4>2, <4>3
    <3>2. \A h \in DOMAIN grants' : grants'[h].by \in 1 .. calls'
      BY <1>2, <1>4, <2>2, <2>7 DEF Tables
    <3>3. \A m \in undone' : m \in 1 .. calls' /\ Active(m)' = {}
      BY <1>1, <1>2, <1>4, <2>2, <2>7 DEF Tables
    <3> QED
      BY <3>1, <3>2, <3>3 DEF Tables
  <2>13. "issue" \in Installing
    BY DEF Installing
  <2> QED
    BY <1>1, <1>2, <2>7, <2>9, <2>10, <2>11, <2>12, <2>13, InstallGoesOn
<1> QED
  BY <1>5, <1>6 DEF IssueGrants

(* The worker turns to the rollback of some of its own grants. *)
LEMMA ToRollback ==
  ASSUME IInv, NEW w \in Worker, NEW all \in SUBSET Nat, Goto(w, [op[w] EXCEPT !.at = "rollback", !.rest = all])
  PROVE  GoesTo(w, "rollback", op[w].own, all) /\ Moves(w) /\ "rollback" \in Installing
<1>1. op \in [Worker -> Operation] /\ "rollback" \in Label
  BY InHandNow DEF Label, Installing
<1>2. GoesTo(w, "rollback", op[w].own, all)
  BY <1>1, RollbackMoves
<1> QED
  BY <1>2 DEF GoesTo, Installing

LEMMA InsertKeeps ==
  ASSUME IInv, UNCHANGED hostVars, NEW w \in Worker, Insert(w)
  PROVE  IInv'
<1>1. op[w].at = "insert" /\ UNCHANGED <<code, grants, row, cut, undone>>
  BY DEF Insert
<1>2. op \in [Worker -> Operation] /\ op[w] \in Operation /\ InstallTypeOK /\ Tables /\ op[w].at \in Installing
      /\ calls \in Nat
  BY <1>1, InHandNow DEF Installing
<1>3. PICK n : n = op[w].call
  OBVIOUS
<1>4. n \in 1 .. calls /\ n \in Call /\ n \notin undone /\ op[w].own = By(n) /\ op[w].name \in Capsule
      /\ ~ Recorded(n) /\ (n \notin cut => By(n) = Active(n)) /\ op[w].own \subseteq Nat
      /\ Cardinality(op[w].own) = Permissions
  BY <1>1, <1>2, <1>3, InstallInHand
<1>5. By(n)' = By(n) /\ Active(n)' = Active(n) /\ \A m : By(m)' = By(m) /\ Active(m)' = Active(m)
  BY <1>1 DEF By, Active
<1>6. CASE Goto(w, [op[w] EXCEPT !.at = "rollback", !.rest = op[w].own]) /\ UNCHANGED record
  <2>1. PICK all \in SUBSET Nat : all = op[w].own
    BY <1>4
  <2>2. Goto(w, [op[w] EXCEPT !.at = "rollback", !.rest = all])
    BY <1>6, <2>1
  <2>3. GoesTo(w, "rollback", op[w].own, all) /\ Moves(w) /\ "rollback" \in Installing
    BY <2>2, ToRollback
  <2>4. op'[w].call = n /\ op'[w].own = op[w].own /\ op'[w].at = "rollback" /\ op'[w].rest = op[w].own
    BY <1>3, <2>1, <2>3 DEF GoesTo
  <2>5. Active(n) \subseteq By(n) /\ ~ Recorded(n)'
    BY <1>4, <1>6 DEF Active, By, Recorded
  <2>6. Installs(op[w])'
    BY <1>1, <1>4, <1>5, <2>4, <2>5, InstallsNext
  <2>7. code' \in [Capsule -> {"none", "partial", "whole"}] /\ row' \in [Capsule -> Row]
    BY <1>1, <1>2 DEF InstallTypeOK
  <2> QED
    BY <1>1, <1>2, <1>6, <2>3, <2>6, <2>7, QuietTables, InstallGoesOn
<1>7. CASE /\ record[op[w].name] = None
           /\ record' = [record EXCEPT ![op[w].name] = op[w].call]
           /\ At(w, "register")
  <2>1. PICK c \in Capsule : c = op[w].name
    BY <1>4
  <2>2. record \in [Capsule -> Call \union {None}] /\ record[c] = None /\ record' = [record EXCEPT ![c] = n]
    BY <1>2, <1>3, <1>7, <2>1 DEF InstallTypeOK
  <2>3. record' \in [Capsule -> Call \union {None}] /\ record'[c] = n
        /\ \A d \in Capsule : d # c => record'[d] = record[d]
    BY <1>4, <2>2
  <2>4. "register" \in Installing /\ "register" \in Label
    BY DEF Label, Installing
  <2>5. GoesTo(w, "register", op[w].own, op[w].rest) /\ Moves(w)
    BY <1>2, <1>7, <2>4, AtMoves DEF GoesTo
  <2>6. Installs(op[w])'
    <3>1. op'[w].call = n /\ op'[w].own = op[w].own /\ op'[w].at = "register"
      BY <1>3, <2>5 DEF GoesTo
    <3>2. op'[w].own = By(n)' /\ n \notin undone'
      BY <1>1, <1>4, <1>5, <3>1
    <3> QED
      BY <3>1, <3>2, InstallsNext
  <2>7. InstallTypeOK' /\ calls' = calls
    BY <1>1, <1>2, <2>3, <2>5 DEF InstallTypeOK, Moves
  <2>8. \A m \in Call \ {n} : Recorded(m)' => Recorded(m)
    BY <2>3 DEF Recorded
  <2>9. KeptBut(op[w].call)
    BY <1>1, <1>2, <1>3, <1>5, <2>7, <2>8 DEF KeptBut
  <2>10. Tables'
    <3>1. ASSUME NEW d \in Capsule, record'[d] # None
          PROVE  /\ record'[d] \in 1 .. calls'
                 /\ Cardinality(By(record[d]))' = Permissions
                 /\ record'[d] \notin cut' => By(record[d])' = Active(record[d])'
      <4>1. PICK r : r = record'[d]
        OBVIOUS
      <4>2. r \in 1 .. calls /\ Cardinality(By(r)) = Permissions /\ (r \notin cut => By(r) = Active(r))
        <5>1. CASE d = c
          BY <1>4, <2>3, <4>1, <5>1
        <5>2. CASE d # c
          BY <1>2, <2>3, <3>1, <4>1, <5>2 DEF Tables
        <5> QED
          BY <5>1, <5>2
      <4>3. By(record[d])' = By(r)' /\ Active(record[d])' = Active(r)'
        BY <4>1
      <4> QED
        BY <1>1, <1>5, <2>7, <4>1, <4>2, <4>3
    <3>2. \A h \in DOMAIN grants' : grants'[h].by \in 1 .. calls'
      BY <1>1, <1>2, <2>7 DEF Tables
    <3>3. \A m \in undone' : m \in 1 .. calls' /\ Active(m)' = {}
      BY <1>1, <1>2, <1>5, <2>7 DEF Tables
    <3> QED
      BY <3>1, <3>2, <3>3 DEF Tables
  <2> QED
    BY <1>2, <2>4, <2>5, <2>6, <2>7, <2>9, <2>10, InstallGoesOn
<1> QED
  BY <1>6, <1>7 DEF Insert

LEMMA OnInstallKeeps ==
  ASSUME IInv, UNCHANGED hostVars, NEW w \in Worker, OnInstall(w)
  PROVE  IInv'
<1>1. op[w].at = "register" /\ UNCHANGED <<record, code, grants, cut, undone>> /\ (At(w, "unrecord") \/ Return(w))
  BY DEF OnInstall
<1>2. op \in [Worker -> Operation] /\ op[w] \in Operation /\ InstallTypeOK /\ Tables /\ op[w].at \in Installing
      /\ calls \in Nat /\ Located(op[w])
  BY <1>1, InHandNow DEF Installing
<1>3. code' \in [Capsule -> {"none", "partial", "whole"}] /\ row' \in [Capsule -> Row]
  <2>1. row \in [Capsule -> Row] /\ "capsules" \in Row
    BY <1>2 DEF InstallTypeOK, Row
  <2> QED
    BY <1>1, <1>2, <2>1 DEF OnInstall, InstallTypeOK
<1>4. PICK n : n = op[w].call
  OBVIOUS
<1>5. n \notin undone /\ op[w].own = By(n)
  BY <1>2, <1>4, InstallInHand
<1>6. By(n)' = By(n)
  BY <1>1 DEF By
<1>7. CASE At(w, "unrecord")
  <2>1. "unrecord" \in Installing /\ "unrecord" \in Label
    BY DEF Label, Installing
  <2>2. GoesTo(w, "unrecord", op[w].own, op[w].rest) /\ Moves(w)
    BY <1>2, <1>7, <2>1, AtMoves DEF GoesTo
  <2>3. op'[w].call = n /\ op'[w].own = By(n)' /\ op'[w].at = "unrecord" /\ n \notin undone'
    BY <1>1, <1>4, <1>5, <1>6, <2>2 DEF GoesTo
  <2>4. Installs(op[w])'
    BY <2>3, InstallsNext
  <2> QED
    BY <1>1, <1>2, <1>3, <2>1, <2>2, <2>4, QuietTables, InstallGoesOn
<1>8. CASE Return(w)
  <2>1. CASE op[w].then = "idle"
    BY <1>1, <1>2, <1>3, <1>8, <2>1, ReturnMoves, QuietTables, InstallerEnds DEF Ends
  <2>2. CASE op[w].then # "idle"
    <3>1. op[w].then = "start"
      BY <1>1, <1>2, <2>2 DEF Operation, Located, Stopping
    <3>2. Moves(w) /\ op'[w].at = "start" /\ op'[w].then = "idle" /\ op'[w].name = op[w].name
          /\ op'[w].call = op[w].call
      BY <1>2, <1>8, <2>2, <3>1, ReturnMoves
    <3>3. Located(op[w])'
      BY <1>1, <1>2, <3>2 DEF Located, Moves, Nameless
    <3>4. Installs(op[w])' /\ Removes(op[w])'
      BY <3>2 DEF Installs, Removes, Installing
    <3>5. InstallTypeOK' /\ Tables' /\ KeptBut(op[w].call)
      BY <1>1, <1>3, <3>2, QuietTables
    <3>6. op'[w].at \notin Spawned \union {"spawn", "stopNext"}
      BY <3>2 DEF Spawned
    <3> QED
      BY <1>2, <3>2, <3>3, <3>4, <3>5, <3>6, InstallerStep
  <2> QED
    BY <2>1, <2>2
<1> QED
  BY <1>1, <1>7, <1>8

LEMMA UnrecordKeeps ==
  ASSUME IInv, UNCHANGED hostVars, NEW w \in Worker, Unrecord(w)
  PROVE  IInv'
<1>1. op[w].at = "unrecord" /\ UNCHANGED <<code, grants, row, undone>>
  BY DEF Unrecord
<1>2. op \in [Worker -> Operation] /\ op[w] \in Operation /\ InstallTypeOK /\ Tables /\ op[w].at \in Installing
      /\ calls \in Nat
  BY <1>1, InHandNow DEF Installing
<1>3. PICK n : n = op[w].call
  OBVIOUS
<1>4. n \in Call /\ n \notin undone /\ op[w].own = By(n) /\ op[w].own \subseteq Nat
  BY <1>1, <1>2, <1>3, InstallInHand
<1>5. By(n)' = By(n) /\ Active(n)' = Active(n) /\ \A m : By(m)' = By(m) /\ Active(m)' = Active(m)
  BY <1>1 DEF By, Active
<1>6. PICK all \in SUBSET Nat : all = op[w].own
  BY <1>4
<1>7. Goto(w, [op[w] EXCEPT !.at = "rollback", !.rest = all])
  BY <1>6 DEF Unrecord
<1>8. GoesTo(w, "rollback", op[w].own, all) /\ Moves(w) /\ "rollback" \in Installing
  BY <1>7, ToRollback
<1>9. op'[w].call = n /\ op'[w].own = op[w].own /\ op'[w].at = "rollback" /\ op'[w].rest = op[w].own
  BY <1>3, <1>6, <1>8 DEF GoesTo
<1>10. cut' = cut \union {n} /\ cut' \subseteq Call
  BY <1>2, <1>3, <1>4 DEF Unrecord, InstallTypeOK
<1>11. Installs(op[w])'
  <2>1. Active(n) \subseteq By(n)
    BY DEF Active, By
  <2> QED
    BY <1>1, <1>4, <1>5, <1>9, <1>10, <2>1, InstallsNext
<1>12. record' \in [Capsule -> Call \union {None}] /\ \A c \in Capsule : record'[c] # None => record'[c] = record[c]
  <2>1. record \in [Capsule -> Call \union {None}]
    BY <1>2 DEF InstallTypeOK
  <2> QED
    BY <2>1 DEF Unrecord
<1>13. InstallTypeOK' /\ calls' = calls
  BY <1>1, <1>2, <1>8, <1>10, <1>12 DEF InstallTypeOK, Moves
<1>14. KeptBut(op[w].call)
  <2>1. \A m : Recorded(m)' => Recorded(m)
    BY <1>12 DEF Recorded
  <2> QED
    BY <1>1, <1>2, <1>3, <1>5, <1>10, <1>13, <2>1 DEF KeptBut
<1>15. Tables'
  <2>1. ASSUME NEW d \in Capsule, record'[d] # None
        PROVE  /\ record'[d] \in 1 .. calls'
               /\ Cardinality(By(record[d]))' = Permissions
               /\ record'[d] \notin cut' => By(record[d])' = Active(record[d])'
    <3>1. PICK r : r = record'[d] /\ r = record[d]
      BY <1>12, <2>1
    <3>2. r \in 1 .. calls /\ Cardinality(By(r)) = Permissions /\ (r \notin cut => By(r) = Active(r))
      BY <1>2, <2>1, <3>1 DEF Tables
    <3>3. By(record[d])' = By(r)' /\ Active(record[d])' = Active(r)'
      BY <3>1
    <3> QED
      BY <1>5, <1>10, <1>13, <3>1, <3>2, <3>3
  <2>2. \A h \in DOMAIN grants' : grants'[h].by \in 1 .. calls'
    BY <1>1, <1>2, <1>13 DEF Tables
  <2>3. \A m \in undone' : m \in 1 .. calls' /\ Active(m)' = {}
    BY <1>1, <1>2, <1>5, <1>13 DEF Tables
  <2> QED
    BY <2>1, <2>2, <2>3 DEF Tables
<1> QED
  BY <1>2, <1>8, <1>11, <1>13, <1>14, <1>15, InstallGoesOn

LEMMA RollbackKeeps ==
  ASSUME IInv, UNCHANGED hostVars, NEW w \in Worker, Rollback(w)
  PROVE  IInv'
<1>1. op[w].at = "rollback" /\ UNCHANGED <<record, row, cut>>
  BY DEF Rollback
<1>2. op \in [Worker -> Operation] /\ op[w] \in Operation /\ InstallTypeOK /\ Tables /\ op[w].at \in Installing
      /\ calls \in Nat
  BY <1>1, InHandNow DEF Installing
<1>3. PICK n : n = op[w].call
  OBVIOUS
<1>4. n \in 1 .. calls /\ n \in Call /\ n \notin undone /\ op[w].own = By(n) /\ op[w].own \subseteq Nat
      /\ (Recorded(n) => n \in cut) /\ op[w].rest \subseteq op[w].own /\ Active(n) \subseteq op[w].rest
  BY <1>1, <1>2, <1>3, InstallInHand
<1>5. code' \in [Capsule -> {"none", "partial", "whole"}] /\ row' \in [Capsule -> Row]
  <2>1. code \in [Capsule -> {"none", "partial", "whole"}] /\ row \in [Capsule -> Row]
    BY <1>2 DEF InstallTypeOK
  <2> QED
    BY <1>1, <2>1 DEF Rollback
<1>6. CASE \E g \in op[w].rest : /\ grants' = Revoked({g})
                                 /\ Goto(w, [op[w] EXCEPT !.rest = @ \ {g}])
                                 /\ UNCHANGED <<code, undone>>
  <2>1. PICK g \in op[w].rest : /\ grants' = Revoked({g})
                                /\ Goto(w, [op[w] EXCEPT !.rest = @ \ {g}])
                                /\ UNCHANGED <<code, undone>>
    BY <1>6
  <2>2. GoesTo(w, "rollback", op[w].own, op[w].rest \ {g}) /\ Moves(w) /\ "rollback" \in Installing
    BY <1>1, <1>2, <2>1, RestMoves DEF GoesTo, Installing
  <2>3. g \in DOMAIN grants /\ grants[g].by = n
    BY <1>4 DEF By
  <2>4. InstallTypeOK' /\ KeptBut(op[w].call) /\ Tables'
    BY <1>1, <1>3, <1>4, <2>1, <2>2, <2>3, RevokeKeeps
  <2>5. By(n)' = By(n) /\ Active(n)' = Active(n) \ {g}
    BY <1>2, <2>1, Revoking DEF InstallTypeOK
  <2>6. Recorded(n)' => n \in cut'
    BY <1>1, <1>4 DEF Recorded
  <2>7. op'[w].call = n /\ op'[w].own = op[w].own /\ op'[w].at = "rollback" /\ op'[w].rest = op[w].rest \ {g}
    BY <1>3, <2>2 DEF GoesTo
  <2>8. Installs(op[w])'
    BY <1>4, <2>1, <2>5, <2>6, <2>7, InstallsNext
  <2> QED
    BY <1>2, <2>2, <2>4, <2>8, InstallGoesOn
<1>7. CASE Give(w) /\ UNCHANGED <<grants, undone>>
  BY <1>1, <1>2, <1>5, <1>7, GiveEnds, QuietTables, InstallerEnds DEF Ends
<1>8. CASE op[w].rest = {} /\ undone' = undone \union {op[w].call} /\ Give(w) /\ UNCHANGED grants
  <2>1. Ends(w) /\ Moves(w) /\ calls' = calls /\ op' \in [Worker -> Operation]
    BY <1>2, <1>8, GiveEnds DEF Ends, Moves
  <2>2. undone' = undone \union {n} /\ undone' \subseteq Call
    BY <1>2, <1>3, <1>4, <1>8 DEF InstallTypeOK
  <2>3. \A m : By(m)' = By(m) /\ Active(m)' = Active(m) /\ (Recorded(m)' => Recorded(m))
    BY <1>1, <1>8 DEF By, Active, Recorded
  <2>4. InstallTypeOK'
    BY <1>1, <1>2, <1>5, <1>8, <2>1, <2>2 DEF InstallTypeOK
  <2>5. KeptBut(op[w].call)
    BY <1>1, <1>2, <1>3, <1>8, <2>1, <2>2, <2>3 DEF KeptBut
  <2>6. Tables'
    <3>1. ASSUME NEW d \in Capsule, record'[d] # None
          PROVE  /\ record'[d] \in 1 .. calls'
                 /\ Cardinality(By(record[d]))' = Permissions
                 /\ record'[d] \notin cut' => By(record[d])' = Active(record[d])'
      <4>1. PICK r : r = record'[d] /\ r = record[d]
        BY <1>1
      <4>2. r \in 1 .. calls /\ Cardinality(By(r)) = Permissions /\ (r \notin cut => By(r) = Active(r))
        BY <1>2, <3>1, <4>1 DEF Tables
      <4>3. By(record[d])' = By(r)' /\ Active(record[d])' = Active(r)'
        BY <4>1
      <4> QED
        BY <1>1, <2>1, <2>3, <4>1, <4>2, <4>3
    <3>2. \A h \in DOMAIN grants' : grants'[h].by \in 1 .. calls'
      BY <1>2, <1>8, <2>1 DEF Tables
    <3>3. Active(n) = {}
      BY <1>4, <1>8
    <3>4. \A m \in undone' : m \in 1 .. calls' /\ Active(m)' = {}
      BY <1>2, <1>4, <2>1, <2>2, <2>3, <3>3 DEF Tables
    <3> QED
      BY <3>1, <3>2, <3>4 DEF Tables
  <2> QED
    BY <1>2, <2>1, <2>4, <2>5, <2>6, InstallerEnds
<1> QED
  BY <1>6, <1>7, <1>8 DEF Rollback

-----------------------------------------------------------------------------
(* The steps of an uninstall. *)
LEMMA RemovesNext ==
  ASSUME NEW w \in Worker,
         op'[w].at \in {"revoke", "delete", "unregister", "removeCode"} =>
           /\ op'[w].own \subseteq DOMAIN grants'
           /\ op'[w].at = "revoke" => op'[w].rest \subseteq op'[w].own
           /\ \A g \in op'[w].own : grants'[g].by \in cut'
           /\ \A g \in op'[w].own : grants'[g].active => op'[w].at = "revoke" /\ g \in op'[w].rest
  PROVE  Removes(op[w])'
BY DEF Removes

LEMMA RemovalInHand ==
  ASSUME IInv, NEW w \in Worker, op[w].at \in Removing
  PROVE  /\ op \in [Worker -> Operation] /\ op[w] \in Operation /\ InstallTypeOK /\ Tables /\ calls \in Nat
         /\ op[w].call \in Call /\ op[w].name \in Capsule /\ op[w].own \in SUBSET Nat /\ op[w].rest \in SUBSET Nat
         /\ op[w].then = "idle"
         /\ op[w].at \in {"revoke", "delete", "unregister", "removeCode"} =>
              /\ op[w].own \subseteq DOMAIN grants
              /\ op[w].at = "revoke" => op[w].rest \subseteq op[w].own
              /\ \A g \in op[w].own : grants[g].by \in cut
              /\ \A g \in op[w].own : grants[g].active => op[w].at = "revoke" /\ g \in op[w].rest
<1>1. /\ op \in [Worker -> Operation] /\ op[w] \in Operation /\ InstallTypeOK /\ Tables /\ calls \in Nat
      /\ 1 .. calls \subseteq Call /\ Located(op[w]) /\ Removes(op[w])
  BY InHandNow
<1>2. op[w].call \in Call /\ op[w].name \in Capsule
  BY <1>1 DEF Located, Removing, Nameless
<1>3. op[w].own \in SUBSET Nat /\ op[w].rest \in SUBSET Nat
  BY <1>1 DEF Operation
<1>4. op[w].then = "idle"
  BY <1>1 DEF Operation, Located, Removing, Installing, Stopping
<1> QED
  BY <1>1, <1>2, <1>3, <1>4 DEF Removes

(* A step of an uninstall that touches neither grants nor records. *)
LEMMA RemovalQuiet ==
  ASSUME IInv, UNCHANGED hostVars, UNCHANGED <<record, grants, cut, undone>>, NEW w \in Worker, op[w].at \in Removing,
         NEW label \in Removing, At(w, label),
         code' \in [Capsule -> {"none", "partial", "whole"}], row' \in [Capsule -> Row],
         \/ label = "listGrants"
         \/ label = "delete" /\ op[w].at = "revoke" /\ op[w].rest = {}
         \/ label = "unregister" /\ op[w].at = "delete"
         \/ label = "removeCode" /\ op[w].at = "unregister"
  PROVE  IInv'
<1>1. op \in [Worker -> Operation] /\ label \in Label
  BY RemovalInHand DEF Label
<1>2. GoesTo(w, label, op[w].own, op[w].rest) /\ Moves(w)
  BY <1>1, AtMoves DEF GoesTo
<1>3. op'[w].at = label /\ op'[w].own = op[w].own /\ op'[w].rest = op[w].rest
  BY <1>2 DEF GoesTo
<1>4. Removes(op[w])'
  BY <1>3, RemovalInHand, RemovesNext
<1> QED
  BY <1>2, <1>4, QuietTables, RemovalGoesOn

LEMMA GetRecordKeeps ==
  ASSUME IInv, UNCHANGED hostVars, NEW w \in Worker, GetRecord(w)
  PROVE  IInv'
<1>1. op[w].at = "remove" /\ UNCHANGED <<record, code, grants, row, cut, undone>> /\ (At(w, "listGrants") \/ Give(w))
  BY DEF GetRecord
<1>2. op[w].at \in Removing /\ "listGrants" \in Removing
  BY <1>1 DEF Removing
<1>3. code' \in [Capsule -> {"none", "partial", "whole"}] /\ row' \in [Capsule -> Row] /\ op \in [Worker -> Operation]
  BY <1>1, <1>2, RemovalInHand DEF InstallTypeOK
<1>4. CASE Give(w)
  BY <1>1, <1>2, <1>3, <1>4, GiveEnds, QuietTables, InstallerEnds DEF Ends
<1>5. CASE At(w, "listGrants")
  BY <1>1, <1>2, <1>3, <1>5, RemovalQuiet
<1> QED
  BY <1>1, <1>4, <1>5

LEMMA ListGrantsKeeps ==
  ASSUME IInv, UNCHANGED hostVars, NEW w \in Worker, ListGrants(w)
  PROVE  IInv'
<1>1. PICK held : held = {g \in DOMAIN grants : grants[g].holder = op[w].name /\ grants[g].active}
  OBVIOUS
<1>2. /\ op[w].at = "listGrants" /\ UNCHANGED <<record, code, grants, row, undone>>
      /\ cut' = cut \union {grants[g].by : g \in held}
      /\ Goto(w, [op[w] EXCEPT !.at = "revoke", !.own = held, !.rest = held])
  BY <1>1 DEF ListGrants
<1>3. op[w].at \in Removing /\ "revoke" \in Removing /\ "revoke" \in Label
  BY <1>2 DEF Removing, Label
<1>4. op \in [Worker -> Operation] /\ op[w] \in Operation /\ InstallTypeOK /\ Tables /\ calls \in Nat
  BY <1>3, RemovalInHand
<1>5. grants \in Seq(Grant) /\ held \subseteq DOMAIN grants /\ held \in SUBSET Nat
  BY <1>1, <1>4 DEF InstallTypeOK
<1>6. \A g \in held : grants[g].by \in cut'
  BY <1>2
<1>7. cut' \subseteq Call /\ cut \subseteq cut'
  <2>1. \A g \in DOMAIN grants : grants[g] \in Grant
    BY <1>5
  <2>2. \A g \in DOMAIN grants : grants[g].by \in Call
    BY <2>1 DEF Grant
  <2> QED
    BY <1>2, <1>4, <1>5, <2>2 DEF InstallTypeOK
<1>8. PICK o \in Operation : o = [op[w] EXCEPT !.at = "revoke", !.own = held, !.rest = held]
  BY <1>3, <1>4, <1>5 DEF Operation, Label
<1>9. o.at = "revoke" /\ o.own = held /\ o.rest = held /\ o.name = op[w].name /\ o.call = op[w].call
      /\ o.then = op[w].then /\ o.client = op[w].client
  BY <1>4, <1>8 DEF Operation
<1>10. Goto(w, o)
  BY <1>2, <1>8
<1>11. GoesTo(w, "revoke", held, held) /\ Moves(w) /\ calls' = calls /\ op' \in [Worker -> Operation]
  BY <1>4, <1>9, <1>10, GotoMoves DEF GoesTo, Moves
<1>12. Removes(op[w])'
  <2>1. op'[w].at = "revoke" /\ op'[w].own = held /\ op'[w].rest = held
    BY <1>11 DEF GoesTo
  <2> QED
    BY <1>2, <1>5, <1>6, <2>1, RemovesNext
<1>13. InstallTypeOK'
  BY <1>2, <1>4, <1>7, <1>11 DEF InstallTypeOK
<1>14. \A m : By(m)' = By(m) /\ Active(m)' = Active(m) /\ (Recorded(m)' => Recorded(m))
  BY <1>2 DEF By, Active, Recorded
<1>15. KeptBut(op[w].call)
  BY <1>2, <1>4, <1>7, <1>11, <1>14 DEF KeptBut
<1>16. Tables'
  <2>1. ASSUME NEW d \in Capsule, record'[d] # None
        PROVE  /\ record'[d] \in 1 .. calls'
               /\ Cardinality(By(record[d]))' = Permissions
               /\ record'[d] \notin cut' => By(record[d])' = Active(record[d])'
    <3>1. PICK r : r = record'[d] /\ r = record[d]
      BY <1>2
    <3>2. r \in 1 .. calls /\ Cardinality(By(r)) = Permissions /\ (r \notin cut => By(r) = Active(r))
      BY <1>4, <2>1, <3>1 DEF Tables
    <3>3. By(record[d])' = By(r)' /\ Active(record[d])' = Active(r)'
      BY <3>1
    <3> QED
      BY <1>7, <1>11, <1>14, <3>1, <3>2, <3>3
  <2>2. \A h \in DOMAIN grants' : grants'[h].by \in 1 .. calls'
    BY <1>2, <1>4, <1>11 DEF Tables
  <2>3. \A m \in undone' : m \in 1 .. calls' /\ Active(m)' = {}
    BY <1>2, <1>4, <1>11, <1>14 DEF Tables
  <2> QED
    BY <2>1, <2>2, <2>3 DEF Tables
<1> QED
  BY <1>3, <1>11, <1>12, <1>13, <1>15, <1>16, RemovalGoesOn

LEMMA RevokeGrantsKeeps ==
  ASSUME IInv, UNCHANGED hostVars, NEW w \in Worker, RevokeGrants(w)
  PROVE  IInv'
<1>1. op[w].at = "revoke" /\ UNCHANGED <<record, code, row, cut, undone>>
  BY DEF RevokeGrants
<1>2. op[w].at \in Removing /\ "delete" \in Removing /\ "revoke" \in Removing
  BY <1>1 DEF Removing
<1>3. /\ op \in [Worker -> Operation] /\ op[w] \in Operation /\ InstallTypeOK /\ Tables /\ calls \in Nat
      /\ op[w].own \subseteq DOMAIN grants /\ op[w].rest \subseteq op[w].own
      /\ \A g \in op[w].own : grants[g].by \in cut
      /\ \A g \in op[w].own : grants[g].active => g \in op[w].rest
  BY <1>1, <1>2, RemovalInHand
<1>4. code' \in [Capsule -> {"none", "partial", "whole"}] /\ row' \in [Capsule -> Row]
  BY <1>1, <1>3 DEF InstallTypeOK
<1>5. CASE \E g \in op[w].rest : grants' = Revoked({g}) /\ Goto(w, [op[w] EXCEPT !.rest = @ \ {g}])
  <2>1. PICK g \in op[w].rest : grants' = Revoked({g}) /\ Goto(w, [op[w] EXCEPT !.rest = @ \ {g}])
    BY <1>5
  <2>2. GoesTo(w, "revoke", op[w].own, op[w].rest \ {g}) /\ Moves(w)
    BY <1>1, <1>3, <2>1, RestMoves DEF GoesTo
  <2>3. g \in DOMAIN grants /\ grants[g].by \in cut
    BY <1>3
  <2>4. InstallTypeOK' /\ KeptBut(op[w].call) /\ Tables'
    BY <1>1, <2>1, <2>2, <2>3, RevokeKeeps
  <2>5. /\ DOMAIN grants' = DOMAIN grants
        /\ \A h \in DOMAIN grants : /\ grants'[h].by = grants[h].by
                                    /\ grants'[h].active <=> grants[h].active /\ h \notin {g}
    BY <1>3, <2>1, Revoking DEF InstallTypeOK
  <2>6. op'[w].at = "revoke" /\ op'[w].own = op[w].own /\ op'[w].rest = op[w].rest \ {g}
    BY <2>2 DEF GoesTo
  <2>7. Removes(op[w])'
    BY <1>1, <1>3, <2>5, <2>6, RemovesNext
  <2> QED
    BY <1>2, <2>2, <2>4, <2>7, RemovalGoesOn
<1>6. CASE op[w].rest = {} /\ At(w, "delete") /\ UNCHANGED grants
  BY <1>1, <1>2, <1>4, <1>6, RemovalQuiet
<1>7. CASE Give(w) /\ UNCHANGED grants
  BY <1>1, <1>2, <1>3, <1>4, <1>7, GiveEnds, QuietTables, InstallerEnds DEF Ends
<1> QED
  BY <1>5, <1>6, <1>7 DEF RevokeGrants

LEMMA DeleteKeeps ==
  ASSUME IInv, UNCHANGED hostVars, NEW w \in Worker, Delete(w)
  PROVE  IInv'
<1>1. op[w].at = "delete" /\ UNCHANGED <<code, grants, row, cut, undone>>
  BY DEF Delete
<1>2. op[w].at \in Removing /\ "unregister" \in Removing /\ "unregister" \in Label
  BY <1>1 DEF Removing, Label
<1>3. /\ op \in [Worker -> Operation] /\ op[w] \in Operation /\ InstallTypeOK /\ Tables /\ calls \in Nat
      /\ op[w].own \subseteq DOMAIN grants
      /\ \A g \in op[w].own : grants[g].by \in cut
      /\ \A g \in op[w].own : ~ grants[g].active
  BY <1>1, <1>2, RemovalInHand
<1>4. code' \in [Capsule -> {"none", "partial", "whole"}] /\ row' \in [Capsule -> Row]
  BY <1>1, <1>3 DEF InstallTypeOK
<1>5. CASE Give(w) /\ UNCHANGED record
  BY <1>1, <1>2, <1>3, <1>4, <1>5, GiveEnds, QuietTables, InstallerEnds DEF Ends
<1>6. CASE record' = [record EXCEPT ![op[w].name] = None] /\ At(w, "unregister")
  <2>1. GoesTo(w, "unregister", op[w].own, op[w].rest) /\ Moves(w)
    BY <1>2, <1>3, <1>6, AtMoves DEF GoesTo
  <2>2. record' \in [Capsule -> Call \union {None}] /\ \A c \in Capsule : record'[c] # None => record'[c] = record[c]
    <3>1. record \in [Capsule -> Call \union {None}]
      BY <1>3 DEF InstallTypeOK
    <3> QED
      BY <1>6, <3>1
  <2>3. InstallTypeOK' /\ calls' = calls
    BY <1>1, <1>3, <2>1, <2>2 DEF InstallTypeOK, Moves
  <2>4. \A m : By(m)' = By(m) /\ Active(m)' = Active(m) /\ (Recorded(m)' => Recorded(m))
    BY <1>1, <2>2 DEF By, Active, Recorded
  <2>5. KeptBut(op[w].call)
    BY <1>1, <1>3, <2>3, <2>4 DEF KeptBut
  <2>6. Tables'
    <3>1. ASSUME NEW d \in Capsule, record'[d] # None
          PROVE  /\ record'[d] \in 1 .. calls'
                 /\ Cardinality(By(record[d]))' = Permissions
                 /\ record'[d] \notin cut' => By(record[d])' = Active(record[d])'
      <4>1. PICK r : r = record'[d] /\ r = record[d]
        BY <2>2, <3>1
      <4>2. r \in 1 .. calls /\ Cardinality(By(r)) = Permissions /\ (r \notin cut => By(r) = Active(r))
        BY <1>3, <3>1, <4>1 DEF Tables
      <4>3. By(record[d])' = By(r)' /\ Active(record[d])' = Active(r)'
        BY <4>1
      <4> QED
        BY <1>1, <2>3, <2>4, <4>1, <4>2, <4>3
    <3>2. \A h \in DOMAIN grants' : grants'[h].by \in 1 .. calls'
      BY <1>1, <1>3, <2>3 DEF Tables
    <3>3. \A m \in undone' : m \in 1 .. calls' /\ Active(m)' = {}
      BY <1>1, <1>3, <2>3, <2>4 DEF Tables
    <3> QED
      BY <3>1, <3>2, <3>3 DEF Tables
  <2>7. Removes(op[w])'
    <3>1. op'[w].at = "unregister" /\ op'[w].own = op[w].own
      BY <2>1 DEF GoesTo
    <3> QED
      BY <1>1, <1>3, <3>1, RemovesNext
  <2> QED
    BY <1>2, <2>1, <2>3, <2>5, <2>6, <2>7, RemovalGoesOn
<1> QED
  BY <1>5, <1>6 DEF Delete

LEMMA OnUninstallKeeps ==
  ASSUME IInv, UNCHANGED hostVars, NEW w \in Worker, OnUninstall(w)
  PROVE  IInv'
<1>1. op[w].at = "unregister" /\ UNCHANGED <<record, code, grants, cut, undone>> /\ At(w, "removeCode")
  BY DEF OnUninstall
<1>2. op[w].at \in Removing /\ "removeCode" \in Removing
  BY <1>1 DEF Removing
<1>3. code' \in [Capsule -> {"none", "partial", "whole"}] /\ row' \in [Capsule -> Row]
  <2>1. code \in [Capsule -> {"none", "partial", "whole"}] /\ row \in [Capsule -> Row] /\ "none" \in Row
    BY <1>2, RemovalInHand DEF InstallTypeOK, Row
  <2> QED
    BY <1>1, <2>1 DEF OnUninstall
<1> QED
  BY <1>1, <1>2, <1>3, RemovalQuiet

LEMMA RemoveCodeKeeps ==
  ASSUME IInv, UNCHANGED hostVars, NEW w \in Worker, RemoveCode(w)
  PROVE  IInv'
<1>1. op[w].at = "removeCode" /\ UNCHANGED <<record, grants, row, cut, undone>> /\ Return(w)
  BY DEF RemoveCode
<1>2. op[w].at \in Removing
  BY <1>1 DEF Removing
<1>3. op \in [Worker -> Operation] /\ InstallTypeOK /\ op[w].then = "idle"
  BY <1>2, RemovalInHand
<1>4. code' \in [Capsule -> {"none", "partial", "whole"}] /\ row' \in [Capsule -> Row]
  <2>1. code \in [Capsule -> {"none", "partial", "whole"}] /\ row \in [Capsule -> Row]
    BY <1>3 DEF InstallTypeOK
  <2> QED
    BY <1>1, <2>1 DEF RemoveCode
<1> QED
  BY <1>1, <1>2, <1>3, <1>4, ReturnMoves, QuietTables, InstallerEnds DEF Ends

-----------------------------------------------------------------------------
(* The steps of the host. *)
LEMMA HostEnds ==
  ASSUME IInv, HostTypeOK', UNCHANGED <<record, code, grants, row, cut, undone>>, NEW w \in Worker, Ends(w),
         op[w].at # "idle", HostKeptBut(op[w].call), HostTables'
  PROVE  IInv'
<1>1. Moves(w) /\ op'[w].at = "idle" /\ op'[w].then = "idle"
  BY DEF Ends, Idle
<1>2. Located(op[w])' /\ Hosts(op[w])'
  BY <1>1 DEF Located, Hosts, Nameless, Installing, Spawned, Starting
<1> QED
  BY <1>1, <1>2, HostsStep DEF Installing

(* A command line process may die anywhere. *)
LEMMA CommandDiesKeeps ==
  ASSUME IInv, UNCHANGED hostVars, NEW w \in Worker, CommandDies(w)
  PROVE  IInv'
<1>1. op[w].at # "idle" /\ UNCHANGED <<record, code, grants, row, cut, undone>> /\ Give(w)
  BY DEF CommandDies
<1>2. op \in [Worker -> Operation] /\ HostTypeOK /\ HostTables
  BY InHandNow
<1>3. Ends(w) /\ Moves(w) /\ calls' = calls /\ op' \in [Worker -> Operation]
  BY <1>1, <1>2, GiveEnds DEF Ends, Moves
<1>4. HostTypeOK' /\ HostTables'
  BY <1>1, <1>2, <1>3 DEF HostTypeOK, InstallTypeOK, HostTables, hostVars, Live
<1>5. HostKeptBut(op[w].call)
  BY DEF HostKeptBut, hostVars
<1> QED
  BY <1>1, <1>3, <1>4, <1>5, HostEnds

(* The host's tables stand, or lose entries that nothing live needs. *)
LEMMA HostTablesStand ==
  ASSUME IInv, NEW w \in Worker, Moves(w), UNCHANGED installVars, proc' \in [Client -> State], mounted' = mounted,
         UNCHANGED <<owner, running, ticker, tick, cancelled>>, smu' \in Worker \union {None}
  PROVE  HostTypeOK' /\ HostTables' /\ HostKeptBut(op[w].call)
<1>1. HostTypeOK /\ HostTables
  BY InHandNow
<1>2. op' \in [Worker -> Operation] /\ calls' = calls
  BY DEF Moves
<1>3. HostTypeOK'
  BY <1>1, <1>2 DEF HostTypeOK, InstallTypeOK, installVars
<1>4. HostTables'
  BY <1>1, <1>2 DEF HostTables, Live
<1> QED
  BY <1>3, <1>4 DEF HostKeptBut

LEMMA StartInHand ==
  ASSUME IInv, NEW w \in Worker, op[w].at \in Starting
  PROVE  /\ op \in [Worker -> Operation] /\ op[w] \in Operation /\ HostTypeOK /\ HostTables /\ Located(op[w])
         /\ op[w].at # "idle" /\ op[w].then = "idle"
         /\ op[w].call \in 1 .. calls /\ op[w].call \in Client /\ op[w].name \in Capsule
         /\ op[w].at \in Spawned => op[w].client = op[w].call /\ owner[op[w].client] = op[w].name
         /\ op[w].at \in {"start", "spawn"} => tick[op[w].call] = "none"
<1>1. /\ op \in [Worker -> Operation] /\ op[w] \in Operation /\ HostTypeOK /\ HostTables /\ Located(op[w]) /\ Hosts(op[w])
      /\ 1 .. calls \subseteq Call
  BY InHandNow
<1>2. op[w].at # "idle" /\ op[w].then = "idle" /\ op[w].call \in 1 .. calls /\ op[w].call \in Client /\ op[w].name \in Capsule
  BY <1>1 DEF Operation, Located, Starting, Nameless, Installing, Stopping, Client
<1> QED
  BY <1>1, <1>2 DEF Hosts

LEMMA StopInHand ==
  ASSUME IInv, NEW w \in Worker, op[w].at \in Stopping
  PROVE  /\ op \in [Worker -> Operation] /\ op[w] \in Operation /\ HostTypeOK /\ HostTables /\ Located(op[w])
         /\ op[w].at # "idle" /\ op[w].then \in {"idle", "remove", "stopNext"}
         /\ op[w].call \in 1 .. calls /\ op[w].name \in Capsule
         /\ op[w].then = "stopNext" => \A k \in op[w].own : k \in Client /\ owner[k] \in Capsule
         /\ op[w].at = "stop" => op[w].then # "stopNext"
<1>1. /\ op \in [Worker -> Operation] /\ op[w] \in Operation /\ HostTypeOK /\ HostTables /\ Located(op[w]) /\ Hosts(op[w])
  BY InHandNow
<1>2. op[w].at # "idle" /\ op[w].call \in 1 .. calls /\ op[w].name \in Capsule
      /\ op[w].then \in {"idle", "remove", "stopNext"} /\ (op[w].at = "stop" => op[w].then # "stopNext")
  BY <1>1 DEF Operation, Located, Stopping, Nameless, Installing
<1> QED
  BY <1>1, <1>2 DEF Hosts

(* A start goes on, or turns to the end of a client that did not start. *)
LEMMA StartGoesOn ==
  ASSUME IInv, HostTypeOK', UNCHANGED <<record, code, grants, row, cut, undone>>, NEW w \in Worker, Moves(w),
         op[w].at \in Starting, op'[w].at \in (Starting \ {"start"}) \union {"terminate"},
         op'[w].name = op[w].name, op'[w].call = op[w].call, op'[w].then = op[w].then,
         op'[w].at \in Spawned => op'[w].client = op[w].call /\ owner'[op[w].call] = op[w].name,
         op'[w].at = "spawn" => tick'[op[w].call] = "none",
         HostKeptBut(op[w].call), HostTables'
  PROVE  IInv'
<1>1. op[w].at # "idle" /\ op[w].then = "idle" /\ op[w].call \in 1 .. calls /\ op[w].name \in Capsule
  BY StartInHand
<1>2. Located(op[w])'
  BY <1>1 DEF Located, Moves
<1>3. op'[w].at \notin {"start", "stopNext"} \union Installing
  BY DEF Starting, Installing
<1>4. Hosts(op[w])'
  BY <1>1, <1>3 DEF Hosts
<1>5. op'[w].at \notin Installing \union {"revoke", "delete", "unregister", "removeCode"}
  BY DEF Starting, Installing
<1> QED
  BY <1>1, <1>2, <1>4, <1>5, HostsStep

LEMMA StopGoesOn ==
  ASSUME IInv, HostTypeOK', UNCHANGED <<record, code, grants, row, cut, undone>>, NEW w \in Worker, Moves(w),
         op[w].at \in Stopping, op'[w].at \in Stopping \ {"stop"},
         op'[w].name = op[w].name, op'[w].call = op[w].call, op'[w].then = op[w].then, op'[w].own = op[w].own,
         HostKeptBut(op[w].call), HostTables'
  PROVE  IInv'
<1>1. /\ op[w].at # "idle" /\ op[w].then \in {"idle", "remove", "stopNext"}
      /\ op[w].call \in 1 .. calls /\ op[w].name \in Capsule
      /\ op[w].then = "stopNext" => \A k \in op[w].own : k \in Client /\ owner[k] \in Capsule
  BY StopInHand
<1>2. Located(op[w])'
  BY <1>1 DEF Located, Moves
<1>3. op'[w].at \notin {"start", "spawn", "stopNext"} \union Installing \union Spawned
  BY DEF Stopping, Installing, Spawned, Starting
<1>4. Hosts(op[w])'
  BY <1>1, <1>3 DEF Hosts, HostKeptBut
<1>5. op'[w].at \notin Installing \union {"revoke", "delete", "unregister", "removeCode"}
  BY DEF Stopping, Installing
<1> QED
  BY <1>1, <1>2, <1>4, <1>5, HostsStep

(* A stop returns to what its caller does next. *)
LEMMA StopReturns ==
  ASSUME IInv, HostTypeOK', UNCHANGED <<record, code, grants, row, cut, undone>>, NEW w \in Worker, Return(w),
         op[w].at \in Stopping, HostKeptBut(op[w].call), HostTables'
  PROVE  IInv'
<1>1. /\ op[w].at # "idle" /\ op[w].then \in {"idle", "remove", "stopNext"} /\ op \in [Worker -> Operation]
      /\ op[w].call \in 1 .. calls /\ op[w].name \in Capsule
      /\ op[w].then = "stopNext" => \A k \in op[w].own : k \in Client /\ owner[k] \in Capsule
  BY StopInHand
<1>2. CASE op[w].then = "idle"
  BY <1>1, <1>2, ReturnMoves, HostEnds
<1>3. CASE op[w].then # "idle"
  <2>1. /\ Moves(w) /\ op'[w].at = op[w].then /\ op'[w].then = "idle" /\ op'[w].own = op[w].own
        /\ op'[w].name = op[w].name /\ op'[w].call = op[w].call
    BY <1>1, <1>3, ReturnMoves
  <2>2. Located(op[w])'
    BY <1>1, <2>1 DEF Located, Moves
  <2>3. op'[w].at \notin {"start", "spawn"} \union Installing \union Spawned
    BY <1>1, <1>3, <2>1 DEF Installing, Spawned, Starting
  <2>4. Hosts(op[w])'
    BY <1>1, <2>1, <2>3 DEF Hosts, HostKeptBut
  <2>5. op'[w].at \notin Installing \union {"revoke", "delete", "unregister", "removeCode"}
    BY <1>1, <1>3, <2>1 DEF Installing
  <2> QED
    BY <1>1, <2>1, <2>2, <2>4, <2>5, HostsStep
<1> QED
  BY <1>2, <1>3

LEMMA StartOneKeeps ==
  ASSUME IInv, UNCHANGED installVars, NEW w \in Worker, StartOne(w)
  PROVE  IInv'
<1>1. op[w].at = "start" /\ op[w].at \in Starting /\ UNCHANGED hostVars /\ (Return(w) \/ At(w, "spawn"))
  BY DEF StartOne, Starting
<1>2. op \in [Worker -> Operation] /\ op[w].then = "idle" /\ HostTypeOK /\ op[w].at # "idle" /\ tick[op[w].call] = "none"
  BY <1>1, StartInHand
<1>3. ASSUME Moves(w) PROVE HostTypeOK' /\ HostTables' /\ HostKeptBut(op[w].call)
  BY <1>1, <1>2, <1>3, HostTablesStand DEF hostVars, HostTypeOK
<1>4. CASE Return(w)
  <2>1. Ends(w) /\ Moves(w)
    BY <1>2, <1>4, ReturnMoves DEF Ends
  <2> QED
    BY <1>2, <1>3, <2>1, HostEnds DEF installVars
<1>5. CASE At(w, "spawn")
  <2>1. "spawn" \in Label /\ "spawn" \in Starting \ {"start"} /\ "spawn" \notin Spawned
    BY DEF Label, Starting, Spawned
  <2>2. GoesTo(w, "spawn", op[w].own, op[w].rest) /\ Moves(w)
    BY <1>2, <1>5, <2>1, AtMoves DEF GoesTo
  <2>3. /\ op'[w].at = "spawn" /\ op'[w].name = op[w].name /\ op'[w].call = op[w].call /\ op'[w].then = op[w].then
        /\ tick' = tick
    BY <1>1, <2>2 DEF GoesTo, hostVars
  <2> QED
    BY <1>1, <1>2, <1>3, <2>1, <2>2, <2>3, StartGoesOn DEF installVars
<1> QED
  BY <1>1, <1>4, <1>5

LEMMA SpawnKeeps ==
  ASSUME IInv, UNCHANGED installVars, NEW w \in Worker, Spawn(w)
  PROVE  IInv'
<1>1. PICK k : k = op[w].call
  OBVIOUS
<1>2. /\ op[w].at = "spawn" /\ op[w].at \in Starting /\ UNCHANGED <<running, mounted, ticker, tick, cancelled, smu>>
      /\ owner' = [owner EXCEPT ![k] = op[w].name]
      /\ \/ proc' = [proc EXCEPT ![k] = "running"] /\ Goto(w, [op[w] EXCEPT !.at = "handshake", !.client = k])
         \/ proc' = [proc EXCEPT ![k] = "failed"] /\ Return(w)
  BY <1>1 DEF Spawn, Starting
<1>3. /\ op \in [Worker -> Operation] /\ op[w] \in Operation /\ op[w].then = "idle" /\ HostTypeOK /\ HostTables
      /\ op[w].at # "idle" /\ tick[k] = "none" /\ k \in Client /\ op[w].name \in Capsule /\ k \in Nat
  BY <1>1, <1>2, StartInHand DEF Operation
<1>4. /\ owner' \in [Client -> Capsule \union {None}] /\ proc' \in [Client -> State]
      /\ owner'[k] = op[w].name /\ \A l \in Client \ {k} : owner'[l] = owner[l]
  BY <1>2, <1>3 DEF HostTypeOK, State
<1>5. HostKeptBut(op[w].call)
  BY <1>1, <1>2, <1>3, <1>4 DEF HostKeptBut
<1>6. ASSUME Moves(w) PROVE HostTypeOK' /\ HostTables'
  <2>1. op' \in [Worker -> Operation] /\ calls' = calls
    BY <1>6 DEF Moves
  <2>2. HostTypeOK'
    BY <1>2, <1>3, <1>4, <2>1 DEF HostTypeOK, InstallTypeOK, installVars
  <2>3. HostTables'
    <3>1. \A l \in Client : l > calls' => tick'[l] = "none"
      BY <1>2, <1>3, <2>1 DEF HostTables
    <3>2. \A c \in Capsule : running'[c] # 0 => owner'[running'[c]] \in Capsule
      BY <1>2, <1>3, <1>4 DEF HostTables, HostTypeOK
    <3>3. ASSUME NEW l \in Client, Live(l)'
          PROVE  owner'[l] \in Capsule /\ ticker'[owner'[l]] = l
      <4>1. Live(l) /\ l # k
        BY <1>2, <1>3, <3>3 DEF Live
      <4> QED
        BY <1>2, <1>3, <1>4, <4>1 DEF HostTables
    <3> QED
      BY <3>1, <3>2, <3>3 DEF HostTables
  <2> QED
    BY <2>2, <2>3
<1>7. CASE Return(w)
  <2>1. Ends(w) /\ Moves(w)
    BY <1>3, <1>7, ReturnMoves DEF Ends
  <2> QED
    BY <1>3, <1>5, <1>6, <2>1, HostEnds DEF installVars
<1>8. CASE Goto(w, [op[w] EXCEPT !.at = "handshake", !.client = k])
  <2>1. PICK o \in Operation : o = [op[w] EXCEPT !.at = "handshake", !.client = k]
    BY <1>3 DEF Operation, Starting
  <2>2. o.at = "handshake" /\ o.name = op[w].name /\ o.call = op[w].call /\ o.then = op[w].then /\ o.client = k
    BY <1>3, <2>1 DEF Operation
  <2>3. Goto(w, o)
    BY <1>8, <2>1
  <2>4. Moves(w) /\ op'[w] = o
    BY <1>3, <2>3, GotoMoves
  <2>5. "handshake" \in Starting \ {"start"}
    BY DEF Starting
  <2> QED
    BY <1>1, <1>2, <1>4, <1>5, <1>6, <2>2, <2>4, <2>5, StartGoesOn DEF installVars
<1> QED
  BY <1>2, <1>7, <1>8

LEMMA HandshakeKeeps ==
  ASSUME IInv, UNCHANGED installVars, NEW w \in Worker, Handshake(w)
  PROVE  IInv'
<1>1. op[w].at = "handshake" /\ op[w].at \in Starting /\ op[w].at \in Spawned /\ UNCHANGED hostVars
      /\ (At(w, "enter") \/ At(w, "terminate"))
  BY DEF Handshake, Starting, Spawned
<1>2. op \in [Worker -> Operation] /\ HostTypeOK /\ op[w].client = op[w].call /\ owner[op[w].client] = op[w].name
  BY <1>1, StartInHand
<1>3. PICK label \in {"enter", "terminate"} : At(w, label)
  BY <1>1
<1>4. label \in Label /\ label \in (Starting \ {"start"}) \union {"terminate"} /\ label # "spawn"
  BY DEF Label, Starting, Stopping
<1>5. GoesTo(w, label, op[w].own, op[w].rest) /\ Moves(w)
  BY <1>2, <1>3, <1>4, AtMoves DEF GoesTo
<1>6. /\ op'[w].at = label /\ op'[w].name = op[w].name /\ op'[w].call = op[w].call /\ op'[w].then = op[w].then
      /\ op'[w].client = op[w].call /\ owner'[op[w].call] = op[w].name
  BY <1>1, <1>2, <1>5 DEF GoesTo, hostVars
<1>7. HostTypeOK' /\ HostTables' /\ HostKeptBut(op[w].call)
  BY <1>1, <1>2, <1>5, HostTablesStand DEF hostVars, HostTypeOK
<1> QED
  BY <1>1, <1>4, <1>5, <1>6, <1>7, StartGoesOn DEF installVars

LEMMA EnterKeeps ==
  ASSUME IInv, UNCHANGED installVars, NEW w \in Worker, Enter(w)
  PROVE  IInv'
<1>1. PICK c : c = op[w].name
  OBVIOUS
<1>2. PICK k : k = op[w].call
  OBVIOUS
<1>3. op[w].at = "enter" /\ op[w].at \in Starting /\ op[w].at \in Spawned
      /\ UNCHANGED <<proc, owner, ticker, tick, cancelled, smu>> /\ At(w, "schedule")
  BY DEF Enter, Starting, Spawned
<1>4. /\ op \in [Worker -> Operation] /\ HostTypeOK /\ HostTables /\ op[w].client = k /\ owner[k] = c
      /\ c \in Capsule /\ k \in Client
  BY <1>1, <1>2, <1>3, StartInHand
<1>5. running' = [running EXCEPT ![c] = k] /\ mounted' = [mounted EXCEPT ![c] = IF @ = 0 THEN k ELSE @]
  BY <1>1, <1>4 DEF Enter
<1>6. running' \in [Capsule -> Client \union {0}] /\ mounted' \in [Capsule -> Client \union {0}]
      /\ running'[c] = k /\ \A d \in Capsule : d # c => running'[d] = running[d]
  BY <1>4, <1>5 DEF HostTypeOK
<1>7. "schedule" \in Label /\ "schedule" \in Starting \ {"start"}
  BY DEF Label, Starting
<1>8. GoesTo(w, "schedule", op[w].own, op[w].rest) /\ Moves(w)
  BY <1>3, <1>4, <1>7, AtMoves DEF GoesTo
<1>9. op' \in [Worker -> Operation] /\ calls' = calls
  BY <1>8 DEF Moves
<1>10. HostTypeOK'
  BY <1>3, <1>4, <1>6, <1>9 DEF HostTypeOK, InstallTypeOK, installVars
<1>11. HostTables'
  <2>1. \A l \in Client : l > calls' => tick'[l] = "none"
    BY <1>3, <1>4, <1>9 DEF HostTables
  <2>2. \A d \in Capsule : running'[d] # 0 => owner'[running'[d]] \in Capsule
    BY <1>3, <1>4, <1>6 DEF HostTables
  <2>3. \A l \in Client : Live(l)' => owner'[l] \in Capsule /\ ticker'[owner'[l]] = l
    BY <1>3, <1>4 DEF HostTables, Live
  <2> QED
    BY <2>1, <2>2, <2>3 DEF HostTables
<1>12. HostKeptBut(op[w].call)
  BY <1>3 DEF HostKeptBut
<1>13. /\ op'[w].at = "schedule" /\ op'[w].name = op[w].name /\ op'[w].call = op[w].call /\ op'[w].then = op[w].then
       /\ op'[w].client = op[w].call /\ owner'[op[w].call] = op[w].name
  BY <1>1, <1>2, <1>3, <1>4, <1>8 DEF GoesTo
<1> QED
  BY <1>3, <1>7, <1>8, <1>10, <1>11, <1>12, <1>13, StartGoesOn DEF installVars

(* The new ticker of a capsule that has no live one. *)
LEMMA NewTicker ==
  ASSUME IInv, UNCHANGED installVars, NEW w \in Worker, op[w].at \in {"schedule", "replace"},
         ticker' = [ticker EXCEPT ![op[w].name] = op[w].client],
         tick' = [tick EXCEPT ![op[w].client] = "waiting"],
         \A l \in Client : Live(l) => owner[l] # op[w].name,
         UNCHANGED <<proc, owner, running, mounted, cancelled>>, smu' \in Worker \union {None}, Return(w)
  PROVE  IInv'
<1>1. PICK c : c = op[w].name
  OBVIOUS
<1>2. PICK k : k = op[w].call
  OBVIOUS
<1>3. op[w].at \in Starting /\ op[w].at \in Spawned
  BY DEF Starting, Spawned
<1>4. /\ op \in [Worker -> Operation] /\ HostTypeOK /\ HostTables /\ op[w].client = k /\ owner[k] = c
      /\ c \in Capsule /\ k \in Client /\ op[w].then = "idle" /\ op[w].at # "idle" /\ k \in 1 .. calls /\ calls \in Nat
  BY <1>1, <1>2, <1>3, StartInHand, InHandNow
<1>5. ticker' = [ticker EXCEPT ![c] = k] /\ tick' = [tick EXCEPT ![k] = "waiting"]
  BY <1>1, <1>4
<1>6. /\ ticker' \in [Capsule -> Client \union {0}] /\ tick' \in [Client -> TickerState]
      /\ ticker'[c] = k /\ tick'[k] = "waiting"
      /\ \A d \in Capsule : d # c => ticker'[d] = ticker[d]
      /\ \A l \in Client : l # k => tick'[l] = tick[l]
  <2>1. ticker \in [Capsule -> Client \union {0}] /\ tick \in [Client -> TickerState] /\ "waiting" \in TickerState
    BY <1>4 DEF HostTypeOK, TickerState
  <2>2. ticker' \in [Capsule -> Client \union {0}] /\ ticker'[c] = k /\ \A d \in Capsule : d # c => ticker'[d] = ticker[d]
    BY <1>4, <1>5, <2>1
  <2>3. tick' \in [Client -> TickerState] /\ tick'[k] = "waiting" /\ \A l \in Client : l # k => tick'[l] = tick[l]
    BY <1>4, <1>5, <2>1
  <2> QED
    BY <2>2, <2>3
<1>7. Ends(w) /\ op' \in [Worker -> Operation] /\ calls' = calls
  BY <1>4, ReturnMoves DEF Ends, Moves
<1>8. HostTypeOK'
  BY <1>4, <1>6, <1>7 DEF HostTypeOK, InstallTypeOK, installVars
<1>9. HostTables'
  <2>1. \A l \in Client : l > calls' => tick'[l] = "none"
    <3>1. ~ (k > calls)
      BY <1>4
    <3> QED
      BY <1>4, <1>6, <1>7, <3>1 DEF HostTables
  <2>2. \A d \in Capsule : running'[d] # 0 => owner'[running'[d]] \in Capsule
    BY <1>4 DEF HostTables
  <2>3. ASSUME NEW l \in Client, Live(l)'
        PROVE  owner'[l] \in Capsule /\ ticker'[owner'[l]] = l
    <3>1. CASE l = k
      BY <1>4, <1>6, <3>1
    <3>2. CASE l # k
      <4>1. Live(l) /\ owner[l] \in Capsule /\ ticker[owner[l]] = l
        BY <1>4, <1>6, <2>3, <3>2 DEF Live, HostTables
      <4>2. owner[l] # c
        BY <1>1, <4>1
      <4> QED
        BY <1>6, <4>1, <4>2
    <3> QED
      BY <3>1, <3>2
  <2> QED
    BY <2>1, <2>2, <2>3 DEF HostTables
<1>10. HostKeptBut(op[w].call)
  BY <1>2, <1>6 DEF HostKeptBut
<1> QED
  BY <1>4, <1>7, <1>8, <1>9, <1>10, HostEnds DEF installVars

LEMMA ScheduleKeeps ==
  ASSUME IInv, UNCHANGED installVars, NEW w \in Worker, Schedule(w)
  PROVE  IInv'
<1>1. PICK c : c = op[w].name
  OBVIOUS
<1>2. op[w].at = "schedule" /\ op[w].at \in Starting /\ op[w].at \in Spawned /\ UNCHANGED <<proc, owner, running, mounted>>
  BY DEF Schedule, Starting, Spawned
<1>3. /\ op \in [Worker -> Operation] /\ HostTypeOK /\ HostTables /\ op[w].at # "idle" /\ op[w].then = "idle"
      /\ c \in Capsule /\ op[w].client = op[w].call /\ owner[op[w].call] = op[w].name
  BY <1>1, <1>2, StartInHand
<1>4. CASE Return(w) /\ UNCHANGED <<ticker, tick, cancelled, smu>>
  <2>1. Ends(w) /\ Moves(w)
    BY <1>3, <1>4, ReturnMoves DEF Ends
  <2>2. HostTypeOK' /\ HostTables' /\ HostKeptBut(op[w].call)
    BY <1>2, <1>3, <1>4, <2>1, HostTablesStand DEF HostTypeOK
  <2> QED
    BY <1>3, <2>1, <2>2, HostEnds DEF installVars
<1>5. CASE /\ ticker[c] = 0
           /\ ticker' = [ticker EXCEPT ![c] = op[w].client]
           /\ tick' = [tick EXCEPT ![op[w].client] = "waiting"]
           /\ Return(w)
           /\ UNCHANGED <<cancelled, smu>>
  <2>1. \A l \in Client : l # 0
    BY CapsuleAssumption DEF Client, Call
  <2>2. \A l \in Client : Live(l) => owner[l] # op[w].name
    BY <1>1, <1>3, <1>5, <2>1 DEF HostTables
  <2>3. smu' \in Worker \union {None}
    BY <1>3, <1>5 DEF HostTypeOK
  <2> QED
    BY <1>1, <1>2, <1>5, <2>2, <2>3, NewTicker
<1>6. CASE /\ cancelled' = cancelled \union {ticker[c]} /\ ticker[c] # 0
           /\ smu' = w
           /\ At(w, "replace")
           /\ UNCHANGED <<ticker, tick>>
  <2>1. "replace" \in Label /\ "replace" \in Starting \ {"start"}
    BY DEF Label, Starting
  <2>2. GoesTo(w, "replace", op[w].own, op[w].rest) /\ Moves(w) /\ op' \in [Worker -> Operation] /\ calls' = calls
    BY <1>3, <1>6, <2>1, AtMoves DEF GoesTo, Moves
  <2>3. cancelled' \subseteq Client /\ cancelled \subseteq cancelled'
    BY <1>3, <1>6 DEF HostTypeOK
  <2>4. HostTypeOK'
    BY <1>2, <1>3, <1>6, <2>2, <2>3 DEF HostTypeOK, InstallTypeOK, installVars
  <2>5. HostTables'
    BY <1>2, <1>3, <1>6, <2>2, <2>3 DEF HostTables, Live
  <2>6. HostKeptBut(op[w].call)
    BY <1>2, <1>6 DEF HostKeptBut
  <2>7. /\ op'[w].at = "replace" /\ op'[w].name = op[w].name /\ op'[w].call = op[w].call /\ op'[w].then = op[w].then
        /\ op'[w].client = op[w].call /\ owner'[op[w].call] = op[w].name
    BY <1>2, <1>3, <2>2 DEF GoesTo
  <2> QED
    BY <1>2, <2>1, <2>2, <2>4, <2>5, <2>6, <2>7, StartGoesOn DEF installVars
<1> QED
  BY <1>1, <1>4, <1>5, <1>6 DEF Schedule

LEMMA ReplaceKeeps ==
  ASSUME IInv, UNCHANGED installVars, NEW w \in Worker, Replace(w)
  PROVE  IInv'
<1>1. /\ op[w].at = "replace" /\ tick[ticker[op[w].name]] = "done" /\ smu' = None /\ Return(w)
      /\ UNCHANGED <<proc, owner, running, mounted, cancelled>>
      /\ ticker' = [ticker EXCEPT ![op[w].name] = op[w].client]
      /\ tick' = [tick EXCEPT ![op[w].client] = "waiting"]
  BY DEF Replace
<1>2. \A l \in Client : Live(l) => owner[l] # op[w].name
  BY <1>1, InHandNow DEF HostTables, Live
<1>3. smu' \in Worker \union {None}
  BY <1>1
<1> QED
  BY <1>1, <1>2, <1>3, NewTicker

LEMMA StopOneKeeps ==
  ASSUME IInv, UNCHANGED installVars, NEW w \in Worker, StopOne(w)
  PROVE  IInv'
<1>1. PICK c : c = op[w].name
  OBVIOUS
<1>2. op[w].at = "stop" /\ op[w].at \in Stopping /\ UNCHANGED <<proc, owner, mounted, ticker, tick, cancelled, smu>>
  BY DEF StopOne, Stopping
<1>3. /\ op \in [Worker -> Operation] /\ op[w] \in Operation /\ HostTypeOK /\ HostTables /\ op[w].at # "idle"
      /\ c \in Capsule
  BY <1>1, <1>2, StopInHand
<1>4. HostKeptBut(op[w].call)
  BY <1>2 DEF HostKeptBut
<1>5. CASE running[c] = 0 /\ Return(w) /\ UNCHANGED running
  <2>1. op' \in [Worker -> Operation] /\ calls' = calls /\ Moves(w)
    BY <1>3, <1>5, ReturnMoves DEF Ends, Moves
  <2>2. HostTypeOK' /\ HostTables'
    BY <1>2, <1>3, <1>5, <2>1, HostTablesStand DEF HostTypeOK
  <2> QED
    BY <1>2, <1>4, <1>5, <2>2, StopReturns DEF installVars
<1>6. CASE /\ running[c] # 0
           /\ running' = [running EXCEPT ![c] = 0]
           /\ Goto(w, [op[w] EXCEPT !.at = "unschedule", !.client = running[c]])
  <2>1. running \in [Capsule -> Client \union {0}]
    BY <1>3 DEF HostTypeOK
  <2>2. running' \in [Capsule -> Client \union {0}] /\ running'[c] = 0 /\ \A d \in Capsule : d # c => running'[d] = running[d]
    BY <1>3, <1>6, <2>1
  <2>3. PICK k \in Nat : k = running[c]
    BY <1>3, <2>1, CapsuleAssumption DEF Client, Call
  <2>4. PICK o \in Operation : o = [op[w] EXCEPT !.at = "unschedule", !.client = k]
    BY <1>3 DEF Operation, Stopping
  <2>5. o.at = "unschedule" /\ o.name = op[w].name /\ o.call = op[w].call /\ o.then = op[w].then /\ o.own = op[w].own
    BY <1>3, <2>4 DEF Operation
  <2>6. Goto(w, o)
    BY <1>6, <2>3, <2>4
  <2>7. Moves(w) /\ op'[w] = o /\ op' \in [Worker -> Operation] /\ calls' = calls
    BY <1>3, <2>6, GotoMoves DEF Moves
  <2>8. HostTypeOK'
    BY <1>2, <1>3, <2>2, <2>7 DEF HostTypeOK, InstallTypeOK, installVars
  <2>9. HostTables'
    BY <1>2, <1>3, <2>2, <2>7 DEF HostTables, Live
  <2>10. "unschedule" \in Stopping \ {"stop"}
    BY DEF Stopping
  <2> QED
    BY <1>2, <1>4, <2>5, <2>7, <2>8, <2>9, <2>10, StopGoesOn DEF installVars
<1> QED
  BY <1>1, <1>5, <1>6 DEF StopOne

LEMMA UnscheduleKeeps ==
  ASSUME IInv, UNCHANGED installVars, NEW w \in Worker, Unschedule(w)
  PROVE  IInv'
<1>1. PICK c : c = op[w].name
  OBVIOUS
<1>2. op[w].at = "unschedule" /\ op[w].at \in Stopping /\ UNCHANGED <<proc, owner, running, mounted, tick, smu>>
      /\ ticker' = [ticker EXCEPT ![c] = 0]
  BY <1>1 DEF Unschedule, Stopping
<1>3. /\ op \in [Worker -> Operation] /\ op[w] \in Operation /\ HostTypeOK /\ HostTables /\ op[w].at # "idle"
      /\ c \in Capsule
  BY <1>1, <1>2, StopInHand
<1>4. HostKeptBut(op[w].call)
  BY <1>2 DEF HostKeptBut
<1>5. ticker \in [Capsule -> Client \union {0}] /\ ticker' \in [Capsule -> Client \union {0}]
      /\ \A d \in Capsule : d # c => ticker'[d] = ticker[d]
  BY <1>2, <1>3 DEF HostTypeOK
<1>6. \A l \in Client : l # 0
  BY CapsuleAssumption DEF Client, Call
<1>7. "terminate" \in Stopping \ {"stop"} /\ "terminate" \in Label
  BY DEF Stopping, Label
<1>8. /\ cancelled \subseteq cancelled' /\ cancelled' \subseteq Client /\ (ticker[c] # 0 => ticker[c] \in cancelled')
      /\ Moves(w) /\ op'[w].at = "terminate" /\ op'[w].name = op[w].name /\ op'[w].call = op[w].call
      /\ op'[w].then = op[w].then /\ op'[w].own = op[w].own
  <2>1. CASE ticker[c] = 0 /\ At(w, "terminate") /\ UNCHANGED cancelled
    <3>1. GoesTo(w, "terminate", op[w].own, op[w].rest)
      BY <1>3, <1>7, <2>1, AtMoves
    <3> QED
      BY <1>3, <2>1, <3>1 DEF HostTypeOK, GoesTo
  <2>2. CASE /\ ticker[c] # 0
             /\ cancelled' = cancelled \union {ticker[c]}
             /\ Goto(w, [op[w] EXCEPT !.at = "terminate", !.rest = {ticker[c]}])
    <3>a. ticker[c] # 0
      BY <2>2
    <3>b. ticker[c] \in Nat
      BY <1>3, <1>5, <3>a, CapsuleAssumption DEF Client, Call
    <3>1. PICK left \in SUBSET Nat : left = {ticker[c]}
      BY <3>b
    <3>2. Goto(w, [op[w] EXCEPT !.at = "terminate", !.rest = left])
      BY <2>2, <3>1
    <3>3. GoesTo(w, "terminate", op[w].own, left)
      BY <1>3, <1>7, <3>2, RollbackMoves
    <3>4. cancelled' \subseteq Client
      BY <1>3, <1>5, <2>2 DEF HostTypeOK
    <3> QED
      BY <2>2, <3>3, <3>4 DEF GoesTo
  <2> QED
    BY <1>1, <2>1, <2>2 DEF Unschedule
<1>9. op' \in [Worker -> Operation] /\ calls' = calls
  BY <1>8 DEF Moves
<1>10. HostTypeOK'
  BY <1>2, <1>3, <1>5, <1>8, <1>9 DEF HostTypeOK, InstallTypeOK, installVars
<1>11. HostTables'
  <2>1. ASSUME NEW l \in Client, Live(l)'
        PROVE  owner'[l] \in Capsule /\ ticker'[owner'[l]] = l
    <3>1. Live(l) /\ owner[l] \in Capsule /\ ticker[owner[l]] = l
      BY <1>2, <1>3, <1>8, <2>1 DEF Live, HostTables
    <3>2. owner[l] # c
      BY <1>6, <1>8, <2>1, <3>1 DEF Live
    <3> QED
      BY <1>2, <1>5, <3>1, <3>2
  <2>2. \A l \in Client : l > calls' => tick'[l] = "none"
    BY <1>2, <1>3, <1>9 DEF HostTables
  <2>3. \A d \in Capsule : running'[d] # 0 => owner'[running'[d]] \in Capsule
    BY <1>2, <1>3 DEF HostTables
  <2> QED
    BY <2>1, <2>2, <2>3 DEF HostTables
<1> QED
  BY <1>2, <1>4, <1>7, <1>8, <1>10, <1>11, StopGoesOn DEF installVars

LEMMA TerminateKeeps ==
  ASSUME IInv, UNCHANGED installVars, NEW w \in Worker, Terminate(w)
  PROVE  IInv'
<1>1. op[w].at = "terminate" /\ op[w].at \in Stopping
      /\ UNCHANGED <<owner, running, mounted, ticker, tick, cancelled, smu>>
      /\ Goto(w, [op[w] EXCEPT !.at = "reap", !.rest = {}])
  BY DEF Terminate, Stopping
<1>2. op \in [Worker -> Operation] /\ HostTypeOK
  BY <1>1, StopInHand
<1>3. "reap" \in Stopping \ {"stop"} /\ "reap" \in Label /\ {} \in SUBSET Nat
  BY DEF Stopping, Label
<1>4. GoesTo(w, "reap", op[w].own, {})
  BY <1>1, <1>2, <1>3, RollbackMoves
<1>5. Moves(w) /\ op'[w].at = "reap" /\ op'[w].name = op[w].name /\ op'[w].call = op[w].call
      /\ op'[w].then = op[w].then /\ op'[w].own = op[w].own
  BY <1>4 DEF GoesTo
<1>6. proc' \in [Client -> State]
  <2>1. proc \in [Client -> State] /\ "stopping" \in State
    BY <1>2 DEF HostTypeOK, State
  <2> QED
    BY <2>1 DEF Terminate
<1>7. HostTypeOK' /\ HostTables' /\ HostKeptBut(op[w].call)
  BY <1>1, <1>2, <1>5, <1>6, HostTablesStand DEF HostTypeOK
<1> QED
  BY <1>1, <1>3, <1>5, <1>7, StopGoesOn DEF installVars

LEMMA ReapKeeps ==
  ASSUME IInv, UNCHANGED installVars, NEW w \in Worker, Reap(w)
  PROVE  IInv'
<1>1. op[w].at = "reap" /\ op[w].at \in Stopping /\ UNCHANGED hostVars /\ Return(w)
  BY DEF Reap, Stopping
<1>2. op \in [Worker -> Operation] /\ HostTypeOK
  BY <1>1, StopInHand
<1>3. Moves(w)
  BY <1>1, <1>2, ReturnMoves DEF Ends
<1>4. HostTypeOK' /\ HostTables' /\ HostKeptBut(op[w].call)
  BY <1>1, <1>2, <1>3, HostTablesStand DEF HostTypeOK, hostVars
<1> QED
  BY <1>1, <1>4, StopReturns DEF installVars

(* The shutdown, which stops capsules one after the other.                 *)
LEMMA DrainAllKeeps ==
  ASSUME IInv, UNCHANGED installVars, NEW w \in Worker, DrainAll(w)
  PROVE  IInv'
<1>1. PICK all : all = {ticker[c] : c \in Capsule} \ {0}
  OBVIOUS
<1>2. /\ op[w].at = "drainAll" /\ op[w].at # "idle" /\ UNCHANGED <<proc, owner, running, mounted, tick, smu>>
      /\ ticker' = [c \in Capsule |-> 0] /\ cancelled' = cancelled \union all
      /\ Goto(w, [op[w] EXCEPT !.at = "stopAll", !.rest = all])
  BY <1>1 DEF DrainAll
<1>3. /\ op \in [Worker -> Operation] /\ op[w] \in Operation /\ HostTypeOK /\ HostTables /\ Located(op[w])
  BY InHandNow
<1>4. all \subseteq Client /\ all \in SUBSET Nat /\ \A c \in Capsule : ticker[c] \in Client => ticker[c] \in all
  <2>1. ticker \in [Capsule -> Client \union {0}] /\ Client \subseteq Nat /\ 0 \notin Client
    BY <1>3, CapsuleAssumption DEF HostTypeOK, Client, Call
  <2> QED
    BY <1>1, <2>1
<1>5. "stopAll" \in Label
  BY DEF Label, Nameless
<1>6. GoesTo(w, "stopAll", op[w].own, all)
  BY <1>2, <1>3, <1>4, <1>5, RollbackMoves
<1>7. Moves(w) /\ op'[w].at = "stopAll" /\ op'[w].call = op[w].call /\ op'[w].then = op[w].then
  BY <1>6 DEF GoesTo
<1>8. op' \in [Worker -> Operation] /\ calls' = calls
  BY <1>7 DEF Moves
<1>9. HostTypeOK'
  <2>1. ticker' \in [Capsule -> Client \union {0}] /\ cancelled' \subseteq Client
    BY <1>2, <1>3, <1>4 DEF HostTypeOK
  <2> QED
    BY <1>2, <1>3, <1>8, <2>1 DEF HostTypeOK, InstallTypeOK, installVars
<1>10. HostTables'
  <2>1. ASSUME NEW l \in Client
        PROVE  ~ Live(l)'
    <3>1. SUFFICES ASSUME Live(l)' PROVE FALSE
      OBVIOUS
    <3>2. Live(l) /\ l \notin all
      BY <1>2, <3>1 DEF Live
    <3>3. owner[l] \in Capsule /\ ticker[owner[l]] = l
      BY <1>3, <3>2 DEF HostTables
    <3> QED
      BY <1>4, <3>2, <3>3
  <2>2. \A l \in Client : l > calls' => tick'[l] = "none"
    BY <1>2, <1>3, <1>8 DEF HostTables
  <2>3. \A d \in Capsule : running'[d] # 0 => owner'[running'[d]] \in Capsule
    BY <1>2, <1>3 DEF HostTables
  <2> QED
    BY <2>1, <2>2, <2>3 DEF HostTables
<1>11. HostKeptBut(op[w].call)
  BY <1>2 DEF HostKeptBut
<1>12. op[w].then = "idle"
  BY <1>2, <1>3 DEF Located, Operation, Installing, Stopping
<1>13. Located(op[w])' /\ Hosts(op[w])'
  BY <1>2, <1>3, <1>7, <1>8, <1>12 DEF Located, Hosts, Nameless, Installing, Spawned, Starting
<1>14. op'[w].at \notin Installing \union {"revoke", "delete", "unregister", "removeCode"}
  BY <1>7 DEF Installing
<1> QED
  BY <1>2, <1>7, <1>9, <1>10, <1>11, <1>13, <1>14, HostsStep DEF installVars

LEMMA StopAllKeeps ==
  ASSUME IInv, UNCHANGED installVars, NEW w \in Worker, StopAll(w)
  PROVE  IInv'
<1>1. PICK all : all = {running[c] : c \in Capsule} \ {0}
  OBVIOUS
<1>2. /\ op[w].at = "stopAll" /\ op[w].at # "idle" /\ UNCHANGED <<proc, owner, mounted, ticker, tick, cancelled, smu>>
      /\ running' = [c \in Capsule |-> 0]
      /\ Goto(w, [op[w] EXCEPT !.at = "stopNext", !.rest = {}, !.own = all])
  BY <1>1 DEF StopAll
<1>3. /\ op \in [Worker -> Operation] /\ op[w] \in Operation /\ HostTypeOK /\ HostTables /\ Located(op[w])
  BY InHandNow
<1>4. all \in SUBSET Nat /\ \A k \in all : k \in Client /\ owner[k] \in Capsule
  <2>1. running \in [Capsule -> Client \union {0}] /\ Client \subseteq Nat
    BY <1>3, CapsuleAssumption DEF HostTypeOK, Client, Call
  <2> QED
    BY <1>1, <1>3, <2>1 DEF HostTables
<1>5. PICK o \in Operation : o = [op[w] EXCEPT !.at = "stopNext", !.rest = {}, !.own = all]
  BY <1>3, <1>4 DEF Operation, Nameless
<1>6. o.at = "stopNext" /\ o.call = op[w].call /\ o.then = op[w].then /\ o.own = all
  BY <1>3, <1>5 DEF Operation
<1>7. Goto(w, o)
  BY <1>2, <1>5
<1>8. Moves(w) /\ op'[w] = o /\ op' \in [Worker -> Operation] /\ calls' = calls
  BY <1>3, <1>7, GotoMoves DEF Moves
<1>9. HostTypeOK'
  BY <1>2, <1>3, <1>8 DEF HostTypeOK, InstallTypeOK, installVars
<1>10. HostTables'
  BY <1>2, <1>3, <1>8 DEF HostTables, Live
<1>11. HostKeptBut(op[w].call)
  BY <1>2 DEF HostKeptBut
<1>12. op[w].then = "idle"
  BY <1>2, <1>3 DEF Located, Operation, Installing, Stopping
<1>13. Located(op[w])' /\ Hosts(op[w])'
  BY <1>2, <1>3, <1>4, <1>6, <1>8, <1>12 DEF Located, Hosts, Nameless, Installing, Spawned, Starting
<1>14. op'[w].at \notin Installing \union {"revoke", "delete", "unregister", "removeCode"}
  BY <1>6, <1>8 DEF Installing
<1> QED
  BY <1>2, <1>6, <1>8, <1>9, <1>10, <1>11, <1>13, <1>14, HostsStep DEF installVars

LEMMA StopNextKeeps ==
  ASSUME IInv, UNCHANGED installVars, NEW w \in Worker, StopNext(w)
  PROVE  IInv'
<1>1. op[w].at = "stopNext" /\ op[w].at # "idle" /\ UNCHANGED hostVars
  BY DEF StopNext
<1>2. /\ op \in [Worker -> Operation] /\ op[w] \in Operation /\ HostTypeOK /\ Located(op[w]) /\ Hosts(op[w])
  BY InHandNow
<1>3. \A k \in op[w].own : k \in Client /\ owner[k] \in Capsule
  BY <1>1, <1>2 DEF Hosts
<1>4. ASSUME Moves(w) PROVE HostTypeOK' /\ HostTables' /\ HostKeptBut(op[w].call)
  BY <1>1, <1>2, <1>4, HostTablesStand DEF HostTypeOK, hostVars
<1>5. CASE Give(w)
  <2>1. Ends(w) /\ Moves(w)
    BY <1>2, <1>5, GiveEnds DEF Ends
  <2> QED
    BY <1>1, <1>4, <2>1, HostEnds DEF installVars
<1>6. CASE \E k \in op[w].own :
             Goto(w, [op[w] EXCEPT !.at = "unschedule", !.then = "stopNext", !.own = @ \ {k},
                                   !.name = owner[k], !.client = k])
  <2>1. PICK k \in op[w].own :
             Goto(w, [op[w] EXCEPT !.at = "unschedule", !.then = "stopNext", !.own = @ \ {k},
                                   !.name = owner[k], !.client = k])
    BY <1>6
  <2>2. k \in Client /\ k \in Nat /\ owner[k] \in Capsule
    BY <1>3, CapsuleAssumption DEF Client, Call
  <2>3. PICK c \in Capsule : c = owner[k]
    BY <2>2
  <2>4. PICK left \in SUBSET Nat : left = op[w].own \ {k}
    BY <1>2 DEF Operation
  <2>5. PICK o \in Operation : o = [op[w] EXCEPT !.at = "unschedule", !.then = "stopNext", !.own = left,
                                                !.name = c, !.client = k]
    BY <1>2, <2>2 DEF Operation, Stopping
  <2>6. o.at = "unschedule" /\ o.then = "stopNext" /\ o.own = left /\ o.name = c /\ o.call = op[w].call
    BY <1>2, <2>5 DEF Operation
  <2>7. Goto(w, o)
    BY <2>1, <2>3, <2>4, <2>5
  <2>8. Moves(w) /\ op'[w] = o /\ calls' = calls
    BY <1>2, <2>7, GotoMoves DEF Moves
  <2>9. Located(op[w])'
    BY <1>1, <1>2, <2>6, <2>8 DEF Located, Stopping
  <2>10. Hosts(op[w])'
    BY <1>1, <1>3, <2>4, <2>6, <2>8 DEF Hosts, hostVars, Installing, Spawned, Starting
  <2>11. op'[w].at \notin Installing \union {"revoke", "delete", "unregister", "removeCode"}
    BY <2>6, <2>8 DEF Installing
  <2> QED
    BY <1>1, <1>4, <2>6, <2>8, <2>9, <2>10, <2>11, HostsStep DEF installVars
<1> QED
  BY <1>5, <1>6 DEF StopNext

(* What moves without a worker: a process that ends, a ticker that ticks.  *)
LEMMA WorldStep ==
  ASSUME IInv, UNCHANGED <<installVars, op, owner, running, mounted, ticker, cancelled, smu>>,
         proc' \in [Client -> State], tick' \in [Client -> TickerState],
         \A k \in Client : /\ tick[k] = "none" <=> tick'[k] = "none"
                           /\ tick'[k] \in {"waiting", "syncing", "calling"} => tick[k] \in {"waiting", "syncing", "calling"}
  PROVE  IInv'
<1>1. HostTypeOK /\ Tables /\ HostTables /\ OneCaller /\ calls \in Nat /\ \A v \in Worker : InHand(v)
  BY CallsAreNat DEF IInv
<1>2. HostTypeOK'
  BY <1>1 DEF HostTypeOK, InstallTypeOK, installVars
<1>3. Tables' /\ KeptBut(0)
  BY <1>1, TablesStand DEF installVars
<1>4. HostTables'
  <2>1. \A l \in Client : Live(l)' => Live(l)
    BY DEF Live
  <2> QED
    BY <1>1, <2>1 DEF HostTables, installVars
<1>5. HostKeptBut(0)
  BY DEF HostKeptBut
<1>6. OneCaller'
  BY <1>1 DEF OneCaller
<1>7. ASSUME NEW v \in Worker PROVE InHand(v)'
  <2>1. op[v].at # "idle" => op[v].call # 0
    BY <1>1 DEF InHand, Located
  <2>2. op'[v] = op[v]
    OBVIOUS
  <2> QED
    BY <1>3, <1>5, <2>1, <2>2, StaysInHand
<1> QED
  BY <1>2, <1>3, <1>4, <1>6, <1>7 DEF IInv

LEMMA WatchExitKeeps ==
  ASSUME IInv, NEW k \in Client, WatchExit(k)
  PROVE  IInv'
<1>1. proc \in [Client -> State] /\ tick \in [Client -> TickerState] /\ "exited" \in State
  BY InHandNow DEF IInv, HostTypeOK, State
<1>2. proc' \in [Client -> State] /\ tick' = tick
  BY <1>1 DEF WatchExit
<1> QED
  BY <1>1, <1>2, WorldStep DEF WatchExit

LEMMA TickingKeeps ==
  ASSUME IInv, NEW k \in Client, Ticking(k)
  PROVE  IInv'
<1>1. proc \in [Client -> State] /\ tick \in [Client -> TickerState]
  BY DEF IInv, HostTypeOK
<1>2. PICK s \in {"waiting", "syncing", "calling", "done"} : tick' = [tick EXCEPT ![k] = s]
  BY DEF Ticking, Wake, FindClient, EndSync, Rest
<1>3. tick[k] \in {"waiting", "syncing", "calling"} /\ UNCHANGED <<installVars, op, owner, running, mounted, ticker, cancelled, smu>>
      /\ proc' = proc
  BY DEF Ticking, Wake, FindClient, EndSync
<1>4. s \in TickerState
  BY DEF TickerState
<1>5. tick' \in [Client -> TickerState] /\ tick'[k] = s /\ \A l \in Client : l # k => tick'[l] = tick[l]
  BY <1>1, <1>2, <1>4
<1>6. \A l \in Client : /\ tick[l] = "none" <=> tick'[l] = "none"
                        /\ tick'[l] \in {"waiting", "syncing", "calling"} => tick[l] \in {"waiting", "syncing", "calling"}
  BY <1>3, <1>5
<1> QED
  BY <1>1, <1>3, <1>5, <1>6, WorldStep

-----------------------------------------------------------------------------
(* The operations that begin. *)
LEMMA IdleFields ==
  Idle \in Operation /\ Idle.own = {} /\ Idle.then = "idle" /\ Idle.at = "idle"
BY IdleIsOperation DEF Idle

LEMMA ButtonsKeep ==
  ASSUME IInv, NEW w \in Worker, NEW c \in Capsule, Buttons(w, c)
  PROVE  IInv'
<1>1. UNCHANGED <<record, code, grants, row, cut, undone, hostVars>>
  BY DEF Buttons, Install, CommandUninstall, StartButton, StopButton, UninstallButton
<1>2. PICK i \in Operation : i = Idle /\ i.own = {} /\ i.then = "idle"
  BY IdleFields
<1>3. ASSUME Install(w, c, TRUE) PROVE IInv'
  <2>1. PICK o \in Operation : o = [i EXCEPT !.at = "get", !.name = c, !.bridged = TRUE, !.then = "start"]
    BY <1>2 DEF Operation, Installing
  <2>2. o.at = "get" /\ o.name = c /\ o.own = {} /\ o.then = "start"
    BY <1>2, <2>1 DEF Operation
  <2>3. Begin(w, o)
    BY <1>2, <1>3, <2>1 DEF Install
  <2> QED
    BY <1>1, <2>2, <2>3, BeginKeeps
<1>4. ASSUME Install(w, c, FALSE) PROVE IInv'
  <2>1. PICK o \in Operation : o = [i EXCEPT !.at = "get", !.name = c, !.bridged = FALSE, !.then = "idle"]
    BY <1>2 DEF Operation, Installing
  <2>2. o.at = "get" /\ o.name = c /\ o.own = {} /\ o.then = "idle"
    BY <1>2, <2>1 DEF Operation
  <2>3. Begin(w, o)
    BY <1>2, <1>4, <2>1 DEF Install
  <2> QED
    BY <1>1, <2>2, <2>3, BeginKeeps
<1>5. ASSUME CommandUninstall(w, c) PROVE IInv'
  <2>1. PICK o \in Operation : o = [i EXCEPT !.at = "remove", !.name = c]
    BY <1>2 DEF Operation, Removing
  <2>2. o.at = "remove" /\ o.name = c /\ o.own = {} /\ o.then = "idle"
    BY <1>2, <2>1 DEF Operation
  <2>3. Begin(w, o)
    BY <1>2, <1>5, <2>1 DEF CommandUninstall
  <2> QED
    BY <1>1, <2>2, <2>3, BeginKeeps
<1>6. ASSUME StartButton(w, c) PROVE IInv'
  <2>1. PICK o \in Operation : o = [i EXCEPT !.at = "start", !.name = c, !.bridged = TRUE]
    BY <1>2 DEF Operation, Starting
  <2>2. o.at = "start" /\ o.name = c /\ o.own = {} /\ o.then = "idle"
    BY <1>2, <2>1 DEF Operation
  <2>3. Begin(w, o)
    BY <1>2, <1>6, <2>1 DEF StartButton
  <2> QED
    BY <1>1, <2>2, <2>3, BeginKeeps
<1>7. ASSUME StopButton(w, c) PROVE IInv'
  <2>1. PICK o \in Operation : o = [i EXCEPT !.at = "stop", !.name = c, !.bridged = TRUE]
    BY <1>2 DEF Operation, Stopping
  <2>2. o.at = "stop" /\ o.name = c /\ o.own = {} /\ o.then = "idle"
    BY <1>2, <2>1 DEF Operation
  <2>3. Begin(w, o)
    BY <1>2, <1>7, <2>1 DEF StopButton
  <2> QED
    BY <1>1, <2>2, <2>3, BeginKeeps
<1>8. ASSUME UninstallButton(w, c) PROVE IInv'
  <2>1. PICK o \in Operation : o = [i EXCEPT !.at = "stop", !.name = c, !.then = "remove", !.bridged = TRUE]
    BY <1>2 DEF Operation, Stopping
  <2>2. o.at = "stop" /\ o.name = c /\ o.own = {} /\ o.then = "remove"
    BY <1>2, <2>1 DEF Operation
  <2>3. Begin(w, o)
    BY <1>2, <1>8, <2>1 DEF UninstallButton
  <2> QED
    BY <1>1, <2>2, <2>3, BeginKeeps
<1> QED
  BY <1>3, <1>4, <1>5, <1>6, <1>7, <1>8 DEF Buttons

LEMMA ShutDownKeeps ==
  ASSUME IInv, NEW w \in Worker, ShutDown(w)
  PROVE  IInv'
<1>1. UNCHANGED <<record, code, grants, row, cut, undone, hostVars>>
  BY DEF ShutDown
<1>2. PICK i \in Operation : i = Idle /\ i.own = {} /\ i.then = "idle"
  BY IdleFields
<1>3. PICK o \in Operation : o = [i EXCEPT !.at = "drainAll", !.bridged = TRUE]
  BY <1>2 DEF Operation, Nameless
<1>4. o.at = "drainAll" /\ o.own = {} /\ o.then = "idle"
  BY <1>2, <1>3 DEF Operation
<1>5. Begin(w, o)
  BY <1>2, <1>3 DEF ShutDown
<1> QED
  BY <1>1, <1>4, <1>5, BeginKeeps

-----------------------------------------------------------------------------
LEMMA InitInvariant == Init => IInv
<1> SUFFICES ASSUME Init PROVE IInv
  OBVIOUS
<1>1. HostTypeOK
  <2>1. Idle \in Operation /\ 0 \in 0 .. MaxCalls
    BY IdleIsOperation, CapsuleAssumption
  <2>2. grants \in Seq(Grant)
    BY DEF Init, InstallInit
  <2>3. row \in [Capsule -> Row]
    BY DEF Init, InstallInit, Row
  <2> QED
    BY <2>1, <2>2, <2>3 DEF Init, InstallInit, HostTypeOK, InstallTypeOK, State, TickerState
<1>2. Tables /\ HostTables
  BY DEF Init, InstallInit, Tables, HostTables, Live
<1>3. \A w \in Worker : InHand(w)
  BY DEF Init, InstallInit, InHand, Located, Installs, Removes, Hosts, Idle, Nameless, Installing, Spawned, Starting
<1>4. OneCaller
  BY DEF Init, InstallInit, OneCaller, Idle
<1> QED
  BY <1>1, <1>2, <1>3, <1>4 DEF IInv

LEMMA NextInvariant == IInv /\ [Next]_vars => IInv'
<1> SUFFICES ASSUME IInv, [Next]_vars PROVE IInv'
  OBVIOUS
<1>1. CASE \E w \in Worker : HostStep(w) /\ UNCHANGED installVars
  BY <1>1, StartOneKeeps, SpawnKeeps, HandshakeKeeps, EnterKeeps, ScheduleKeeps, ReplaceKeeps, DrainAllKeeps, StopAllKeeps,
     StopNextKeeps, StopOneKeeps, UnscheduleKeeps, TerminateKeeps, ReapKeeps DEF HostStep
<1>2. CASE \E w \in Worker : InstallStep(w) /\ UNCHANGED hostVars
  BY <1>2, CheckAbsentKeeps, CopyCodeKeeps, IssueGrantsKeeps, InsertKeeps, OnInstallKeeps, UnrecordKeeps, RollbackKeeps,
     GetRecordKeeps, ListGrantsKeeps, RevokeGrantsKeeps, DeleteKeeps, OnUninstallKeeps, RemoveCodeKeeps DEF InstallStep
<1>3. CASE \E w \in Worker : CommandDies(w) /\ UNCHANGED hostVars
  BY <1>3, CommandDiesKeeps
<1>4. CASE \E w \in Worker : ShutDown(w)
  BY <1>4, ShutDownKeeps
<1>5. CASE \E w \in Worker, c \in Capsule : Buttons(w, c)
  BY <1>5, ButtonsKeep
<1>6. CASE \E k \in Client : WatchExit(k) \/ Ticking(k)
  BY <1>6, WatchExitKeeps, TickingKeeps
<1>7. CASE UNCHANGED vars
  <2>1. /\ UNCHANGED <<installVars, op, owner, running, mounted, ticker, cancelled, smu>>
        /\ proc' = proc /\ tick' = tick
    BY <1>7 DEF vars, hostVars
  <2>2. proc \in [Client -> State] /\ tick \in [Client -> TickerState]
    BY DEF IInv, HostTypeOK
  <2> QED
    BY <2>1, <2>2, WorldStep
<1> QED
  BY <1>1, <1>2, <1>3, <1>4, <1>5, <1>6, <1>7 DEF Next, Step

(* Every reachable state satisfies the inductive invariant, whatever the   *)
(* workers, the capsules, the permissions and the number of calls.         *)
THEOREM CapsuleInvariance == Spec => []IInv
<1>1. Init => IInv
  BY InitInvariant
<1>2. IInv /\ [Next]_vars => IInv'
  BY NextInvariant
<1> QED
  BY <1>1, <1>2, PTL DEF Spec

(* installer.go: a capsule on record has every grant of its manifest until *)
(* an uninstall begins to revoke them, and an install that was rolled back *)
(* to the end has none left, however many installs and uninstalls of the   *)
(* name run at once, in the console or on the command line.                *)
THEOREM InstallsAreAllOrNothing == Spec => []AllOrNothing
<1>1. IInv => AllOrNothing
  BY DEF IInv, Tables, AllOrNothing
<1> QED
  BY <1>1, CapsuleInvariance, PTL

(* installer.go, Uninstall: the record is deleted only when every grant    *)
(* that the uninstall listed is revoked.                                   *)
THEOREM GrantsGoFirst == Spec => []RecordOutlivesGrants
<1>1. IInv => RecordOutlivesGrants
  <2> SUFFICES ASSUME IInv, NEW w \in Worker, op[w].at \in {"unregister", "removeCode"}, NEW g \in op[w].own
      PROVE  ~ grants[g].active
    BY DEF RecordOutlivesGrants
  <2> QED
    BY InHandNow DEF Removes
<1> QED
  BY <1>1, CapsuleInvariance, PTL

(* ingestor_scheduler.go: of two tickers of one capsule that still run,    *)
(* one is cancelled; and the state of the host and the installer has its   *)
(* types.                                                                  *)
THEOREM OneTickerAtATime == Spec => []OneTickerPerCapsule
<1>1. IInv => OneTickerPerCapsule
  <2> SUFFICES ASSUME IInv, NEW k \in Client, NEW l \in Client, k # l, owner[k] = owner[l],
                      {tick[k], tick[l]} \subseteq {"waiting", "syncing", "calling"},
                      k \notin cancelled, l \notin cancelled
      PROVE  FALSE
    BY DEF OneTickerPerCapsule, IInv
  <2>1. HostTables
    BY DEF IInv
  <2>2. Live(k) /\ Live(l)
    BY DEF Live
  <2> QED
    BY <2>1, <2>2 DEF HostTables
<1> QED
  BY <1>1, CapsuleInvariance, PTL
=============================================================================
