--------------------------- MODULE Clients_proofs ---------------------------
(***************************************************************************)
(* Proofs about Clients, for any workers, codes, clock values and expiries *)
(* and any number of calls.                                                *)
(***************************************************************************)
EXTENDS Clients, FiniteSetTheorems, TLAPS

(* A cascade lists every active grant.                                     *)
NoCutOff == MaxCalls <= ListLimit

-----------------------------------------------------------------------------
(* Time.                                                                   *)

LEMMA TextOfSecond ==
  ASSUME NEW t \in Time
  PROVE  Format(t)[0] = t.sec /\ t.sec \in Nat
<1>1. 0 \in 0 .. Digits + 2
  BY TimeAssumption
<1>2. Format(t)[0] =
        CASE 0 = 0 -> t.sec
          [] 0 = 1 -> IF Written(t) = {} THEN Zulu ELSE Dot
          [] 0 - 1 \in Written(t) -> Digit(t.frac[0 - 1])
          [] 0 - 1 \notin Written(t) /\ 0 - 2 \in Written(t) -> Zulu
          [] OTHER -> Blank
  BY <1>1 DEF Format
<1>3. 0 - 1 \notin Written(t) /\ 0 - 2 \notin Written(t)
  BY TimeAssumption DEF Written
<1> QED
  BY <1>2, <1>3 DEF Time

(* What sorts before is of the same second or an earlier one, and what is  *)
(* of an earlier second sorts before.                                      *)
LEMMA TextOrder ==
  ASSUME NEW s \in Time, NEW t \in Time
  PROVE  /\ SortsBefore(s, t) => s.sec <= t.sec
         /\ ~ SortsBefore(s, t) => t.sec <= s.sec
<1>1. /\ Format(s)[0] = s.sec /\ s.sec \in Nat
      /\ Format(t)[0] = t.sec /\ t.sec \in Nat
  BY TextOfSecond
<1>2. 0 \in 0 .. Digits + 2
  BY TimeAssumption
<1>3. ASSUME SortsBefore(s, t) PROVE s.sec <= t.sec
  <2>1. PICK k \in 0 .. Digits + 2 : DiffersAt(Format(s), Format(t), k)
    BY <1>3 DEF SortsBefore, TextLess
  <2>2. CASE k = 0
    BY <1>1, <2>1, <2>2 DEF DiffersAt
  <2>3. CASE k > 0
    <3>1. 0 \in 0 .. k - 1
      BY <2>3
    <3> QED
      BY <1>1, <2>1, <3>1 DEF DiffersAt
  <2> QED
    BY <2>1, <2>2, <2>3, TimeAssumption
<1>4. ASSUME s.sec < t.sec PROVE SortsBefore(s, t)
  BY <1>1, <1>2, <1>4 DEF SortsBefore, TextLess, DiffersAt
<1> QED
  BY <1>1, <1>3, <1>4

-----------------------------------------------------------------------------
(***************************************************************************)
(* The inductive invariant.  An id belongs to the call that drew it; a     *)
(* redeemed code is never redeemed again, so it still names the client the *)
(* worker that redeemed it is about to insert; a cascade has only its rest *)
(* and the grant in hand left to revoke.                                   *)
(***************************************************************************)
Redeeming(w) == op[w].at \in {"mark", "insert", "client.paired"}
Speaks(w)    == op[w].at \in {"touch", "check", "check.allow"}
Cascading(w) == op[w].at \in {"cascade", "revoke grant", "grant.revoke"}

(* Where lists may be cut off, nothing is claimed of what they leave out.  *)
Covered(g) ==
  MaxCalls <= ListLimit =>
    grants[g].revoked \/ (grants[g].expires # None /\ grants[g].expires.sec <= clock.sec)

ListedCovered == \A c \in RevokedClients : \A g \in 1 .. cut[c] : grants[g].holder = c => Covered(g)

Tables ==
  /\ \A c \in Id : clients[c] # None => c <= calls /\ clients[c].secret = c
  /\ \A k \in Code : codes[k] # None => (codes[k].client = 0 <=> codes[k].redeemed = None)
  /\ \A c \in paired : clients[c] # None
  /\ \A c \in Id : cut[c] <= Len(grants)
  /\ Len(grants) <= calls

InHand(w) ==
  /\ op[w].dead \subseteq RevokedClients
  /\ Redeeming(w) => op[w].code \in Code /\ op[w].id \in 1 .. calls
  /\ op[w].at \in {"mark", "insert"} => clients[op[w].id] = None
  /\ op[w].at = "mark" => op[w].now \in Time
  /\ op[w].at = "insert" => codes[op[w].code] # None /\ codes[op[w].code].client = op[w].id
  /\ op[w].at = "client.paired" => clients[op[w].id] # None
  /\ op[w].at = "get client" =>
       op[w].id # 0 /\ (op[w].secret # 0 => op[w].secret = op[w].id /\ op[w].id \in paired) /\ op[w].now \in Time
  /\ Speaks(w) => op[w].id \in paired \ op[w].dead /\ op[w].now \in Time
  /\ op[w].at = "check.allow" => op[w].grant \in DOMAIN grants /\ grants[op[w].grant].holder = op[w].id
  /\ op[w].at = "list grants" \/ Cascading(w) => op[w].id # 0 /\ clients[op[w].id] # None
  /\ Cascading(w) =>
       /\ op[w].upTo <= Len(grants)
       /\ op[w].rest \subseteq DOMAIN grants
       /\ \A g \in 1 .. op[w].upTo : grants[g].holder = op[w].id =>
            Covered(g) \/ g \in op[w].rest \/ (op[w].at = "revoke grant" /\ g = op[w].grant)
  /\ op[w].at = "revoke grant" => op[w].grant \in DOMAIN grants

OneDraw == \A w, v \in Worker : Redeeming(w) /\ Redeeming(v) /\ op[w].id = op[v].id => w = v

IInv ==
  /\ TypeOK
  /\ Tables
  /\ \A w \in Worker : InHand(w)
  /\ OneDraw
  /\ RedemptionSound
  /\ ListedCovered

-----------------------------------------------------------------------------
(* Where a step leaves the worker that takes it.                           *)

LEMMA IdleTyped == Idle \in Operation
BY DEF Idle, Operation, Step

LEMMA OwnGoto ==
  ASSUME TypeOK, NEW w \in Worker, NEW o \in Operation, Goto(w, o)
  PROVE  /\ op' \in [Worker -> Operation] /\ op'[w] = o
         /\ \A v \in Worker \ {w} : op'[v] = op[v]
         /\ UNCHANGED <<clock, paired, calls>>
BY DEF TypeOK, Goto

LEMMA OwnBegin ==
  ASSUME TypeOK, NEW w \in Worker, NEW o \in Operation, Begin(w, o)
  PROVE  /\ op' \in [Worker -> Operation]
         /\ op'[w].at = o.at /\ op'[w].id = o.id /\ op'[w].secret = o.secret /\ op'[w].code = o.code
         /\ op'[w].grant = o.grant /\ op'[w].now = clock /\ op'[w].dead = RevokedClients
         /\ \A v \in Worker \ {w} : op'[v] = op[v]
         /\ calls < MaxCalls /\ calls' = calls + 1 /\ UNCHANGED <<clock, paired, cut>>
<1> DEFINE begun == [o EXCEPT !.now = clock, !.dead = RevokedClients]
<1>1. RevokedClients \subseteq Id /\ clock \in Time
  BY DEF RevokedClients, TypeOK
<1>2. begun \in Operation /\ begun.at = o.at /\ begun.id = o.id /\ begun.secret = o.secret
      /\ begun.code = o.code /\ begun.grant = o.grant /\ begun.now = clock /\ begun.dead = RevokedClients
  BY <1>1 DEF Operation
<1>3. op' = [op EXCEPT ![w] = begun]
  BY DEF Begin
<1> HIDE DEF begun
<1> QED
  BY <1>2, <1>3 DEF Begin, TypeOK

LEMMA Counted ==
  ASSUME TypeOK, NEW w \in Worker, NEW o, Begin(w, o)
  PROVE  calls \in Nat /\ calls + 1 \in Id /\ calls' \in {calls, calls + 1} /\ calls' <= MaxCalls
<1>1. MaxCalls \in Nat
  BY ClientsAssumption
<1>2. calls \in 0 .. MaxCalls /\ calls < MaxCalls /\ calls' = calls + 1
  BY DEF TypeOK, Begin
<1> QED
  BY <1>1, <1>2 DEF Id

(* What no step takes back: clients, pairings and revocations, the client  *)
(* of a redeemed code, a grant's holder, and that a grant is covered.      *)
TablesKept ==
  /\ calls <= calls'
  /\ paired \subseteq paired'
  /\ RevokedClients \subseteq RevokedClients'
  /\ \A c \in Id : clients[c] # None => clients'[c] # None
  /\ \A k \in Code : codes[k] # None /\ codes[k].client # 0 => codes'[k] # None /\ codes'[k].client = codes[k].client
  /\ Len(grants) <= Len(grants')
  /\ \A g \in DOMAIN grants : grants'[g].holder = grants[g].holder /\ (Covered(g) => Covered(g)')

LEMMA GrantsIndexed ==
  ASSUME grants \in Seq(Grant), grants' \in Seq(Grant), Len(grants) <= Len(grants')
  PROVE  /\ Len(grants) \in Nat /\ DOMAIN grants = 1 .. Len(grants)
         /\ Len(grants') \in Nat /\ DOMAIN grants' = 1 .. Len(grants')
         /\ DOMAIN grants \subseteq DOMAIN grants'
OBVIOUS

(* A worker that does not move keeps what it has in hand.                  *)
LEMMA InHandStays ==
  ASSUME TypeOK, TypeOK', NEW v \in Worker, InHand(v), TablesKept, op'[v] = op[v],
         op[v].at \in {"mark", "insert"} => clients'[op[v].id] = None
  PROVE  InHand(v)'
<1>1. /\ Len(grants) \in Nat /\ DOMAIN grants = 1 .. Len(grants)
      /\ Len(grants') \in Nat /\ DOMAIN grants' = 1 .. Len(grants')
      /\ DOMAIN grants \subseteq DOMAIN grants' /\ Len(grants) <= Len(grants')
  BY GrantsIndexed DEF TypeOK, TablesKept
<1>2. /\ op[v].id \in Id \union {0} /\ op[v].upTo \in Nat /\ calls \in Nat /\ calls' \in Nat
      /\ op[v].rest \subseteq Nat /\ op[v].grant \in Nat
  BY DEF TypeOK, Operation
<1>3. op'[v].dead \subseteq RevokedClients'
  BY DEF InHand, TablesKept
<1>4. Redeeming(v) => op[v].code \in Code /\ op[v].id \in 1 .. calls'
  <2>1. Redeeming(v) => op[v].code \in Code /\ op[v].id \in 1 .. calls
    BY DEF InHand
  <2>2. calls <= calls'
    BY DEF TablesKept
  <2> QED
    BY <1>2, <2>1, <2>2
<1>5. /\ op[v].at = "insert" => codes'[op[v].code] # None /\ codes'[op[v].code].client = op[v].id
      /\ op[v].at = "client.paired" => clients'[op[v].id] # None
  <2>1. op[v].at = "insert" => op[v].id # 0
    BY DEF InHand, Redeeming
  <2>2. op[v].at = "client.paired" => op[v].id \in Id
    BY <1>2 DEF InHand, Redeeming
  <2> QED
    BY <2>1, <2>2 DEF InHand, TablesKept, Redeeming
<1>6. /\ op[v].at = "get client" =>
           op[v].id # 0 /\ (op[v].secret # 0 => op[v].secret = op[v].id /\ op[v].id \in paired') /\ op[v].now \in Time
      /\ Speaks(v) => op[v].id \in paired' \ op[v].dead /\ op[v].now \in Time
  BY DEF InHand, TablesKept
<1>7. op[v].at = "check.allow" => op[v].grant \in DOMAIN grants' /\ grants'[op[v].grant].holder = op[v].id
  BY <1>1 DEF InHand, TablesKept
<1>8. op[v].at = "list grants" \/ Cascading(v) => op[v].id # 0 /\ clients'[op[v].id] # None
  BY <1>2 DEF InHand, TablesKept
<1>9. Cascading(v) =>
       /\ op[v].upTo <= Len(grants')
       /\ op[v].rest \subseteq DOMAIN grants'
       /\ \A g \in 1 .. op[v].upTo : grants'[g].holder = op[v].id =>
            Covered(g)' \/ g \in op[v].rest \/ (op[v].at = "revoke grant" /\ g = op[v].grant)
  <2> SUFFICES ASSUME Cascading(v)
               PROVE  /\ op[v].upTo <= Len(grants')
                      /\ op[v].rest \subseteq DOMAIN grants'
                      /\ \A g \in 1 .. op[v].upTo : grants'[g].holder = op[v].id =>
                           Covered(g)' \/ g \in op[v].rest \/ (op[v].at = "revoke grant" /\ g = op[v].grant)
    OBVIOUS
  <2>1. op[v].upTo <= Len(grants) /\ op[v].rest \subseteq DOMAIN grants
    BY DEF InHand
  <2>2. op[v].upTo <= Len(grants')
    BY <1>1, <1>2, <2>1
  <2>3. \A g \in 1 .. op[v].upTo : g \in DOMAIN grants
    BY <1>1, <1>2, <2>1
  <2> QED
    BY <1>1, <2>1, <2>2, <2>3 DEF InHand, TablesKept
<1>10. op[v].at = "revoke grant" => op[v].grant \in DOMAIN grants'
  BY <1>1 DEF InHand
<1> QED
  BY <1>3, <1>4, <1>5, <1>6, <1>7, <1>8, <1>9, <1>10 DEF InHand, Redeeming, Speaks, Cascading

(* A step of one worker, in parts.                                         *)
LEMMA Steps ==
  ASSUME IInv, NEW w \in Worker, TypeOK', Tables', TablesKept, InHand(w)',
         \A v \in Worker \ {w} : op'[v] = op[v],
         \A v \in Worker \ {w} : op[v].at \in {"mark", "insert"} => clients'[op[v].id] = None,
         Redeeming(w)' => (Redeeming(w) /\ op'[w].id = op[w].id) \/ op'[w].id = calls + 1,
         RedemptionSound', ListedCovered'
  PROVE  IInv'
<1>1. ASSUME NEW v \in Worker \ {w} PROVE InHand(v)'
  BY <1>1, InHandStays DEF IInv
<1>2. ASSUME NEW v \in Worker \ {w}, Redeeming(w)', Redeeming(v)' PROVE op'[w].id # op'[v].id
  <2>1. Redeeming(v) /\ op[v].id \in 1 .. calls /\ calls \in Nat /\ op'[v].id = op[v].id
    <3>1. op'[v] = op[v]
      OBVIOUS
    <3>2. Redeeming(v)
      BY <1>2, <3>1 DEF Redeeming
    <3>3. InHand(v) /\ calls \in Nat
      BY DEF IInv, TypeOK
    <3> QED
      BY <3>1, <3>2, <3>3 DEF InHand
  <2> QED
    BY <1>2, <2>1 DEF IInv, OneDraw
<1>3. OneDraw'
  <2> SUFFICES ASSUME NEW u \in Worker, NEW v \in Worker,
                      Redeeming(u)', Redeeming(v)', op'[u].id = op'[v].id
               PROVE  u = v
    BY DEF OneDraw
  <2>1. CASE u # w /\ v # w
    BY <2>1 DEF IInv, OneDraw, Redeeming
  <2> QED
    BY <1>2, <2>1
<1> QED
  BY <1>1, <1>3 DEF IInv

(* A step that leaves the tables as they are.                              *)
LEMMA HandOnly ==
  ASSUME IInv, NEW w \in Worker, UNCHANGED <<codes, clients, grants, clock, cut, paired>>,
         calls' \in {calls, calls + 1}, calls' <= MaxCalls,
         op' \in [Worker -> Operation], \A v \in Worker \ {w} : op'[v] = op[v],
         Redeeming(w)' => (Redeeming(w) /\ op'[w].id = op[w].id) \/ op'[w].id = calls + 1,
         InHand(w)'
  PROVE  IInv'
<1>1. calls \in Nat /\ calls' \in 0 .. MaxCalls /\ calls <= calls'
  BY ClientsAssumption DEF IInv, TypeOK
<1>2. TypeOK'
  BY <1>1 DEF IInv, TypeOK
<1>3. Len(grants) \in Nat
  BY DEF IInv, TypeOK
<1>4. Tables'
  BY <1>1, <1>3 DEF IInv, Tables, Id
<1>5. TablesKept
  BY <1>1, <1>3 DEF TablesKept, RevokedClients, Covered
<1>6. RedemptionSound' /\ ListedCovered'
  BY DEF IInv, RedemptionSound, OneClientPerCode, NoLateRedemption, ListedCovered, Covered, RevokedClients
<1>7. \A v \in Worker \ {w} : op[v].at \in {"mark", "insert"} => clients'[op[v].id] = None
  BY DEF IInv, InHand
<1> QED
  BY <1>2, <1>4, <1>5, <1>6, <1>7, Steps

-----------------------------------------------------------------------------
(* Calls and steps that change no table.                                   *)

LEMMA RedeemKeeps == ASSUME IInv, NEW w \in Worker, NEW k \in Code, RedeemPairingCode(w, k) PROVE IInv'
<1> DEFINE o == [Idle EXCEPT !.at = "mark", !.code = k, !.id = calls + 1]
<1>1. calls \in Nat /\ calls + 1 \in Id /\ calls' \in {calls, calls + 1} /\ calls' <= MaxCalls
  BY Counted DEF RedeemPairingCode, IInv
<1>2. o \in Operation /\ o.at = "mark" /\ o.code = k /\ o.id = calls + 1
  BY <1>1, IdleTyped DEF Operation, Step
<1> HIDE DEF o
<1>3. Begin(w, o) /\ UNCHANGED <<codes, clients, grants>>
  BY DEF RedeemPairingCode, o
<1>4. /\ op' \in [Worker -> Operation] /\ op'[w].at = "mark" /\ op'[w].id = calls + 1 /\ op'[w].code = k
      /\ op'[w].now = clock /\ op'[w].dead = RevokedClients
      /\ \A v \in Worker \ {w} : op'[v] = op[v]
      /\ calls' = calls + 1 /\ UNCHANGED <<clock, paired, cut>>
  BY <1>2, <1>3, OwnBegin DEF IInv
<1>5. clients[calls + 1] = None
  BY <1>1 DEF IInv, Tables
<1>6. clock \in Time /\ RevokedClients' = RevokedClients
  BY <1>3 DEF IInv, TypeOK, RevokedClients
<1>7. InHand(w)'
  BY <1>1, <1>3, <1>4, <1>5, <1>6 DEF InHand, Redeeming, Speaks, Cascading
<1> QED
  BY <1>1, <1>3, <1>4, <1>7, HandOnly

LEMMA RequestKeeps ==
  ASSUME IInv, NEW w \in Worker, NEW c \in Id, NEW genuine \in BOOLEAN, Request(w, c, genuine)
  PROVE  IInv'
<1> DEFINE secret == IF genuine THEN c ELSE 0
           o == [Idle EXCEPT !.at = "get client", !.id = c, !.secret = secret]
<1>1. secret \in Id \union {0} /\ (secret # 0 => secret = c /\ c \in paired)
  BY DEF Request
<1>2. o \in Operation /\ o.at = "get client" /\ o.id = c /\ o.secret = secret
  BY <1>1, IdleTyped DEF Operation, Step
<1> HIDE DEF o
<1>3. Begin(w, o) /\ UNCHANGED <<codes, clients, grants>>
  BY DEF Request, o
<1>4. /\ op' \in [Worker -> Operation] /\ op'[w].at = "get client" /\ op'[w].id = c /\ op'[w].secret = secret
      /\ op'[w].now = clock /\ op'[w].dead = RevokedClients
      /\ \A v \in Worker \ {w} : op'[v] = op[v]
      /\ calls < MaxCalls /\ calls' = calls + 1 /\ UNCHANGED <<clock, paired, cut>>
  BY <1>2, <1>3, OwnBegin DEF IInv
<1>5. clock \in Time /\ RevokedClients' = RevokedClients /\ c # 0 /\ calls \in Nat
  BY <1>3 DEF IInv, TypeOK, RevokedClients, Id
<1>6. InHand(w)'
  BY <1>1, <1>3, <1>4, <1>5 DEF InHand, Redeeming, Speaks, Cascading
<1>7. calls' \in {calls, calls + 1} /\ calls' <= MaxCalls
  BY <1>3, Counted DEF IInv
<1> QED
  BY <1>3, <1>4, <1>6, <1>7, HandOnly DEF Redeeming

LEMMA RevokeClientKeeps == ASSUME IInv, NEW w \in Worker, NEW c \in Id, RevokeClient(w, c) PROVE IInv'
<1> DEFINE o == [Idle EXCEPT !.at = "list grants", !.id = c]
<1>1. o \in Operation /\ o.at = "list grants" /\ o.id = c
  BY IdleTyped DEF Operation, Step
<1> HIDE DEF o
<1>2. Begin(w, o) /\ UNCHANGED <<codes, clients, grants>> /\ clients[c] # None
  BY DEF RevokeClient, o
<1>3. /\ op' \in [Worker -> Operation] /\ op'[w].at = "list grants" /\ op'[w].id = c
      /\ op'[w].dead = RevokedClients
      /\ \A v \in Worker \ {w} : op'[v] = op[v]
      /\ calls < MaxCalls /\ calls' = calls + 1 /\ UNCHANGED <<clock, paired, cut>>
  BY <1>1, <1>2, OwnBegin DEF IInv
<1>4. RevokedClients' = RevokedClients /\ c # 0 /\ calls \in Nat
  BY <1>2 DEF IInv, TypeOK, RevokedClients, Id
<1>5. InHand(w)'
  BY <1>2, <1>3, <1>4 DEF InHand, Redeeming, Speaks, Cascading
<1>6. calls' \in {calls, calls + 1} /\ calls' <= MaxCalls
  BY <1>2, Counted DEF IInv
<1> QED
  BY <1>2, <1>3, <1>5, <1>6, HandOnly DEF Redeeming

(* A worker that goes on, without a word to the tables.                    *)
LEMMA GoesOn ==
  ASSUME IInv, NEW w \in Worker, NEW o \in Operation, Goto(w, o), UNCHANGED <<codes, clients, grants, cut>>,
         o.at \in {"mark", "insert", "client.paired"} => Redeeming(w) /\ o.id = op[w].id,
         InHand(w)'
  PROVE  IInv'
<1>1. /\ op' \in [Worker -> Operation] /\ op'[w] = o
      /\ \A v \in Worker \ {w} : op'[v] = op[v]
      /\ UNCHANGED <<clock, paired, calls>>
  BY OwnGoto DEF IInv
<1>2. calls <= MaxCalls
  BY ClientsAssumption DEF IInv, TypeOK
<1> QED
  BY <1>1, <1>2, HandOnly DEF Redeeming

LEMMA AbandonKeeps == ASSUME IInv, NEW w \in Worker, Abandon(w) PROVE IInv'
<1>1. Goto(w, Idle) /\ UNCHANGED <<codes, clients, grants, cut>> /\ op'[w] = Idle
  BY IdleTyped, OwnGoto DEF Abandon, IInv
<1>2. InHand(w)' /\ Idle.at = "idle"
  BY <1>1 DEF InHand, Redeeming, Speaks, Cascading, Idle
<1> QED
  BY <1>1, <1>2, IdleTyped, GoesOn

(* What an operation has in hand when it only goes to another step.        *)
Moved(o, w, to) ==
  /\ o \in Operation /\ o.at = to
  /\ o.id = op[w].id /\ o.secret = op[w].secret /\ o.code = op[w].code /\ o.now = op[w].now
  /\ o.rest = op[w].rest /\ o.grant = op[w].grant /\ o.upTo = op[w].upTo /\ o.dead = op[w].dead

LEMMA MovedTo ==
  ASSUME TypeOK, NEW w \in Worker, NEW to \in Step
  PROVE  Moved([op[w] EXCEPT !.at = to], w, to)
<1>1. op[w] \in Operation
  BY DEF TypeOK
<1> QED
  BY <1>1 DEF Moved, Operation

LEMMA GetClientKeeps == ASSUME IInv, NEW w \in Worker, GetClient(w) PROVE IInv'
<1> DEFINE to == IF Authentic(op[w].id, op[w].secret) THEN "touch" ELSE "client.auth_failed"
           o == [op[w] EXCEPT !.at = to]
<1>1. Moved(o, w, to)
  BY MovedTo DEF IInv, Step, Type
<1>2. Goto(w, o) /\ UNCHANGED <<codes, clients, grants, cut>> /\ op[w].at = "get client"
  BY DEF GetClient
<1> HIDE DEF o
<1>3. op'[w] = o /\ UNCHANGED <<clock, paired, calls>>
  BY <1>1, <1>2, OwnGoto DEF IInv, Moved
<1>4. RevokedClients' = RevokedClients /\ op[w].dead \subseteq RevokedClients
  BY <1>2 DEF RevokedClients, IInv, InHand
<1>5. to = "touch" => op[w].id \in paired \ op[w].dead
  <2> SUFFICES ASSUME Authentic(op[w].id, op[w].secret) PROVE op[w].id \in paired \ op[w].dead
    OBVIOUS
  <2>1. op[w].id \in Id /\ clients[op[w].id] # None /\ ~ clients[op[w].id].revoked /\ clients[op[w].id].secret = op[w].secret
    BY <1>2 DEF Authentic, IInv, InHand, TypeOK, Operation
  <2>2. op[w].secret \in Id /\ op[w].secret # 0
    BY <2>1 DEF IInv, TypeOK, Client, Id
  <2>3. op[w].id \in paired
    BY <1>2, <2>2 DEF IInv, InHand
  <2>4. op[w].id \notin RevokedClients
    BY <2>1 DEF RevokedClients
  <2> QED
    BY <1>4, <2>3, <2>4
<1>6. op[w].now \in Time
  BY <1>2 DEF IInv, InHand
<1> HIDE DEF to
<1>7. to \in {"touch", "client.auth_failed"}
  BY DEF to
<1>8. InHand(w)'
  BY <1>1, <1>3, <1>4, <1>5, <1>6, <1>7 DEF InHand, Redeeming, Speaks, Cascading, Moved
<1> QED
  BY <1>1, <1>2, <1>7, <1>8, GoesOn DEF Moved

LEMMA CheckKeeps == ASSUME IInv, NEW w \in Worker, Check(w) PROVE IInv'
<1>1. op[w].at = "check" /\ UNCHANGED <<codes, clients, grants, cut>>
  BY DEF Check
<1>2. op[w].id \in paired \ op[w].dead /\ op[w].now \in Time /\ op[w].dead \subseteq RevokedClients
      /\ RevokedClients' = RevokedClients /\ op[w] \in Operation
  BY <1>1 DEF IInv, InHand, Speaks, RevokedClients, TypeOK
<1>3. ASSUME NEW g \in ActiveGrants(op[w].id, op[w].now), Goto(w, [op[w] EXCEPT !.at = "check.allow", !.grant = g])
      PROVE  IInv'
  <2> DEFINE o == [op[w] EXCEPT !.at = "check.allow", !.grant = g]
  <2>1. g \in DOMAIN grants /\ grants[g].holder = op[w].id /\ g \in Nat
    BY DEF ActiveGrants, IInv, TypeOK
  <2>2. o \in Operation /\ o.at = "check.allow" /\ o.grant = g /\ o.id = op[w].id /\ o.now = op[w].now /\ o.dead = op[w].dead
    BY <1>2, <2>1 DEF Operation, Step, Type
  <2> HIDE DEF o
  <2>3. Goto(w, o)
    BY <1>3 DEF o
  <2>4. op'[w] = o /\ UNCHANGED <<clock, paired, calls>>
    BY <2>2, <2>3, OwnGoto DEF IInv
  <2>5. InHand(w)'
    BY <1>1, <1>2, <2>1, <2>2, <2>4 DEF InHand, Redeeming, Speaks, Cascading
  <2> QED
    BY <1>1, <2>2, <2>3, <2>5, GoesOn
<1>4. ASSUME Goto(w, [op[w] EXCEPT !.at = "check.deny"]) PROVE IInv'
  <2> DEFINE o == [op[w] EXCEPT !.at = "check.deny"]
  <2>1. Moved(o, w, "check.deny")
    BY MovedTo DEF IInv, Step, Type
  <2> HIDE DEF o
  <2>2. Goto(w, o)
    BY <1>4 DEF o
  <2>3. op'[w] = o
    BY <2>1, <2>2, OwnGoto DEF IInv, Moved
  <2>4. InHand(w)'
    BY <1>2, <2>1, <2>3 DEF InHand, Redeeming, Speaks, Cascading, Moved
  <2> QED
    BY <1>1, <2>1, <2>2, <2>4, GoesOn DEF Moved
<1> QED
  BY <1>3, <1>4 DEF Check

-----------------------------------------------------------------------------
(* The cascade.                                                            *)

(* A list that is not cut off holds every active grant.                    *)
LEMMA ListedAll ==
  ASSUME NoCutOff, IInv, NEW c, NEW now, NEW listed \in SUBSET ActiveGrants(c, now),
         listed = ActiveGrants(c, now) \/ Cardinality(listed) = ListLimit
  PROVE  listed = ActiveGrants(c, now)
<1> DEFINE n == Len(grants)
           active == ActiveGrants(c, now)
<1>1. n \in Nat /\ active \subseteq 1 .. n
  BY DEF ActiveGrants, IInv, TypeOK
<1>2. n <= ListLimit /\ ListLimit \in Nat
  BY <1>1, ClientsAssumption DEF IInv, Tables, TypeOK, NoCutOff
<1>3. IsFiniteSet(active) /\ Cardinality(active) <= n
  <2> HIDE DEF n, active
  <2>1. n \in Int /\ 1 \in Int /\ n \in Nat
    BY <1>1
  <2>2. IsFiniteSet(1 .. n) /\ Cardinality(1 .. n) = IF 1 > n THEN 0 ELSE n - 1 + 1
    BY <2>1, FS_Interval
  <2>3. Cardinality(1 .. n) = n
    BY <2>1, <2>2
  <2> QED
    BY <1>1, <2>2, <2>3, FS_Subset
<1>4. Cardinality(listed) <= Cardinality(active) /\ (Cardinality(active) = Cardinality(listed) => active = listed)
  BY <1>3, FS_Subset
<1>5. Cardinality(active) \in Nat /\ Cardinality(listed) \in Nat
  BY <1>3, FS_Subset, FS_CardinalityType
<1> HIDE DEF n, active
<1>6. CASE Cardinality(listed) = ListLimit
  BY <1>1, <1>2, <1>3, <1>4, <1>5, <1>6 DEF active
<1> QED
  BY <1>6

(* What is not active is revoked, or of this second or an earlier one.     *)
LEMMA ActiveOrCovered ==
  ASSUME TypeOK, NEW g \in DOMAIN grants, g \notin ActiveGrants(grants[g].holder, clock)
  PROVE  Covered(g)
<1>1. grants[g] \in Grant /\ clock \in Time
  BY DEF TypeOK
<1>2. grants[g].expires # None => grants[g].expires \in Time
  BY <1>1 DEF Grant
<1> QED
  BY <1>1, <1>2, TextOrder DEF ActiveGrants, Covered

LEMMA ListGrantsKeeps == ASSUME IInv, NEW w \in Worker, ListGrants(w) PROVE IInv'
<1>1. PICK listed \in SUBSET ActiveGrants(op[w].id, clock) :
        /\ listed = ActiveGrants(op[w].id, clock) \/ Cardinality(listed) = ListLimit
        /\ Goto(w, [op[w] EXCEPT !.at = "cascade", !.now = clock, !.rest = listed, !.upTo = Len(grants)])
  BY DEF ListGrants
<1> DEFINE o == [op[w] EXCEPT !.at = "cascade", !.now = clock, !.rest = listed, !.upTo = Len(grants)]
<1>2. NoCutOff => listed = ActiveGrants(op[w].id, clock)
  BY <1>1, ListedAll
<1>3. /\ op[w] \in Operation /\ clock \in Time /\ Len(grants) \in Nat /\ DOMAIN grants = 1 .. Len(grants)
      /\ listed \subseteq DOMAIN grants
  BY <1>1 DEF IInv, TypeOK, ActiveGrants
<1>4. /\ o \in Operation /\ o.at = "cascade" /\ o.rest = listed /\ o.upTo = Len(grants)
      /\ o.id = op[w].id /\ o.dead = op[w].dead
  <2> DEFINE a == [op[w] EXCEPT !.at = "cascade", !.now = clock]
             n == Len(grants)
  <2>1. a \in Operation /\ a.at = "cascade" /\ a.id = op[w].id /\ a.dead = op[w].dead
    BY <1>3 DEF Operation, Step
  <2>2. listed \subseteq Nat /\ n \in Nat
    BY <1>3
  <2> HIDE DEF a, n
  <2>3. /\ [a EXCEPT !.rest = listed, !.upTo = n] \in Operation
        /\ [a EXCEPT !.rest = listed, !.upTo = n].at = "cascade"
        /\ [a EXCEPT !.rest = listed, !.upTo = n].rest = listed
        /\ [a EXCEPT !.rest = listed, !.upTo = n].upTo = n
        /\ [a EXCEPT !.rest = listed, !.upTo = n].id = a.id
        /\ [a EXCEPT !.rest = listed, !.upTo = n].dead = a.dead
    BY <2>1, <2>2 DEF Operation
  <2>4. o = [a EXCEPT !.rest = listed, !.upTo = n]
    BY DEF a, n
  <2> HIDE DEF o
  <2> QED
    BY <2>1, <2>3, <2>4 DEF n
<1> HIDE DEF o
<1>5. Goto(w, o) /\ op[w].at = "list grants" /\ UNCHANGED <<codes, clients, grants, cut>>
  BY <1>1 DEF ListGrants, o
<1>6. op'[w] = o /\ UNCHANGED <<clock, paired, calls>>
  BY <1>4, <1>5, OwnGoto DEF IInv
<1>7. op[w].id # 0 /\ clients[op[w].id] # None /\ op[w].dead \subseteq RevokedClients /\ RevokedClients' = RevokedClients
  BY <1>5 DEF IInv, InHand, RevokedClients
<1>8. \A g \in DOMAIN grants : grants[g].holder = op[w].id => Covered(g) \/ g \in listed
  <2>1. CASE NoCutOff
    BY <1>2, <2>1, ActiveOrCovered DEF IInv
  <2>2. CASE ~ NoCutOff
    BY <2>2 DEF Covered, NoCutOff
  <2> QED
    BY <2>1, <2>2
<1>9. \A g \in DOMAIN grants : Covered(g) => Covered(g)'
  BY <1>5, <1>6 DEF Covered
<1>10. InHand(w)'
  <2>1. ~ Redeeming(w)' /\ ~ Speaks(w)'
    BY <1>4, <1>6 DEF Redeeming, Speaks
  <2>2. op'[w].upTo <= Len(grants') /\ op'[w].rest \subseteq DOMAIN grants'
    <3>1. op'[w].upTo = Len(grants) /\ op'[w].rest = listed /\ grants' = grants
      BY <1>4, <1>5, <1>6
    <3>2. Len(grants) <= Len(grants)
      BY <1>3
    <3> QED
      BY <1>3, <3>1, <3>2
  <2>3. \A g \in DOMAIN grants : grants[g].holder = op[w].id => Covered(g)' \/ g \in listed
    BY <1>8, <1>9
  <2>4. \A g \in 1 .. op'[w].upTo : grants'[g].holder = op'[w].id => Covered(g)' \/ g \in op'[w].rest
    BY <1>3, <1>4, <1>5, <1>6, <2>3
  <2> QED
    BY <1>4, <1>5, <1>6, <1>7, <2>1, <2>2, <2>4 DEF InHand
<1> QED
  BY <1>4, <1>5, <1>10, GoesOn

LEMMA GetGrantKeeps == ASSUME IInv, NEW w \in Worker, GetGrant(w) PROVE IInv'
<1>1. PICK g \in op[w].rest :
        Goto(w, IF grants[g].revoked
                THEN [op[w] EXCEPT !.rest = @ \ {g}]
                ELSE [op[w] EXCEPT !.rest = @ \ {g}, !.at = "revoke grant", !.grant = g])
  BY DEF GetGrant
<1>2. op[w].at = "cascade" /\ UNCHANGED <<codes, clients, grants, cut>>
  BY DEF GetGrant
<1>3. /\ op[w].id # 0 /\ clients[op[w].id] # None /\ op[w].dead \subseteq RevokedClients /\ RevokedClients' = RevokedClients
      /\ op[w].upTo <= Len(grants) /\ op[w].rest \subseteq DOMAIN grants /\ op[w] \in Operation /\ g \in DOMAIN grants
      /\ \A h \in 1 .. op[w].upTo : grants[h].holder = op[w].id => Covered(h) \/ h \in op[w].rest
  BY <1>2 DEF IInv, InHand, Cascading, RevokedClients, TypeOK
<1>4. g \in Nat
  BY <1>3 DEF IInv, TypeOK
<1>5. ASSUME NEW o \in Operation, Goto(w, o), o.at \in {"cascade", "revoke grant"}, o.rest = op[w].rest \ {g},
             o.id = op[w].id, o.dead = op[w].dead, o.upTo = op[w].upTo,
             IF grants[g].revoked THEN o.at = "cascade" ELSE o.at = "revoke grant" /\ o.grant = g
      PROVE  IInv'
  <2>1. op'[w] = o /\ UNCHANGED <<clock, paired, calls>>
    BY <1>5, OwnGoto DEF IInv
  <2>2. ~ Redeeming(w)' /\ ~ Speaks(w)'
    BY <1>5, <2>1 DEF Redeeming, Speaks
  <2>3. \A h \in 1 .. o.upTo : grants'[h].holder = o.id =>
          Covered(h)' \/ h \in o.rest \/ (o.at = "revoke grant" /\ h = o.grant)
    BY <1>2, <1>3, <1>5, <2>1 DEF Covered
  <2>4. InHand(w)'
    BY <1>2, <1>3, <1>5, <2>1, <2>2, <2>3 DEF InHand
  <2> QED
    BY <1>2, <1>5, <2>4, GoesOn
<1>6. CASE grants[g].revoked
  <2> DEFINE o == [op[w] EXCEPT !.rest = op[w].rest \ {g}]
  <2>1. o \in Operation /\ o.at = op[w].at /\ o.rest = op[w].rest \ {g} /\ o.id = op[w].id /\ o.dead = op[w].dead
        /\ o.upTo = op[w].upTo
    BY <1>3 DEF Operation
  <2>2. Goto(w, o)
    BY <1>1, <1>6
  <2> HIDE DEF o
  <2> QED
    BY <1>2, <1>5, <1>6, <2>1, <2>2
<1>7. CASE ~ grants[g].revoked
  <2> DEFINE o == [op[w] EXCEPT !.rest = op[w].rest \ {g}, !.at = "revoke grant", !.grant = g]
  <2>1. o \in Operation /\ o.at = "revoke grant" /\ o.rest = op[w].rest \ {g} /\ o.id = op[w].id /\ o.dead = op[w].dead
        /\ o.upTo = op[w].upTo /\ o.grant = g
    BY <1>3, <1>4 DEF Operation, Step
  <2>2. Goto(w, o)
    BY <1>1, <1>7
  <2> HIDE DEF o
  <2> QED
    BY <1>5, <1>7, <2>1, <2>2
<1> QED
  BY <1>6, <1>7

-----------------------------------------------------------------------------
(* Steps that write a table.                                               *)

LEMMA CreatePairingCodeKeeps ==
  ASSUME IInv, NEW w \in Worker, NEW k \in Code, NEW expires \in Expiry, CreatePairingCode(w, k, expires)
  PROVE  IInv'
<1> DEFINE o == [Idle EXCEPT !.at = "client.pair_code_created"]
           row == [expires |-> expires, client |-> 0, redeemed |-> None]
<1>1. o \in Operation /\ o.at = "client.pair_code_created"
  BY IdleTyped DEF Operation, Step, Type
<1>2. row \in PairingCode /\ row.client = 0 /\ row.redeemed = None
  BY ClientsAssumption DEF PairingCode
<1> HIDE DEF o, row
<1>3. Begin(w, o) /\ codes[k] = None /\ codes' = [codes EXCEPT ![k] = row] /\ UNCHANGED <<clients, grants>>
  BY DEF CreatePairingCode, o, row
<1>4. /\ op' \in [Worker -> Operation] /\ op'[w].at = "client.pair_code_created"
      /\ op'[w].dead = RevokedClients /\ \A v \in Worker \ {w} : op'[v] = op[v]
      /\ UNCHANGED <<clock, paired, cut>>
  BY <1>1, <1>3, OwnBegin DEF IInv
<1>5. calls \in Nat /\ calls' \in {calls, calls + 1} /\ calls' <= MaxCalls /\ MaxCalls \in Nat
  BY <1>3, Counted, ClientsAssumption DEF IInv
<1>6. /\ codes' \in [Code -> PairingCode \union {None}]
      /\ codes'[k] = row /\ \A j \in Code \ {k} : codes'[j] = codes[j]
  BY <1>2, <1>3 DEF IInv, TypeOK
<1>7. TypeOK'
  BY <1>3, <1>4, <1>5, <1>6 DEF IInv, TypeOK
<1>8. Len(grants) \in Nat /\ RevokedClients' = RevokedClients
  BY <1>3 DEF IInv, TypeOK, RevokedClients
<1>9. Tables'
  BY <1>2, <1>3, <1>4, <1>5, <1>6, <1>8 DEF IInv, Tables, Id
<1>10. TablesKept
  BY <1>3, <1>4, <1>5, <1>6, <1>8 DEF TablesKept, Covered
<1>11. InHand(w)'
  BY <1>4, <1>8 DEF InHand, Redeeming, Speaks, Cascading
<1>12. RedemptionSound'
  BY <1>2, <1>3, <1>6 DEF IInv, RedemptionSound, OneClientPerCode, NoLateRedemption
<1>13. ListedCovered'
  BY <1>3, <1>4, <1>8 DEF IInv, ListedCovered, Covered
<1>14. ~ Redeeming(w)' /\ \A v \in Worker \ {w} : op[v].at \in {"mark", "insert"} => clients'[op[v].id] = None
  BY <1>3, <1>4 DEF Redeeming, IInv, InHand
<1> QED
  BY <1>4, <1>7, <1>9, <1>10, <1>11, <1>12, <1>13, <1>14, Steps

LEMMA MarkRedeemedKeeps == ASSUME IInv, NEW w \in Worker, MarkRedeemed(w) PROVE IInv'
<1> DEFINE k == op[w].code
           c == op[w].id
<1>1. /\ op[w].at = "mark" /\ k \in Code /\ c \in 1 .. calls /\ c \in Id /\ c # 0 /\ op[w].now \in Time
      /\ clients[c] = None /\ op[w].dead \subseteq RevokedClients /\ UNCHANGED <<clients, grants, cut>>
      /\ RevokedClients' = RevokedClients
  <2>1. op[w].at = "mark" /\ UNCHANGED <<clients, grants, cut>>
    BY DEF MarkRedeemed
  <2>2. c \in 1 .. calls /\ calls \in 0 .. MaxCalls
    BY <2>1 DEF IInv, InHand, Redeeming, TypeOK
  <2>3. c \in Id /\ c # 0
    BY <2>2, ClientsAssumption DEF Id
  <2> QED
    BY <2>1, <2>2, <2>3 DEF IInv, InHand, Redeeming, RevokedClients
<1>2. CASE Redeemable(k, op[w].now) /\ codes' = [codes EXCEPT ![k].client = c, ![k].redeemed = op[w].now]
           /\ Goto(w, [op[w] EXCEPT !.at = "insert"])
  <2> DEFINE o == [op[w] EXCEPT !.at = "insert"]
             row == [[codes[k] EXCEPT !.client = c] EXCEPT !.redeemed = op[w].now]
  <2>1. Moved(o, w, "insert")
    BY MovedTo DEF IInv, Step
  <2> HIDE DEF o
  <2>2. Goto(w, o)
    BY <1>2 DEF o
  <2>3. op' \in [Worker -> Operation] /\ op'[w] = o /\ (\A v \in Worker \ {w} : op'[v] = op[v])
        /\ UNCHANGED <<clock, paired, calls>>
    BY <2>1, <2>2, OwnGoto DEF IInv, Moved
  <2>4. codes[k] \in PairingCode /\ codes[k] # None /\ codes[k].redeemed = None /\ codes[k].client = 0
        /\ SortsBefore(op[w].now, codes[k].expires)
    BY <1>1, <1>2 DEF Redeemable, IInv, TypeOK, Tables
  <2>5. row \in PairingCode /\ row.client = c /\ row.redeemed = op[w].now /\ row.expires = codes[k].expires
    <3> DEFINE a == [codes[k] EXCEPT !.client = c]
    <3>1. a \in PairingCode /\ a.client = c /\ a.expires = codes[k].expires
      BY <1>1, <2>4 DEF PairingCode
    <3> DEFINE b == [a EXCEPT !.redeemed = op[w].now]
    <3>2. row = b
      OBVIOUS
    <3> HIDE DEF a, row
    <3>3. b \in PairingCode /\ b.client = c /\ b.redeemed = op[w].now /\ b.expires = codes[k].expires
      BY <1>1, <3>1 DEF PairingCode
    <3> HIDE DEF b
    <3> QED
      BY <3>2, <3>3
  <2>6. codes' = [codes EXCEPT ![k] = row]
    BY <1>1, <1>2 DEF IInv, TypeOK
  <2> HIDE DEF row
  <2>7. row # None /\ op[w].now # None
    <3>1. row \in [expires : Time, client : Nat, redeemed : Time \union {None}]
      BY <2>5 DEF PairingCode, Id
    <3> QED
      BY <1>1, <3>1, ClientsAssumption
  <2>8. /\ codes' \in [Code -> PairingCode \union {None}]
        /\ codes'[k] = row /\ \A j \in Code \ {k} : codes'[j] = codes[j]
    BY <1>1, <2>5, <2>6 DEF IInv, TypeOK
  <2>9. TypeOK'
    BY <1>1, <2>3, <2>8 DEF IInv, TypeOK
  <2>10. Len(grants) \in Nat /\ calls \in Nat /\ calls <= calls /\ Len(grants) <= Len(grants)
    BY DEF IInv, TypeOK
  <2>11. Tables'
    BY <1>1, <2>3, <2>5, <2>7, <2>8 DEF IInv, Tables
  <2>12. TablesKept
    BY <1>1, <2>3, <2>4, <2>8, <2>10 DEF TablesKept, Covered
  <2>13. InHand(w)'
    BY <1>1, <2>1, <2>3, <2>5, <2>7, <2>8 DEF InHand, Redeeming, Speaks, Cascading, Moved
  <2>14. OneClientPerCode'
    <3> SUFFICES ASSUME NEW d \in Id, clients[d] # None
                 PROVE  \E j \in Code : codes'[j] # None /\ codes'[j].client = d
      BY <1>1 DEF OneClientPerCode
    <3>1. PICK j \in Code : codes[j] # None /\ codes[j].client = d
      BY DEF IInv, RedemptionSound, OneClientPerCode
    <3>2. j # k
      BY <2>4, <3>1 DEF Id
    <3> QED
      BY <2>8, <3>1, <3>2
  <2>15. NoLateRedemption'
    <3>1. op[w].now.sec <= codes[k].expires.sec
      BY <1>1, <2>4, TextOrder DEF PairingCode
    <3> QED
      BY <2>5, <2>8, <3>1 DEF IInv, RedemptionSound, NoLateRedemption
  <2>16. ListedCovered'
    BY <1>1, <2>3 DEF IInv, ListedCovered, Covered
  <2>17. \A v \in Worker \ {w} : op[v].at \in {"mark", "insert"} => clients'[op[v].id] = None
    BY <1>1 DEF IInv, InHand
  <2> QED
    BY <1>1, <2>1, <2>3, <2>9, <2>11, <2>12, <2>13, <2>14, <2>15, <2>16, <2>17, Steps
       DEF Redeeming, Moved, RedemptionSound
<1>3. CASE Goto(w, [op[w] EXCEPT !.at = "client.pair_failed"]) /\ UNCHANGED codes
  <2> DEFINE o == [op[w] EXCEPT !.at = "client.pair_failed"]
  <2>1. Moved(o, w, "client.pair_failed")
    BY MovedTo DEF IInv, Step, Type
  <2> HIDE DEF o
  <2>2. Goto(w, o) /\ UNCHANGED codes
    BY <1>3 DEF o
  <2>3. op'[w] = o
    BY <2>1, <2>2, OwnGoto DEF IInv, Moved
  <2>4. InHand(w)'
    BY <1>1, <2>1, <2>3 DEF InHand, Redeeming, Speaks, Cascading, Moved
  <2> QED
    BY <1>1, <2>1, <2>2, <2>4, GoesOn DEF Moved
<1> QED
  BY <1>2, <1>3 DEF MarkRedeemed

(* A client's row is replaced by one of the same secret, revoked if it was.*)
LEMMA ClientWritten ==
  ASSUME IInv, NEW w \in Worker, NEW o \in Operation, Goto(w, o), NEW c \in Id, NEW row \in Client,
         clients' = [clients EXCEPT ![c] = row], row.secret = c, c <= calls,
         clients[c] # None /\ clients[c].revoked => row.revoked,
         \E k \in Code : codes[k] # None /\ codes[k].client = c,
         UNCHANGED <<codes, grants>>, cut' \in [Id -> 0 .. Len(grants)],
         o.at \in {"mark", "insert", "client.paired"} => Redeeming(w) /\ o.id = op[w].id,
         \A v \in Worker \ {w} : op[v].at \in {"mark", "insert"} => op[v].id # c,
         InHand(w)', ListedCovered'
  PROVE  IInv'
<1>1. /\ op' \in [Worker -> Operation] /\ op'[w] = o
      /\ \A v \in Worker \ {w} : op'[v] = op[v]
      /\ UNCHANGED <<clock, paired, calls>>
  BY OwnGoto DEF IInv
<1>2. row # None
  <2>1. row \in [secret : Nat, seen : BOOLEAN, revoked : BOOLEAN]
    BY DEF Client, Id
  <2> QED
    BY <2>1, ClientsAssumption
<1>3. /\ clients' \in [Id -> Client \union {None}]
      /\ clients'[c] = row /\ \A d \in Id \ {c} : clients'[d] = clients[d]
  BY DEF IInv, TypeOK
<1>4. Len(grants) \in Nat /\ calls \in Nat /\ Len(grants) <= Len(grants) /\ calls <= calls
  BY DEF IInv, TypeOK
<1>5. TypeOK'
  <2>1. cut' \in [Id -> Nat]
    BY <1>4
  <2> QED
    BY <1>1, <1>3, <2>1 DEF IInv, TypeOK
<1>6. Tables'
  <2>1. \A d \in Id : cut'[d] <= Len(grants')
    BY <1>4
  <2>2. \A d \in paired : d \in Id
    BY DEF IInv, TypeOK
  <2> QED
    BY <1>1, <1>2, <1>3, <2>1, <2>2 DEF IInv, Tables
<1>7. RevokedClients \subseteq RevokedClients'
  BY <1>2, <1>3 DEF RevokedClients
<1>8. TablesKept
  BY <1>1, <1>2, <1>3, <1>4, <1>7 DEF TablesKept, Covered
<1>9. RedemptionSound'
  BY <1>3 DEF IInv, RedemptionSound, OneClientPerCode, NoLateRedemption
<1>10. \A v \in Worker \ {w} : op[v].at \in {"mark", "insert"} => clients'[op[v].id] = None
  <2> SUFFICES ASSUME NEW v \in Worker \ {w}, op[v].at \in {"mark", "insert"} PROVE clients'[op[v].id] = None
    OBVIOUS
  <2>1. InHand(v) /\ op[v].id # c /\ calls \in 0 .. MaxCalls
    BY DEF IInv, TypeOK
  <2>2. op[v].id \in 1 .. calls /\ clients[op[v].id] = None
    BY <2>1 DEF InHand, Redeeming
  <2>3. op[v].id \in Id
    BY <2>1, <2>2, ClientsAssumption DEF Id
  <2> QED
    BY <1>3, <2>1, <2>2, <2>3
<1> QED
  BY <1>1, <1>5, <1>6, <1>8, <1>9, <1>10, Steps DEF Redeeming

LEMMA InsertClientKeeps == ASSUME IInv, NEW w \in Worker, InsertClient(w) PROVE IInv'
<1> DEFINE c == op[w].id
           o == [op[w] EXCEPT !.at = "client.paired"]
           row == [secret |-> c, seen |-> FALSE, revoked |-> FALSE]
<1>1. op[w].at = "insert" /\ UNCHANGED <<codes, grants, cut>>
  BY DEF InsertClient
<1>2. /\ op[w].code \in Code /\ codes[op[w].code] # None /\ codes[op[w].code].client = c /\ clients[c] = None
      /\ c \in 1 .. calls /\ op[w].dead \subseteq RevokedClients /\ calls \in 0 .. MaxCalls
  BY <1>1 DEF IInv, InHand, Redeeming, TypeOK
<1>3. c \in Id /\ c <= calls
  BY <1>2, ClientsAssumption DEF Id
<1>4. Moved(o, w, "client.paired")
  BY MovedTo DEF IInv, Step, Type
<1>5. row \in Client /\ row.secret = c /\ row.revoked = FALSE /\ row # None
  <2>1. row \in Client /\ row \in [secret : Nat, seen : BOOLEAN, revoked : BOOLEAN]
    BY <1>3 DEF Client, Id
  <2> QED
    BY <2>1, ClientsAssumption
<1> HIDE DEF o, row
<1>6. Goto(w, o) /\ clients' = [clients EXCEPT ![c] = row]
  BY DEF InsertClient, o, row
<1>7. op'[w] = o /\ UNCHANGED <<clock, paired, calls>>
  BY <1>4, <1>6, OwnGoto DEF IInv, Moved
<1>8. clients'[c] = row /\ \A d \in Id \ {c} : clients'[d] = clients[d]
  BY <1>3, <1>6 DEF IInv, TypeOK
<1>9. RevokedClients' = RevokedClients
  BY <1>2, <1>5, <1>8 DEF RevokedClients
<1>10. InHand(w)'
  BY <1>2, <1>4, <1>5, <1>7, <1>8, <1>9 DEF InHand, Redeeming, Speaks, Cascading, Moved
<1>11. ListedCovered'
  BY <1>1, <1>7, <1>9 DEF IInv, ListedCovered, Covered
<1>12. \A v \in Worker \ {w} : op[v].at \in {"mark", "insert"} => op[v].id # c
  BY <1>1 DEF IInv, OneDraw, Redeeming
<1>13. cut' \in [Id -> 0 .. Len(grants)]
  BY <1>1 DEF IInv, TypeOK, Tables
<1> QED
  BY <1>1, <1>2, <1>3, <1>4, <1>5, <1>6, <1>10, <1>11, <1>12, <1>13, ClientWritten DEF Moved, Redeeming

(* A client in the table was redeemed from a code, and by no one else.     *)
LEMMA ClientKnown ==
  ASSUME IInv, NEW c \in Id, clients[c] # None
  PROVE  /\ clients[c] \in Client /\ clients[c].secret = c /\ c <= calls
         /\ \E k \in Code : codes[k] # None /\ codes[k].client = c
         /\ \A v \in Worker : op[v].at \in {"mark", "insert"} => op[v].id # c
<1>1. clients[c] \in Client /\ clients[c].secret = c /\ c <= calls
  BY DEF IInv, TypeOK, Tables
<1>2. \E k \in Code : codes[k] # None /\ codes[k].client = c
  BY DEF IInv, RedemptionSound, OneClientPerCode
<1>3. \A v \in Worker : op[v].at \in {"mark", "insert"} => op[v].id # c
  BY DEF IInv, InHand
<1> QED
  BY <1>1, <1>2, <1>3

LEMMA TouchKeeps == ASSUME IInv, NEW w \in Worker, Touch(w) PROVE IInv'
<1> DEFINE c == op[w].id
           o == [op[w] EXCEPT !.at = "check", !.now = clock]
           row == [clients[c] EXCEPT !.seen = TRUE]
<1>1. op[w].at = "touch" /\ UNCHANGED <<codes, grants, cut>>
  BY DEF Touch
<1>2. /\ c \in paired \ op[w].dead /\ c \in Id /\ clients[c] # None /\ op[w].dead \subseteq RevokedClients
      /\ clock \in Time /\ op[w] \in Operation
  BY <1>1 DEF IInv, InHand, Speaks, TypeOK, Tables
<1>3. /\ clients[c] \in Client /\ clients[c].secret = c /\ c <= calls
      /\ \E k \in Code : codes[k] # None /\ codes[k].client = c
      /\ \A v \in Worker : op[v].at \in {"mark", "insert"} => op[v].id # c
  BY <1>2, ClientKnown
<1>4. o \in Operation /\ o.at = "check" /\ o.now = clock /\ o.id = c /\ o.dead = op[w].dead
  BY <1>2 DEF Operation, Step
<1>5. row \in Client /\ row.secret = c /\ row.revoked = clients[c].revoked
  BY <1>3 DEF Client
<1> HIDE DEF o, row
<1>6. Goto(w, o) /\ (clients' = [clients EXCEPT ![c] = row] \/ UNCHANGED clients)
  BY DEF Touch, o, row
<1>7. op'[w] = o /\ UNCHANGED <<clock, paired, calls>>
  BY <1>4, <1>6, OwnGoto DEF IInv
<1>8. RevokedClients' = RevokedClients
  <2>1. CASE clients' = [clients EXCEPT ![c] = row]
    <3>1. row # None
      <4>1. row \in [secret : Nat, seen : BOOLEAN, revoked : BOOLEAN]
        BY <1>5 DEF Client, Id
      <4> QED
        BY <4>1, ClientsAssumption
    <3>2. clients'[c] = row /\ \A d \in Id \ {c} : clients'[d] = clients[d]
      BY <1>2, <2>1 DEF IInv, TypeOK
    <3> QED
      BY <1>2, <1>5, <3>1, <3>2 DEF RevokedClients
  <2> QED
    BY <1>6, <2>1 DEF RevokedClients
<1>9. InHand(w)'
  BY <1>2, <1>4, <1>7, <1>8 DEF InHand, Redeeming, Speaks, Cascading
<1>10. ListedCovered'
  BY <1>1, <1>7, <1>8 DEF IInv, ListedCovered, Covered
<1>11. cut' \in [Id -> 0 .. Len(grants)]
  BY <1>1 DEF IInv, TypeOK, Tables
<1>12. CASE clients' = [clients EXCEPT ![c] = row]
  BY <1>1, <1>2, <1>3, <1>4, <1>5, <1>6, <1>9, <1>10, <1>11, <1>12, ClientWritten
<1>13. CASE UNCHANGED clients
  BY <1>1, <1>4, <1>6, <1>9, <1>13, GoesOn
<1> QED
  BY <1>6, <1>12, <1>13

LEMMA MarkRevokedKeeps == ASSUME IInv, NEW w \in Worker, MarkRevoked(w) PROVE IInv'
<1> DEFINE c == op[w].id
           o == [op[w] EXCEPT !.at = "client.revoked"]
           row == [clients[c] EXCEPT !.revoked = TRUE]
<1>1. /\ op[w].at = "cascade" /\ op[w].rest = {} /\ UNCHANGED <<codes, grants>>
      /\ cut' = [cut EXCEPT ![c] = IF clients[c].revoked THEN cut[c] ELSE op[w].upTo]
  BY DEF MarkRevoked
<1>2. /\ c \in Id /\ clients[c] # None /\ op[w].dead \subseteq RevokedClients /\ op[w].upTo <= Len(grants)
      /\ op[w].upTo \in Nat
      /\ \A g \in 1 .. op[w].upTo : grants[g].holder = c => Covered(g)
  BY <1>1 DEF IInv, InHand, Cascading, TypeOK, Operation
<1>3. /\ clients[c] \in Client /\ clients[c].secret = c /\ c <= calls
      /\ \E k \in Code : codes[k] # None /\ codes[k].client = c
      /\ \A v \in Worker : op[v].at \in {"mark", "insert"} => op[v].id # c
  BY <1>2, ClientKnown
<1>4. Moved(o, w, "client.revoked")
  BY MovedTo DEF IInv, Step, Type
<1>5. row \in Client /\ row.secret = c /\ row.revoked = TRUE /\ row # None
  <2>1. row \in Client /\ row.secret = c /\ row.revoked = TRUE
    BY <1>3 DEF Client
  <2>2. row \in [secret : Nat, seen : BOOLEAN, revoked : BOOLEAN]
    BY <2>1 DEF Client, Id
  <2> QED
    BY <2>1, <2>2, ClientsAssumption
<1> HIDE DEF o, row
<1>6. Goto(w, o) /\ clients' = [clients EXCEPT ![c] = row]
  BY DEF MarkRevoked, o, row
<1>7. op'[w] = o /\ UNCHANGED <<clock, paired, calls>>
  BY <1>4, <1>6, OwnGoto DEF IInv, Moved
<1>8. clients'[c] = row /\ \A d \in Id \ {c} : clients'[d] = clients[d]
  BY <1>2, <1>6 DEF IInv, TypeOK
<1>9. RevokedClients' = RevokedClients \union {c}
  BY <1>2, <1>5, <1>8 DEF RevokedClients
<1>10. InHand(w)'
  BY <1>2, <1>4, <1>7, <1>9 DEF InHand, Redeeming, Speaks, Cascading, Moved
<1>11. cut' \in [Id -> 0 .. Len(grants)] /\ \A d \in Id \ {c} : cut'[d] = cut[d]
  <2>1. cut \in [Id -> 0 .. Len(grants)] /\ op[w].upTo \in 0 .. Len(grants)
    BY <1>2 DEF IInv, TypeOK, Tables
  <2> QED
    BY <1>1, <2>1
<1>12. ListedCovered'
  <2> SUFFICES ASSUME NEW d \in RevokedClients', NEW g \in 1 .. cut'[d], grants[g].holder = d
               PROVE  Covered(g)
    BY <1>1, <1>7 DEF ListedCovered, Covered
  <2>1. \A e \in RevokedClients : \A h \in 1 .. cut[e] : grants[h].holder = e => Covered(h)
    BY DEF IInv, ListedCovered, Covered
  <2>2. CASE d # c
    <3>1. d \in Id /\ cut'[d] = cut[d] /\ d \in RevokedClients
      BY <1>9, <1>11, <2>2 DEF RevokedClients
    <3> QED
      BY <2>1, <3>1
  <2>3. CASE d = c /\ clients[c].revoked
    <3>1. cut'[c] = cut[c] /\ c \in RevokedClients
      BY <1>1, <1>2, <2>3 DEF IInv, TypeOK, RevokedClients
    <3> QED
      BY <2>1, <2>3, <3>1
  <2>4. CASE d = c /\ ~ clients[c].revoked
    <3>1. cut'[c] = op[w].upTo
      BY <1>1, <1>2, <2>4 DEF IInv, TypeOK
    <3> QED
      BY <1>2, <2>4, <3>1
  <2> QED
    BY <2>2, <2>3, <2>4
<1>13. o \in Operation /\ o.at = "client.revoked"
  BY <1>4 DEF Moved
<1>14. UNCHANGED <<codes, grants>> /\ row.revoked /\ cut' \in [Id -> 0 .. Len(grants)]
  BY <1>1, <1>5, <1>11
<1> HIDE DEF c
<1> QED
  BY <1>2, <1>3, <1>5, <1>6, <1>10, <1>12, <1>13, <1>14, ClientWritten

(* The grants are written: none is lost, none changes hands.               *)
LEMMA GrantsWritten ==
  ASSUME IInv, NEW w \in Worker, UNCHANGED <<codes, clients, clock, cut, paired>>,
         op' \in [Worker -> Operation], \A v \in Worker \ {w} : op'[v] = op[v],
         calls' \in 0 .. MaxCalls, calls <= calls',
         grants' \in Seq(Grant), Len(grants) <= Len(grants'), Len(grants') <= calls',
         \A g \in DOMAIN grants : grants'[g].holder = grants[g].holder /\ (Covered(g) => Covered(g)'),
         ~ Redeeming(w)', InHand(w)'
  PROVE  IInv'
<1>1. /\ Len(grants) \in Nat /\ DOMAIN grants = 1 .. Len(grants)
      /\ Len(grants') \in Nat /\ DOMAIN grants' = 1 .. Len(grants')
  BY GrantsIndexed DEF IInv, TypeOK
<1>2. TypeOK'
  BY DEF IInv, TypeOK
<1>3. Tables'
  <2>1. \A c \in Id : cut'[c] <= Len(grants')
    BY <1>1 DEF IInv, Tables, TypeOK
  <2>2. \A c \in Id : clients'[c] # None => c <= calls'
    <3>1. calls \in Int /\ calls' \in Int /\ \A c \in Id : c \in Int
      BY DEF IInv, TypeOK, Id
    <3> QED
      BY <3>1 DEF IInv, Tables
  <2> QED
    BY <2>1, <2>2 DEF IInv, Tables
<1>4. TablesKept
  BY DEF TablesKept, RevokedClients
<1>5. RedemptionSound'
  BY DEF IInv, RedemptionSound, OneClientPerCode, NoLateRedemption
<1>6. ListedCovered'
  <2> SUFFICES ASSUME NEW c \in RevokedClients, NEW g \in 1 .. cut[c], grants'[g].holder = c
               PROVE  Covered(g)'
    BY DEF ListedCovered, Covered, RevokedClients
  <2>1. c \in Id
    BY DEF RevokedClients
  <2>2. cut[c] \in Nat /\ cut[c] <= Len(grants)
    BY <2>1 DEF IInv, Tables, TypeOK
  <2>3. g \in DOMAIN grants
    BY <1>1, <2>2
  <2> QED
    BY <2>3 DEF IInv, ListedCovered, Covered
<1>7. \A v \in Worker \ {w} : op[v].at \in {"mark", "insert"} => clients'[op[v].id] = None
  BY DEF IInv, InHand
<1> QED
  BY <1>2, <1>3, <1>4, <1>5, <1>6, <1>7, Steps

LEMMA IssueGrantKeeps ==
  ASSUME IInv, NEW w \in Worker, NEW c \in Id, NEW expires \in Expiry \union {None}, IssueGrant(w, c, expires)
  PROVE  IInv'
<1> DEFINE n == Len(grants)
           next == n + 1
           o == [Idle EXCEPT !.at = "grant.create", !.grant = next]
           row == [holder |-> c, expires |-> expires, revoked |-> FALSE]
<1>1. grants \in Seq(Grant) /\ n \in Nat /\ DOMAIN grants = 1 .. n
  BY DEF IInv, TypeOK
<1>2. row \in Grant
  BY ClientsAssumption DEF Grant
<1>3. o \in Operation /\ o.at = "grant.create"
  <2>1. next \in Nat
    BY <1>1
  <2> HIDE DEF next
  <2> QED
    BY <2>1, IdleTyped DEF Operation, Step, Type
<1> HIDE DEF o, row
<1>4. Begin(w, o) /\ grants' = Append(grants, row) /\ UNCHANGED <<codes, clients>>
  BY DEF IssueGrant, o, row
<1>5. /\ op' \in [Worker -> Operation] /\ op'[w].at = "grant.create" /\ op'[w].dead = RevokedClients
      /\ \A v \in Worker \ {w} : op'[v] = op[v]
      /\ calls' = calls + 1 /\ UNCHANGED <<clock, paired, cut>>
  BY <1>3, <1>4, OwnBegin DEF IInv
<1>6. calls \in Nat /\ calls' \in 0 .. MaxCalls /\ calls <= calls' /\ n <= calls
  <2>1. calls \in Nat /\ calls' <= MaxCalls /\ MaxCalls \in Nat
    BY <1>4, Counted, ClientsAssumption DEF IInv
  <2> QED
    BY <1>5, <2>1 DEF IInv, Tables
<1>7. grants' \in Seq(Grant) /\ Len(grants') = n + 1 /\ \A g \in 1 .. n : grants'[g] = grants[g]
  BY <1>1, <1>2, <1>4
<1>8. n <= Len(grants') /\ Len(grants') <= calls'
  BY <1>1, <1>5, <1>6, <1>7
<1>9. \A g \in DOMAIN grants : grants'[g].holder = grants[g].holder /\ (Covered(g) => Covered(g)')
  BY <1>1, <1>5, <1>7 DEF Covered
<1>10. ~ Redeeming(w)' /\ RevokedClients' = RevokedClients
  BY <1>4, <1>5 DEF Redeeming, RevokedClients
<1>11. InHand(w)'
  BY <1>5, <1>10 DEF InHand, Redeeming, Speaks, Cascading
<1> QED
  BY <1>4, <1>5, <1>6, <1>7, <1>8, <1>9, <1>10, <1>11, GrantsWritten

LEMMA RevokeGrantKeeps == ASSUME IInv, NEW w \in Worker, RevokeGrant(w) PROVE IInv'
<1> PICK g \in Nat : g = op[w].grant
  BY DEF IInv, TypeOK, Operation
<1> DEFINE row == [grants[g] EXCEPT !.revoked = TRUE]
           o == [op[w] EXCEPT !.at = "grant.revoke"]
<1>1. op[w].at = "revoke grant" /\ UNCHANGED <<codes, clients, cut>>
  BY DEF RevokeGrant
<1>2. /\ op[w].id # 0 /\ clients[op[w].id] # None /\ op[w].dead \subseteq RevokedClients /\ RevokedClients' = RevokedClients
      /\ op[w].upTo <= Len(grants) /\ op[w].rest \subseteq DOMAIN grants /\ g \in DOMAIN grants
      /\ op[w].upTo \in Nat
      /\ \A h \in 1 .. op[w].upTo : grants[h].holder = op[w].id => Covered(h) \/ h \in op[w].rest \/ h = g
  BY <1>1 DEF IInv, InHand, Cascading, RevokedClients, TypeOK, Operation
<1>3. grants \in Seq(Grant) /\ Len(grants) \in Nat /\ DOMAIN grants = 1 .. Len(grants) /\ grants[g] \in Grant
  BY <1>2 DEF IInv, TypeOK
<1>4. row \in Grant /\ row.holder = grants[g].holder /\ row.revoked = TRUE
  BY <1>3 DEF Grant
<1>5. Moved(o, w, "grant.revoke")
  BY MovedTo DEF IInv, Step, Type
<1> HIDE DEF o, row
<1>6. Goto(w, o) /\ grants' = [grants EXCEPT ![g] = row]
  BY DEF RevokeGrant, o, row
<1>7. /\ op' \in [Worker -> Operation] /\ op'[w] = o /\ (\A v \in Worker \ {w} : op'[v] = op[v])
      /\ UNCHANGED <<clock, paired, calls>>
  BY <1>5, <1>6, OwnGoto DEF IInv, Moved
<1>8. /\ grants' \in Seq(Grant) /\ Len(grants') = Len(grants) /\ DOMAIN grants' = DOMAIN grants
      /\ grants'[g] = row /\ \A h \in DOMAIN grants \ {g} : grants'[h] = grants[h]
  BY <1>2, <1>3, <1>4, <1>6
<1>9. \A h \in DOMAIN grants : grants'[h].holder = grants[h].holder /\ (Covered(h) => Covered(h)')
  BY <1>4, <1>7, <1>8 DEF Covered
<1>10. Covered(g)'
  BY <1>4, <1>8 DEF Covered
<1>11. \A h \in 1 .. op[w].upTo : h \in DOMAIN grants
  BY <1>2, <1>3
<1>12. ~ Redeeming(w)' /\ ~ Speaks(w)'
  BY <1>5, <1>7 DEF Redeeming, Speaks, Moved
<1>13. InHand(w)'
  <2>1. op'[w].at = "grant.revoke" /\ op'[w].id = op[w].id /\ op'[w].dead = op[w].dead
        /\ op'[w].upTo = op[w].upTo /\ op'[w].rest = op[w].rest
    BY <1>5, <1>7 DEF Moved
  <2>2. \A h \in 1 .. op'[w].upTo : grants'[h].holder = op'[w].id => Covered(h)' \/ h \in op'[w].rest
    BY <1>2, <1>9, <1>10, <1>11, <2>1
  <2> QED
    BY <1>1, <1>2, <1>8, <1>12, <2>1, <2>2 DEF InHand
<1>14. calls' \in 0 .. MaxCalls /\ calls <= calls' /\ Len(grants) <= Len(grants') /\ Len(grants') <= calls'
  <2>1. calls \in 0 .. MaxCalls /\ Len(grants) <= calls
    BY DEF IInv, TypeOK, Tables
  <2> QED
    BY <1>3, <1>7, <1>8, <2>1
<1> QED
  BY <1>1, <1>7, <1>8, <1>9, <1>12, <1>13, <1>14, GrantsWritten

-----------------------------------------------------------------------------
(* Records, the clock, and all steps together.                             *)

LEMMA RecordKeeps == ASSUME IInv, NEW w \in Worker, Record(w) PROVE IInv'
<1>1. /\ op[w].at \in Type /\ UNCHANGED <<codes, clients, grants, clock, cut, calls>>
      /\ op' = [op EXCEPT ![w] = IF op[w].at = "grant.revoke" THEN [op[w] EXCEPT !.at = "cascade"] ELSE Idle]
      /\ paired' = IF op[w].at = "client.paired" THEN paired \union {op[w].id} ELSE paired
  BY DEF Record, IInv, TypeOK
<1>2. calls \in 0 .. MaxCalls /\ calls <= MaxCalls /\ op \in [Worker -> Operation]
  BY ClientsAssumption DEF IInv, TypeOK
<1>3. CASE op[w].at = "grant.revoke"
  <2> DEFINE o == [op[w] EXCEPT !.at = "cascade"]
  <2>1. Moved(o, w, "cascade")
    BY MovedTo DEF IInv, Step
  <2> HIDE DEF o
  <2>2. op' = [op EXCEPT ![w] = o] /\ paired' = paired
    BY <1>1, <1>3 DEF o
  <2>3. op' \in [Worker -> Operation] /\ op'[w] = o /\ \A v \in Worker \ {w} : op'[v] = op[v]
    BY <1>2, <2>1, <2>2 DEF Moved
  <2>4. ~ Redeeming(w)' /\ ~ Speaks(w)' /\ RevokedClients' = RevokedClients
    BY <1>1, <2>1, <2>3 DEF Redeeming, Speaks, RevokedClients, Moved
  <2>5. /\ op[w].id # 0 /\ clients[op[w].id] # None /\ op[w].dead \subseteq RevokedClients
        /\ op[w].upTo <= Len(grants) /\ op[w].rest \subseteq DOMAIN grants
        /\ \A h \in 1 .. op[w].upTo : grants[h].holder = op[w].id => Covered(h) \/ h \in op[w].rest
    BY <1>3 DEF IInv, InHand, Cascading
  <2>6. \A h \in 1 .. o.upTo : grants'[h].holder = o.id => Covered(h)' \/ h \in o.rest
    BY <1>1, <2>1, <2>5 DEF Covered, Moved
  <2>7. InHand(w)'
    BY <1>1, <2>1, <2>3, <2>4, <2>5, <2>6 DEF InHand, Moved
  <2> QED
    BY <1>1, <1>2, <2>2, <2>3, <2>4, <2>7, HandOnly
<1>4. CASE op[w].at # "grant.revoke"
  <2>1. op' \in [Worker -> Operation] /\ op'[w] = Idle /\ \A v \in Worker \ {w} : op'[v] = op[v]
    BY <1>1, <1>2, <1>4, IdleTyped
  <2>2. ~ Redeeming(w)' /\ InHand(w)'
    BY <2>1 DEF Redeeming, InHand, Speaks, Cascading, Idle
  <2>3. \A c \in paired' : c \in Id /\ clients[c] # None
    <3>1. op[w].at = "client.paired" => op[w].id \in 1 .. calls /\ clients[op[w].id] # None
      BY DEF IInv, InHand, Redeeming
    <3>2. op[w].at = "client.paired" => op[w].id \in Id
      BY <1>2, <3>1, ClientsAssumption DEF Id
    <3> QED
      BY <1>1, <3>1, <3>2 DEF IInv, TypeOK, Tables
  <2>4. TypeOK'
    BY <1>1, <2>1, <2>3 DEF IInv, TypeOK
  <2>5. Tables'
    BY <1>1, <2>3 DEF IInv, Tables
  <2>6. TablesKept
    <3>1. Len(grants) \in Nat /\ Len(grants) <= Len(grants') /\ calls <= calls'
      BY <1>1, <1>2 DEF IInv, TypeOK
    <3> QED
      BY <1>1, <3>1 DEF TablesKept, Covered, RevokedClients
  <2>7. RedemptionSound' /\ ListedCovered'
    BY <1>1 DEF IInv, RedemptionSound, OneClientPerCode, NoLateRedemption, ListedCovered, Covered, RevokedClients
  <2>8. \A v \in Worker \ {w} : op[v].at \in {"mark", "insert"} => clients'[op[v].id] = None
    BY <1>1 DEF IInv, InHand
  <2> QED
    BY <2>1, <2>2, <2>4, <2>5, <2>6, <2>7, <2>8, Steps
<1> QED
  BY <1>3, <1>4

(* Nobody moves; time, if it passes, uncovers nothing.                     *)
LEMMA TimeKeeps ==
  ASSUME IInv, UNCHANGED <<codes, clients, grants, op, paired, cut, calls>>,
         clock' \in Time, clock.sec <= clock'.sec
  PROVE  IInv'
<1>1. TypeOK'
  BY DEF IInv, TypeOK
<1>2. Tables'
  BY DEF IInv, Tables
<1>3. \A g \in DOMAIN grants : Covered(g) => Covered(g)'
  <2> SUFFICES ASSUME NEW g \in DOMAIN grants, Covered(g) PROVE Covered(g)'
    OBVIOUS
  <2>1. grants[g] \in Grant /\ clock \in Time
    BY DEF IInv, TypeOK
  <2>2. grants[g].expires # None => grants[g].expires.sec \in Nat
    BY <2>1 DEF Grant, Time
  <2>3. clock.sec \in Nat /\ clock'.sec \in Nat
    BY <2>1 DEF Time
  <2> QED
    BY <2>2, <2>3 DEF Covered
<1>4. RevokedClients' = RevokedClients
  BY DEF RevokedClients
<1>5. TablesKept
  <2>1. Len(grants) \in Nat /\ Len(grants) <= Len(grants') /\ calls \in Nat /\ calls <= calls'
    BY DEF IInv, TypeOK
  <2> QED
    BY <1>3, <1>4, <2>1 DEF TablesKept
<1>6. ASSUME NEW v \in Worker PROVE InHand(v)'
  <2>1. op[v].at \in {"mark", "insert"} => clients'[op[v].id] = None
    BY DEF IInv, InHand
  <2>2. op'[v] = op[v] /\ TypeOK /\ InHand(v)
    BY DEF IInv
  <2> QED
    BY <1>1, <1>5, <2>1, <2>2, InHandStays
<1>7. OneDraw' /\ RedemptionSound'
  BY DEF IInv, OneDraw, Redeeming, RedemptionSound, OneClientPerCode, NoLateRedemption
<1>8. ListedCovered'
  <2> SUFFICES ASSUME NEW c \in RevokedClients, NEW g \in 1 .. cut[c], grants[g].holder = c
               PROVE  Covered(g)'
    BY <1>4 DEF ListedCovered, Covered
  <2>1. g \in DOMAIN grants
    <3>1. cut[c] \in Nat /\ cut[c] <= Len(grants) /\ Len(grants) \in Nat /\ DOMAIN grants = 1 .. Len(grants)
      BY DEF IInv, TypeOK, Tables, RevokedClients
    <3> QED
      BY <3>1
  <2>2. Covered(g)
    BY DEF IInv, ListedCovered, Covered
  <2> QED
    BY <1>3, <2>1, <2>2
<1> QED
  BY <1>1, <1>2, <1>6, <1>7, <1>8 DEF IInv

LEMMA TickKeeps == ASSUME IInv, Tick PROVE IInv'
<1>1. /\ UNCHANGED <<codes, clients, grants, op, paired, cut, calls>>
      /\ clock' \in Instant /\ Before(clock, clock')
  BY DEF Tick
<1>2. clock \in Time /\ clock' \in Time
  BY <1>1, ClientsAssumption DEF IInv, TypeOK
<1>3. clock.sec <= clock'.sec
  <2>1. clock.sec \in Nat /\ clock'.sec \in Nat
    BY <1>2 DEF Time
  <2> QED
    BY <1>1, <2>1 DEF Before
<1> QED
  BY <1>1, <1>2, <1>3, TimeKeeps

LEMMA InitHolds == Init => IInv
<1> SUFFICES ASSUME Init PROVE IInv
  OBVIOUS
<1>1. 0 \in 0 .. MaxCalls /\ Idle \in Operation
  BY ClientsAssumption, IdleTyped
<1>2. clock \in Time
  BY ClientsAssumption DEF Init
<1>3. grants = << >> /\ grants \in Seq(Grant) /\ Len(grants) = 0 /\ DOMAIN grants = {}
  BY DEF Init
<1>4. TypeOK
  BY <1>1, <1>2, <1>3 DEF Init, TypeOK
<1>5. Tables
  BY <1>3 DEF Init, Tables
<1>6. \A w \in Worker : op[w].at = "idle" /\ op[w].dead = {}
  BY DEF Init, Idle
<1>7. \A w \in Worker : InHand(w) /\ ~ Redeeming(w)
  BY <1>6 DEF InHand, Redeeming, Speaks, Cascading
<1>8. RedemptionSound /\ ListedCovered
  BY DEF Init, RedemptionSound, OneClientPerCode, NoLateRedemption, ListedCovered, Covered, RevokedClients
<1> QED
  BY <1>4, <1>5, <1>7, <1>8 DEF IInv, OneDraw

LEMMA NextKeeps == ASSUME IInv, [Next]_vars PROVE IInv'
<1>1. ASSUME NEW w \in Worker, Call(w) PROVE IInv'
  BY <1>1, CreatePairingCodeKeeps, RedeemKeeps, RequestKeeps, IssueGrantKeeps, RevokeClientKeeps DEF Call
<1>2. ASSUME NEW w \in Worker, Continue(w) PROVE IInv'
  BY <1>2, MarkRedeemedKeeps, InsertClientKeeps, GetClientKeeps, TouchKeeps, CheckKeeps, ListGrantsKeeps,
     GetGrantKeeps, RevokeGrantKeeps, MarkRevokedKeeps, RecordKeeps DEF Continue
<1>3. ASSUME NEW w \in Worker, Abandon(w) PROVE IInv'
  BY <1>3, AbandonKeeps
<1>4. CASE Tick
  BY <1>4, TickKeeps
<1>5. CASE UNCHANGED vars
  <2>1. clock' = clock /\ clock \in Time /\ clock.sec <= clock.sec
    BY <1>5 DEF vars, IInv, TypeOK, Time
  <2> QED
    BY <1>5, <2>1, TimeKeeps DEF vars
<1> QED
  BY <1>1, <1>2, <1>3, <1>4, <1>5 DEF Next

-----------------------------------------------------------------------------
(* clients.go: whatever workers, calls and clock do, IInv holds of the     *)
(* tables and of what each worker has in hand.                             *)
THEOREM Invariance == Spec => []IInv
<1>1. Init => IInv
  BY InitHolds
<1>2. IInv /\ [Next]_vars => IInv'
  BY NextKeeps
<1> QED
  BY <1>1, <1>2, PTL DEF Spec

(* clients.go: every row and every operation in hand is of its type.       *)
THEOREM TypeCorrect == Spec => []TypeOK
<1>1. IInv => TypeOK
  BY DEF IInv
<1> QED
  BY <1>1, Invariance, PTL

(* RedeemPairingCode: however many redeem a code at once, it makes one     *)
(* client at most, and none a second or more after it expired.             *)
THEOREM RedemptionIsSound == Spec => []RedemptionSound
<1>1. IInv => RedemptionSound
  BY DEF IInv
<1> QED
  BY <1>1, Invariance, PTL

(* AuthenticateClient and Check: a request is let through only for a       *)
(* client whose token was handed out, that was not revoked when the        *)
(* request arrived, and on a grant of its own.                             *)
THEOREM OnlyPairedPass == Spec => []OnlyThePairedPass
<1>1. IInv => OnlyThePairedPass
  BY DEF IInv, InHand, Speaks, OnlyThePairedPass
<1> QED
  BY <1>1, Invariance, PTL

(* RevokeClient: once a client is revoked, every grant its cascade could   *)
(* list is revoked or out of time, provided that no list is cut off.       *)
THEOREM CascadeCovers == ASSUME NoCutOff PROVE Spec => []CascadeCoversListed
<1>1. IInv => CascadeCoversListed
  BY DEF IInv, ListedCovered, Covered, CascadeCoversListed, NoCutOff
<1> QED
  BY <1>1, Invariance, PTL
=============================================================================
