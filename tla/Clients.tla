------------------------------ MODULE Clients ------------------------------
(***************************************************************************)
(* internal/permission/clients.go: pairing codes, the clients they become, *)
(* the bearer tokens that speak for a client, and the revocation of a      *)
(* client with its grants.  Workers run the operations at once; every      *)
(* statement on a table and every append to the audit log is one step, and *)
(* a worker may stop between any two of its steps.                         *)
(***************************************************************************)
EXTENDS Timestamps, FiniteSets, Bags

CONSTANTS
  Worker,      \* concurrent callers of the engine
  Code,        \* what generatePairingCode draws from
  Instant,     \* the values the wall clock takes
  Expiry,      \* the expiries codes and grants may be given
  None,        \* no row, no expiry, no code
  ListLimit,   \* grants a cascade lists at most: 10,000 in the code
  MaxCalls     \* bound: an operation begins while fewer than this have begun

ASSUME ClientsAssumption ==
  /\ Instant \subseteq Time /\ Expiry \subseteq Time
  /\ ListLimit \in Nat /\ MaxCalls \in Nat
  /\ None \notin Time
  /\ None \notin [expires : Time, client : Nat, redeemed : Time \union {None}]
  /\ None \notin [secret : Nat, seen : BOOLEAN, revoked : BOOLEAN]

VARIABLES
  codes,      \* the table pairing_codes: a row, or None
  clients,    \* the table clients: a row, or None
  grants,     \* the grants of clients; an id is a place in the sequence
  log,        \* the audit log as a bag: its order is the business of AuditLog
  clock,      \* the wall clock
  op,         \* what each worker is doing
  paired,     \* the clients whose bearer token has been handed out
  cut,        \* history: how many grants there were when the revocation of a client listed them
  calls       \* history: how many operations have begun

vars == <<codes, clients, grants, log, clock, op, paired, cut, calls>>

(* A redemption draws a client id and a secret; it is numbered by the call *)
(* it is, and the number stands for both.                                  *)
Id == 1 .. MaxCalls

PairingCode == [expires : Time, client : Id \union {0}, redeemed : Time \union {None}]
Client == [secret : Id, seen : BOOLEAN, revoked : BOOLEAN]
Grant == [holder : Id, expires : Time \union {None}, revoked : BOOLEAN]

Type == {"client.pair_code_created", "client.pair_failed", "client.paired", "client.auth_failed",
         "client.revoked", "grant.create", "grant.revoke", "check.allow", "check.deny"}

Step == {"idle", "mark", "insert", "get client", "touch", "check", "get revoked",
         "list grants", "cascade", "revoke grant"} \union Type

(* What an operation has in hand: the client and the secret it is about,   *)
(* the pairing code, its now, the grants its cascade has yet to revoke,    *)
(* the grant in hand, how many grants there were when it listed them, and  *)
(* (history) the clients that were revoked when it began.                  *)
Operation ==
  [at : Step, id : Id \union {0}, secret : Id \union {0}, code : Code \union {None},
   now : Time \union {None}, rest : SUBSET Nat, grant : Nat, upTo : Nat, dead : SUBSET Id]

Idle == [at |-> "idle", id |-> 0, secret |-> 0, code |-> None, now |-> None,
         rest |-> {}, grant |-> 0, upTo |-> 0, dead |-> {}]

TypeOK ==
  /\ codes \in [Code -> PairingCode \union {None}]
  /\ clients \in [Id -> Client \union {None}]
  /\ grants \in Seq(Grant)
  /\ clock \in Time
  /\ op \in [Worker -> Operation]
  /\ paired \subseteq Id
  /\ cut \in [Id -> Nat]
  /\ calls \in 0 .. MaxCalls

Init ==
  /\ codes = [k \in Code |-> None]
  /\ clients = [c \in Id |-> None]
  /\ grants = << >>
  /\ log = EmptyBag
  /\ clock \in Instant
  /\ op = [w \in Worker |-> Idle]
  /\ paired = {}
  /\ cut = [c \in Id |-> 0]
  /\ calls = 0

RevokedClients == {c \in Id : clients[c] # None /\ clients[c].revoked}

(* An operation is called, and stops before its next statement. *)
Begin(w, o) ==
  /\ op[w].at = "idle"
  /\ calls < MaxCalls
  /\ calls' = calls + 1
  /\ op' = [op EXCEPT ![w] = [o EXCEPT !.now = clock, !.dead = RevokedClients]]
  /\ UNCHANGED <<log, clock, paired, cut>>

Goto(w, o) ==
  /\ op' = [op EXCEPT ![w] = o]
  /\ UNCHANGED <<log, clock, paired, calls>>

-----------------------------------------------------------------------------
(* Engine.CreatePairingCode: a code already in the table is refused. *)
CreatePairingCode(w, k, expires) ==
  /\ codes[k] = None
  /\ codes' = [codes EXCEPT ![k] = [expires |-> expires, client |-> 0, redeemed |-> None]]
  /\ Begin(w, [Idle EXCEPT !.at = "client.pair_code_created"])
  /\ UNCHANGED <<clients, grants>>

(* Engine.RedeemPairingCode draws an id and a secret, and takes its now. *)
RedeemPairingCode(w, k) ==
  /\ Begin(w, [Idle EXCEPT !.at = "mark", !.code = k, !.id = calls + 1])
  /\ UNCHANGED <<codes, clients, grants>>

(* Slip: the UPDATE of a redemption does not look at redeemed_at. *)
Unexpired(k, now) == codes[k] # None /\ SortsBefore(now, codes[k].expires)

(* MarkPairingCodeRedeemed: UPDATE ... WHERE redeemed_at IS NULL AND       *)
(* expires_at > ?.                                                         *)
Redeemable(k, now) ==
  codes[k] # None /\ codes[k].redeemed = None /\ SortsBefore(now, codes[k].expires)

MarkRedeemed(w) ==
  LET k == op[w].code IN
  /\ op[w].at = "mark"
  /\ \/ /\ Redeemable(k, op[w].now)
        /\ codes' = [codes EXCEPT ![k].client = op[w].id, ![k].redeemed = op[w].now]
        /\ Goto(w, [op[w] EXCEPT !.at = "insert"])
     \/ /\ ~ Redeemable(k, op[w].now)
        /\ Goto(w, [op[w] EXCEPT !.at = "client.pair_failed"])
        /\ UNCHANGED codes
  /\ UNCHANGED <<clients, grants, cut>>

(* GetPairingCode, for the name alone, and InsertClient. *)
InsertClient(w) ==
  LET c == op[w].id IN
  /\ op[w].at = "insert"
  /\ clients' = [clients EXCEPT ![c] = [secret |-> c, seen |-> FALSE, revoked |-> FALSE]]
  /\ Goto(w, [op[w] EXCEPT !.at = "client.paired"])
  /\ UNCHANGED <<codes, grants, cut>>

-----------------------------------------------------------------------------
(* A request arrives with a bearer token: requireAuth calls                *)
(* AuthenticateClient, and the handler then Check.  A token that was never *)
(* handed out carries a secret nobody drew.                                *)
Request(w, c, genuine) ==
  /\ genuine => c \in paired
  /\ Begin(w, [Idle EXCEPT !.at = "get client", !.id = c, !.secret = IF genuine THEN c ELSE 0])
  /\ UNCHANGED <<codes, clients, grants>>

(* Slip: a revoked client is not turned away. *)
GoodSecret(c, secret) == clients[c] # None /\ clients[c].secret = secret

Authentic(c, secret) == clients[c] # None /\ ~ clients[c].revoked /\ clients[c].secret = secret

GetClient(w) ==
  /\ op[w].at = "get client"
  /\ Goto(w, [op[w] EXCEPT !.at = IF Authentic(op[w].id, op[w].secret) THEN "touch" ELSE "client.auth_failed"])
  /\ UNCHANGED <<codes, clients, grants, cut>>

(* TouchClientLastSeen; its error is dropped. *)
Touch(w) ==
  /\ op[w].at = "touch"
  /\ \/ clients' = [clients EXCEPT ![op[w].id].seen = TRUE]
     \/ UNCHANGED clients
  /\ Goto(w, [op[w] EXCEPT !.at = "check", !.now = clock])
  /\ UNCHANGED <<codes, grants, cut>>

(* The grants of a client that a query with status active returns. *)
ActiveGrants(c, now) ==
  {g \in DOMAIN grants :
    /\ grants[g].holder = c
    /\ ~ grants[g].revoked
    /\ grants[g].expires = None \/ SortsBefore(now, grants[g].expires)}

(* Engine.Check, of a capability that asks nobody: see Permission. *)
Check(w) ==
  LET usable == ActiveGrants(op[w].id, op[w].now) IN
  /\ op[w].at = "check"
  /\ \/ \E g \in usable : Goto(w, [op[w] EXCEPT !.at = "check.allow", !.grant = g])
     \/ usable = {} /\ Goto(w, [op[w] EXCEPT !.at = "check.deny"])
  /\ UNCHANGED <<codes, clients, grants, cut>>

-----------------------------------------------------------------------------
(* Engine.IssueGrant, to a client: whether the client is revoked is not    *)
(* asked.                                                                  *)
IssueGrant(w, c, expires) ==
  /\ clients[c] # None
  /\ grants' = Append(grants, [holder |-> c, expires |-> expires, revoked |-> FALSE])
  /\ Begin(w, [Idle EXCEPT !.at = "grant.create", !.grant = Len(grants) + 1])
  /\ UNCHANGED <<codes, clients>>

(* Engine.RevokeClient: the grants first, one by one, then the client. *)
RevokeClient(w, c) ==
  /\ clients[c] # None /\ ~ clients[c].revoked
  /\ Begin(w, [Idle EXCEPT !.at = "list grants", !.id = c])
  /\ UNCHANGED <<codes, clients, grants>>

ListGrants(w) ==
  /\ op[w].at = "list grants"
  /\ \E listed \in SUBSET ActiveGrants(op[w].id, clock) :
       /\ listed = ActiveGrants(op[w].id, clock) \/ Cardinality(listed) = ListLimit
       /\ Cardinality(listed) <= ListLimit
       /\ Goto(w, [op[w] EXCEPT !.at = "cascade", !.now = clock, !.rest = listed, !.upTo = Len(grants)])
  /\ UNCHANGED <<codes, clients, grants, cut>>

(* Engine.RevokeGrant of the next grant: GetGrant, and on if not revoked. *)
GetGrant(w) ==
  /\ op[w].at = "cascade"
  /\ \E g \in op[w].rest :
       Goto(w, IF grants[g].revoked
               THEN [op[w] EXCEPT !.rest = @ \ {g}]
               ELSE [op[w] EXCEPT !.rest = @ \ {g}, !.at = "revoke grant", !.grant = g])
  /\ UNCHANGED <<codes, clients, grants, cut>>

RevokeGrant(w) ==
  /\ op[w].at = "revoke grant"
  /\ grants' = [grants EXCEPT ![op[w].grant].revoked = TRUE]
  /\ Goto(w, [op[w] EXCEPT !.at = "grant.revoke"])
  /\ UNCHANGED <<codes, clients, cut>>

(* Slip: the client is revoked before its grants. *)
MarkRevokedEarly(w) ==
  LET c == op[w].id IN
  /\ op[w].at = "cascade"
  /\ clients' = [clients EXCEPT ![c].revoked = TRUE]
  /\ cut' = [cut EXCEPT ![c] = IF clients[c].revoked THEN @ ELSE op[w].upTo]
  /\ IF op[w].rest = {} THEN Goto(w, [op[w] EXCEPT !.at = "client.revoked"]) ELSE Goto(w, op[w])
  /\ UNCHANGED <<codes, grants>>

(* Store.RevokeClient: WHERE revoked_at IS NULL; a second one succeeds all the same. *)
MarkRevoked(w) ==
  LET c == op[w].id IN
  /\ op[w].at = "cascade" /\ op[w].rest = {}
  /\ clients' = [clients EXCEPT ![c].revoked = TRUE]
  /\ cut' = [cut EXCEPT ![c] = IF clients[c].revoked THEN @ ELSE op[w].upTo]
  /\ Goto(w, [op[w] EXCEPT !.at = "client.revoked"])
  /\ UNCHANGED <<codes, grants>>

-----------------------------------------------------------------------------
(* Every entry but those of a cascade's grants ends its operation. *)
Entry(w) == <<op[w].at, IF op[w].at \in {"grant.create", "grant.revoke"} THEN op[w].grant ELSE op[w].id>>

(* The append; its error is dropped. *)
Record(w) ==
  /\ op[w].at \in Type
  /\ log' = log (+) SetToBag({Entry(w)}) \/ log' = log
  /\ op' = [op EXCEPT ![w] = IF @.at = "grant.revoke" THEN [@ EXCEPT !.at = "cascade"] ELSE Idle]
  /\ paired' = IF op[w].at = "client.paired" THEN paired \union {op[w].id} ELSE paired
  /\ UNCHANGED <<codes, clients, grants, clock, cut, calls>>

(* The operation is cut short. *)
Abandon(w) ==
  /\ op[w].at # "idle"
  /\ Goto(w, Idle)
  /\ UNCHANGED <<codes, clients, grants, cut>>

Tick ==
  /\ clock' \in {t \in Instant : Before(clock, t)}
  /\ UNCHANGED <<codes, clients, grants, log, op, paired, cut, calls>>

Call(w) ==
  \/ \E k \in Code, expires \in Expiry : CreatePairingCode(w, k, expires)
  \/ \E k \in Code : RedeemPairingCode(w, k)
  \/ \E c \in Id, genuine \in BOOLEAN : Request(w, c, genuine)
  \/ \E c \in Id, expires \in Expiry \union {None} : IssueGrant(w, c, expires)
  \/ \E c \in Id : RevokeClient(w, c)

Continue(w) ==
  \/ MarkRedeemed(w) \/ InsertClient(w)
  \/ GetClient(w) \/ Touch(w) \/ Check(w)
  \/ ListGrants(w) \/ GetGrant(w) \/ RevokeGrant(w) \/ MarkRevoked(w)
  \/ Record(w)

Next == Tick \/ \E w \in Worker : Call(w) \/ Continue(w) \/ Abandon(w)

Spec == Init /\ [][Next]_vars

-----------------------------------------------------------------------------
(* Properties.                                                             *)

Copies(type, id) == IF BagIn(<<type, id>>, log) THEN log[<<type, id>>] ELSE 0

(* However many redeem a code at once, it makes one client at most: every  *)
(* client is the one its code names.                                       *)
OneClientPerCode == \A c \in Id : clients[c] # None => \E k \in Code : codes[k] # None /\ codes[k].client = c

(* No code is redeemed a second or more after it expired. *)
NoLateRedemption ==
  \A k \in Code :
    codes[k] # None /\ codes[k].redeemed # None => codes[k].redeemed.sec <= codes[k].expires.sec

(* A code is redeemed once, and in time. *)
RedemptionSound == OneClientPerCode /\ NoLateRedemption

(* A request is let through only if its token was handed out for a client  *)
(* that was not revoked when the request arrived, on a grant of that       *)
(* client.                                                                 *)
OnlyThePairedPass ==
  \A w \in Worker : op[w].at = "check.allow" =>
    /\ op[w].id \in paired \ op[w].dead
    /\ grants[op[w].grant].holder = op[w].id

(* Once a client is revoked, every grant that it had when its revocation   *)
(* listed them is revoked, or in the second of its expiry or past it: a    *)
(* request that arrived earlier can no longer pass on one.                 *)
CascadeCoversListed ==
  \A c \in RevokedClients : \A g \in 1 .. cut[c] :
    grants[g].holder = c =>
      grants[g].revoked \/ (grants[g].expires # None /\ grants[g].expires.sec <= clock.sec)

(* clients.go: RevokeClient "Emits client.revoked once on first revocation". *)
ClientRevokedOnce == \A c \in Id : Copies("client.revoked", c) <= 1

(* types.go, Client.RevokedAt: the grants of a revoked client "are         *)
(* cascade-revoked at the same time", so it holds none it could use.       *)
RevokedHoldNothing == \A c \in RevokedClients : ActiveGrants(c, clock) = {}

(* clients.go: RedeemPairingCode "atomically consumes a pairing code,      *)
(* creates a Client, and returns the plaintext bearer token": a code is    *)
(* not spent without a client.                                             *)
SpentCodeHasClient ==
  \A k \in Code : codes[k] # None /\ codes[k].client # 0 =>
    clients[codes[k].client] # None \/ \E w \in Worker : op[w].at = "insert" /\ op[w].code = k
=============================================================================
