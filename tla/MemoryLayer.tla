---------------------------- MODULE MemoryLayer ----------------------------
(***************************************************************************)
(* internal/memory: the layer between the sources and the vector index.    *)
(* An upsert embeds an entry, writes it to the index, and derives from its *)
(* metadata the people and the conversation it belongs to: rows, links and *)
(* counts, one statement at a time, under a mutex that each process has of *)
(* its own.  A delete takes the entry out of the index and unlinks it.     *)
(* One namespace; names and addresses are values.                          *)
(***************************************************************************)
EXTENDS Naturals, Sequences, FiniteSets

CONSTANTS
  Process,       \* the daemon, and commands that open the same tables
  Worker,        \* the calls under way
  ProcessOf,     \* the process each runs in
  Letter,        \* [entry, people: Seq of [email, name], conversation, date]: what sources write
  Now,           \* the time of the calls, later than every date
  MaxCalls,      \* bound: calls made
  None

(* What the parameters are, whatever their values.                         *)
LayerParameters ==
  /\ \A l \in Letter : l.date \in Nat \union {None} /\ Len(l.people) \in Nat
  /\ Now \in Nat
  /\ None \notin Worker /\ None \notin [first : Nat, last : Nat, count : Nat]

VARIABLES
  index,         \* the adapter: the letter whose vector and metadata an entry has
  entities,      \* memory_layer_entities: [aliases, first, last, count], the id is the place
  owner,         \* memory_layer_aliases: the entity an alias points at
  links,         \* memory_layer_entity_entries: [entity, entry, role, date]
  threads,       \* memory_layer_threads, by external id: [first, last, count]
  threadLinks,   \* memory_layer_thread_entries: [thread, entry, date]
  mu,            \* Store.mu of each process
  call,          \* the calls
  calls,         \* calls made
  torn           \* ghost: rows whose count a call left behind when it failed or died

layerVars == <<index, entities, owner, links, threads, threadLinks, mu, call, calls, torn>>

Entry == {l.entry : l \in Letter}
Conversation == {l.conversation : l \in Letter} \ {None}
Person == UNION {{l.people[i] : i \in DOMAIN l.people} : l \in Letter}

(* makeExtraction: the address and, where the header gives one, the name.  *)
Aliases(p) ==
  {<<"email", p.email>>} \union (IF p.name = None THEN {} ELSE {<<"name", p.name>>})
Alias == UNION {Aliases(p) : p \in Person}

Min2(a, b) == IF a < b THEN a ELSE b
Max2(a, b) == IF a > b THEN a ELSE b

Idle == [at |-> "idle", letter |-> None, who |-> 0, id |-> 0, entry |-> None, ids |-> {}, ok |-> FALSE]

LayerInit ==
  /\ index = [x \in Entry |-> None]
  /\ entities = <<>> /\ owner = [a \in Alias |-> 0] /\ links = {}
  /\ threads = [c \in Conversation |-> None] /\ threadLinks = {}
  /\ mu = [p \in Process |-> None]
  /\ call = [w \in Worker |-> Idle] /\ calls = 0 /\ torn = {}

LayerTypeOK ==
  /\ index \in [Entry -> Letter \union {None}]
  /\ \A i \in DOMAIN entities :
       entities[i].aliases \subseteq Alias /\ entities[i].count \in Nat
  /\ owner \in [Alias -> 0 .. Len(entities)]
  /\ \A l \in links : l.entity \in DOMAIN entities /\ l.entry \in Entry
  /\ mu \in [Process -> Worker \union {None}]

-----------------------------------------------------------------------------
Goes(w, to) == call' = [call EXCEPT ![w].at = to]

Locked(w) == mu[ProcessOf[w]] = w
Lock(w) == mu[ProcessOf[w]] = None /\ mu' = [mu EXCEPT ![ProcessOf[w]] = w]
Unlock(w) == mu' = [mu EXCEPT ![ProcessOf[w]] = None]

(* DateOf: parseEntryDate, and the time of the call where it finds none.   *)
DateOf(l) == IF l.date = None THEN Now ELSE l.date

(* Layer.Upsert: the vector is the caller's or the embedder's; without one *)
(* the adapter is skipped, and a failed write ends the call.               *)
Upsert(w, l) ==
  /\ call[w].at \in {"idle", "done"} /\ calls < MaxCalls
  /\ calls' = calls + 1
  /\ \/ index' = [index EXCEPT ![l.entry] = l]
        /\ call' = [call EXCEPT ![w] = [Idle EXCEPT !.at = "find", !.letter = l, !.who = 1,
                                                    !.entry = l.entry, !.ok = TRUE]]
     \/ call' = [call EXCEPT ![w] = [Idle EXCEPT !.at = "find", !.letter = l, !.who = 1,
                                                 !.entry = l.entry, !.ok = TRUE]]
        /\ UNCHANGED index
     \/ call' = [call EXCEPT ![w] = [Idle EXCEPT !.at = "done", !.letter = l, !.entry = l.entry]]
        /\ UNCHANGED index
  /\ UNCHANGED <<entities, owner, links, threads, threadLinks, mu, torn>>

Someone(w) == call[w].letter.people[call[w].who]

(* upsertEntityLocked: the first of the aliases that points at an entity,  *)
(* the address before the name.                                            *)
FindAlias(w) ==
  LET p == Someone(w) IN
  IF owner[<<"email", p.email>>] # 0 \/ p.name = None THEN owner[<<"email", p.email>>]
  ELSE owner[<<"name", p.name>>]

(* Slip: the lookup is made before the mutex is taken.                     *)
FindUnlocked(w) ==
  /\ call[w].at = "find" /\ call[w].who \in DOMAIN call[w].letter.people
  /\ call' = [call EXCEPT ![w].at = "write", ![w].id = FindAlias(w)]
  /\ UNCHANGED <<index, entities, owner, links, threads, threadLinks, mu, calls, torn>>

FindEntity(w) ==
  /\ call[w].at = "find" /\ call[w].who \in DOMAIN call[w].letter.people
  /\ Lock(w)
  /\ call' = [call EXCEPT ![w].at = "write", ![w].id = FindAlias(w)]
  /\ UNCHANGED <<index, entities, owner, links, threads, threadLinks, calls, torn>>

(* mergeEntity: aliases are added and the bracket widened.                 *)
MergeEntity(e, p, date) ==
  [e EXCEPT !.aliases = @ \union Aliases(p), !.first = Min2(@, date), !.last = Max2(@, date)]

(* The transaction: a new row or a merged one, and its aliases where they  *)
(* point at none yet.                                                      *)
WriteEntity(w) ==
  /\ call[w].at = "write"
  /\ LET date == DateOf(call[w].letter)
         new == [aliases |-> Aliases(Someone(w)), first |-> date, last |-> date, count |-> 0]
         id == IF call[w].id = 0 THEN Len(entities) + 1 ELSE call[w].id
         row == IF call[w].id = 0 THEN new ELSE MergeEntity(entities[id], Someone(w), date)
     IN /\ entities' = [i \in DOMAIN entities \union {id} |-> IF i = id THEN row ELSE entities[i]]
        /\ owner' = [a \in Alias |-> IF a \in row.aliases /\ owner[a] = 0 THEN id ELSE owner[a]]
        /\ call' = [call EXCEPT ![w].at = "link", ![w].id = id]
  /\ Unlock(w)
  /\ UNCHANGED <<index, links, threads, threadLinks, calls, torn>>

(* LinkEntityEntry: the link, unless there is one, and then the count.     *)
LinkEntityEntry(w) ==
  /\ call[w].at = "link" /\ Lock(w)
  /\ LET key == [entity |-> call[w].id, entry |-> call[w].entry, role |-> call[w].who]
         known == \E l \in links : l.entity = key.entity /\ l.entry = key.entry /\ l.role = key.role
     IN links' = IF known THEN links
                 ELSE links \union {[entity |-> key.entity, entry |-> key.entry, role |-> key.role,
                                     date |-> call[w].letter.date]}
  /\ Goes(w, "count")
  /\ UNCHANGED <<index, entities, owner, threads, threadLinks, calls, torn>>

EntriesOf(i) == {l.entry : l \in {k \in links : k.entity = i}}

CountLinks(w) ==
  /\ call[w].at = "count"
  /\ entities' = [entities EXCEPT ![call[w].id].count = Cardinality(EntriesOf(call[w].id))]
  /\ torn' = torn \ {<<"entity", call[w].id>>}
  /\ call' = [call EXCEPT ![w].at = "find", ![w].who = @ + 1]
  /\ Unlock(w)
  /\ UNCHANGED <<index, owner, links, threads, threadLinks, calls>>

-----------------------------------------------------------------------------
(* deriveThread, once there is no one left: UpsertThread reads the row and *)
(* writes it, new or with a wider bracket.                                 *)
Thread(w) == call[w].letter.conversation

DeriveThread(w) ==
  /\ call[w].at = "find" /\ call[w].who \notin DOMAIN call[w].letter.people
  /\ IF Thread(w) = None THEN Goes(w, "done") /\ UNCHANGED mu
     ELSE Lock(w) /\ Goes(w, "thread")
  /\ UNCHANGED <<index, entities, owner, links, threads, threadLinks, calls, torn>>

Widen(row, date) == [row EXCEPT !.first = Min2(@, date), !.last = Max2(@, date)]

UpsertThread(w) ==
  /\ call[w].at = "thread"
  /\ LET date == DateOf(call[w].letter)
     IN threads' = [threads EXCEPT ![Thread(w)] =
          IF @ = None THEN [first |-> date, last |-> date, count |-> 0] ELSE Widen(@, date)]
  /\ Unlock(w) /\ Goes(w, "linkThread")
  /\ UNCHANGED <<index, entities, owner, links, threadLinks, calls, torn>>

LinkThreadEntry(w) ==
  /\ call[w].at = "linkThread" /\ Lock(w)
  /\ LET known == \E l \in threadLinks : l.thread = Thread(w) /\ l.entry = call[w].entry
     IN threadLinks' = IF known THEN threadLinks
          ELSE threadLinks \union {[thread |-> Thread(w), entry |-> call[w].entry,
                                    date |-> call[w].letter.date]}
  /\ Goes(w, "countThread")
  /\ UNCHANGED <<index, entities, owner, links, threads, calls, torn>>

InThread(c) == {l \in threadLinks : l.thread = c}

CountThread(w) ==
  /\ call[w].at = "countThread"
  /\ threads' = [threads EXCEPT ![Thread(w)].count = Cardinality(InThread(Thread(w)))]
  /\ torn' = torn \ {<<"thread", Thread(w)>>}
  /\ Unlock(w) /\ Goes(w, "done")
  /\ UNCHANGED <<index, entities, owner, links, threadLinks, calls>>

-----------------------------------------------------------------------------
(* Layer.Delete: out of the index, and UnlinkEntry.                        *)
Delete(w, x) ==
  /\ call[w].at \in {"idle", "done"} /\ calls < MaxCalls
  /\ calls' = calls + 1
  /\ \/ index' = [index EXCEPT ![x] = None]
        /\ call' = [call EXCEPT ![w] = [Idle EXCEPT !.at = "linked", !.entry = x]]
     \/ call' = [call EXCEPT ![w] = [Idle EXCEPT !.at = "done", !.entry = x]] /\ UNCHANGED index
  /\ UNCHANGED <<entities, owner, links, threads, threadLinks, mu, torn>>

(* What is linked to the entry is read first, to know whose counts change. *)
LinkedTo(x) ==
  {<<"entity", l.entity>> : l \in {k \in links : k.entry = x}}
  \union {<<"thread", l.thread>> : l \in {k \in threadLinks : k.entry = x}}

ReadLinked(w) ==
  /\ call[w].at = "linked" /\ Lock(w)
  /\ call' = [call EXCEPT ![w].at = "unlink", ![w].ids = LinkedTo(call[w].entry)]
  /\ UNCHANGED <<index, entities, owner, links, threads, threadLinks, calls, torn>>

UnlinkEntry(w) ==
  \/ /\ call[w].at = "unlink"
     /\ links' = {l \in links : l.entry # call[w].entry}
     /\ Goes(w, "unlinkThread")
     /\ UNCHANGED <<index, entities, owner, threads, threadLinks, mu, calls, torn>>
  \/ /\ call[w].at = "unlinkThread"
     /\ threadLinks' = {l \in threadLinks : l.entry # call[w].entry}
     /\ Goes(w, "recount")
     /\ UNCHANGED <<index, entities, owner, links, threads, mu, calls, torn>>

Recount(w) ==
  /\ call[w].at = "recount"
  /\ \E g \in call[w].ids :
       /\ IF g[1] = "entity"
          THEN entities' = [entities EXCEPT ![g[2]].count = Cardinality(EntriesOf(g[2]))]
               /\ UNCHANGED threads
          ELSE threads' = [threads EXCEPT ![g[2]].count = Cardinality(InThread(g[2]))]
               /\ UNCHANGED entities
       /\ call' = [call EXCEPT ![w].ids = @ \ {g}]
       /\ torn' = torn \ {g}
  /\ UNCHANGED <<index, owner, links, threadLinks, mu, calls>>

Unlinked(w) ==
  /\ call[w].at = "recount" /\ call[w].ids = {}
  /\ Unlock(w) /\ Goes(w, "done")
  /\ UNCHANGED <<index, entities, owner, links, threads, threadLinks, calls, torn>>

-----------------------------------------------------------------------------
(* The rows whose count a call is about to bring up to date.               *)
Counting(w) ==
  CASE call[w].at = "count" -> {<<"entity", call[w].id>>}
    [] call[w].at = "countThread" -> {<<"thread", Thread(w)>>}
    [] call[w].at \in {"unlink", "unlinkThread", "recount"} -> call[w].ids
    [] OTHER -> {}

(* A statement fails: the mutex is released and the warning logged; after  *)
(* the people the conversation is still derived.                           *)
Fails(w) ==
  /\ Locked(w)
  /\ mu' = [mu EXCEPT ![ProcessOf[w]] = None]
  /\ torn' = torn \union Counting(w)
  /\ call' = IF call[w].at \in {"write", "count"}
             THEN [call EXCEPT ![w].at = "find", ![w].who = Len(call[w].letter.people) + 1]
             ELSE [call EXCEPT ![w].at = "done"]
  /\ UNCHANGED <<index, entities, owner, links, threads, threadLinks, calls>>

(* A process stops; what it wrote stays.                                   *)
Crash(p) ==
  LET dead == {w \in Worker : ProcessOf[w] = p} IN
  /\ \E w \in dead : call[w].at \notin {"idle", "done"}
  /\ mu' = [mu EXCEPT ![p] = None]
  /\ torn' = torn \union UNION {Counting(w) : w \in dead}
  /\ call' = [w \in Worker |-> IF w \in dead THEN Idle ELSE call[w]]
  /\ UNCHANGED <<index, entities, owner, links, threads, threadLinks, calls>>

LayerStep(w) ==
  \/ \E l \in Letter : Upsert(w, l)
  \/ \E x \in Entry : Delete(w, x)
  \/ FindEntity(w) \/ WriteEntity(w) \/ LinkEntityEntry(w) \/ CountLinks(w)
  \/ DeriveThread(w) \/ UpsertThread(w) \/ LinkThreadEntry(w) \/ CountThread(w)
  \/ ReadLinked(w) \/ UnlinkEntry(w) \/ Recount(w) \/ Unlinked(w)
  \/ Fails(w)

LayerNext == (\E w \in Worker : LayerStep(w)) \/ (\E p \in Process : Crash(p))

LayerSpec == LayerInit /\ [][LayerNext]_layerVars

-----------------------------------------------------------------------------
(* Properties.                                                             *)

(* No address belongs to two entities, however calls of one process        *)
(* overlap (types.go: entries with one address resolve to one Entity).     *)
OneEntityPerEmail ==
  \A i, j \in DOMAIN entities : \A a \in entities[i].aliases \intersect entities[j].aliases :
     a[1] = "email" => i = j

(* A count differs from the links only while a call is about to refresh it *)
(* or because one failed or died there; the next link or unlink heals it.  *)
CountsMatch ==
  LET settled(g) == g \notin torn /\ \A w \in Worker : g \notin Counting(w) IN
  /\ \A i \in DOMAIN entities :
       settled(<<"entity", i>>) => entities[i].count = Cardinality(EntriesOf(i))
  /\ \A c \in Conversation :
       threads[c] # None /\ settled(<<"thread", c>>) =>
          threads[c].count = Cardinality(InThread(c))

(* The dates of the entries linked to a person or to a conversation lie    *)
(* between its first_seen and its last_seen, though a link keeps the date  *)
(* it was made with.                                                       *)
BracketsHold ==
  /\ \A l \in links : l.date # None =>
       l.date \in entities[l.entity].first .. entities[l.entity].last
  /\ \A l \in threadLinks : l.date # None =>
       l.date \in threads[l.thread].first .. threads[l.thread].last
=============================================================================
