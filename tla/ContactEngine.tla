---------------------------- MODULE ContactEngine ----------------------------
(***************************************************************************)
(* ContactEngine: the contacts and the reply rule of each, in a list in    *)
(* memory and in a Room table.  The service's coroutine runs init: it      *)
(* migrates a legacy file, loads the table into a new list and syncs with  *)
(* the phone's address book.  Meanwhile, before and after, the engine's    *)
(* handlers create contacts, set rules and sync.                           *)
(*                                                                         *)
(* A contact is a mutable object.  Loading makes new objects, so an object *)
(* is the number of its contact and the load it stems from; a handler that *)
(* found an object before a load goes on with it after.  Each step reads   *)
(* or writes the list, an object's rule or the table once; a lookup that   *)
(* finds a contact and only reads it changes nothing and is no step.       *)
(*                                                                         *)
(* Contacts are numbered as they are created.  The id the code gives one,  *)
(* the table's primary key, is the time in milliseconds, which two may     *)
(* share: key is the number of the first contact with that id.             *)
(*                                                                         *)
(* Two threads may create a contact each for one person, one with a name   *)
(* and one without.  A name finds the one, the number the first of the     *)
(* two, so that a rule set by name need not be the one a message of that   *)
(* person finds; no property claims that it is.                            *)
(***************************************************************************)
EXTENDS Naturals, Sequences, FiniteSets, SequencesExt

CONSTANTS
  People,       \* those a contact may be of, known by their number
  Names,        \* what the owner may call somebody
  Matches,      \* the people whose name, alias or relationship each may be
  AddressBook,  \* the phone's contacts, in order
  Legacy,       \* the person in contacts.json
  Service,      \* the coroutine that runs init
  Handlers,     \* the engine's handlers: one under its mutex, one beside it
  Faults,       \* "database": an insert or a query may fail;
                \* "migration": reading the legacy file may fail;
                \* "rename": renameTo may return false;
                \* "crash": the process may be killed
  MaxIds,       \* contacts created (bound)
  MaxRequests,  \* what handlers are asked for (bound)
  MaxLoads      \* loads in one life of the process (bound)

Threads == Handlers \cup {Service}
Ids     == 1..MaxIds
Makers  == {"add", "add_named"}
Loads   == 0..MaxLoads
Rules   == {"AUTO", "NEVER", "ALWAYS"}
NoRule  == "none"

\* What an object holds and a row of the table repeats.  named: the name or an
\* alias from the address book is in it.
Contact   == [who : People, rule : Rules, named : BOOLEAN]
NoContact == [who |-> "nobody", rule |-> NoRule, named |-> FALSE]
NoObject  == <<0, 0>>
LegacyId  == 1

ASSUME ContactAssumption ==
  /\ "nobody" \notin People /\ People \cap Names = {}
  /\ Matches \in [Names -> SUBSET People]
  /\ AddressBook \in Seq(People) /\ Legacy \in People
  /\ Service \notin Handlers
  /\ Faults \subseteq {"database", "migration", "rename", "crash"}
  /\ MaxIds \in Nat \ {0} /\ MaxLoads \in Nat \ {0} /\ MaxRequests \in Nat

VARIABLES
  contacts,   \* the list, as numbers of contacts
  load,       \* the load the list's objects stem from
  heap,       \* the objects
  room,       \* the table, in the order getAll returns it: ids and rows
  dao,        \* dao is not null
  json,       \* contacts.json exists
  nextId,     \* the number of the next contact
  key,        \* the id of each, as the number of the first that has it
  latest,     \* the last contact made for a number, and in a sync, in this process
  requests,   \* what handlers were asked for so far
  pc,         \* where each thread is
  arg,        \* the person to create or the rule to set
  target,     \* whom the rule is for, as the owner put it
  object,     \* the object it works on
  row,        \* the entity it is about to insert
  book,       \* the address book entries its sync still has to look at
  fetched,    \* what getAll returned
  set,        \* history: the rule last set, since the last load, in the contact
              \* that each person's number finds
  durable,    \* history: the rule last inserted from the list, per contact
  stale,      \* history: contacts whose row was not what the object held
  leftover    \* history: contacts.json was there still when the list was loaded

vars == <<contacts, load, heap, room, dao, json, nextId, key, latest, requests, pc,
          arg, target, object, row, book, fetched, set, durable, stale, leftover>>

list    == <<contacts, load, heap>>
table   == <<room, dao, json>>
ids     == <<nextId, key, latest>>
local   == <<arg, target, object, row, book>>
history == <<set, durable, stale, leftover>>

Phases == {"off", "migrate", "rename", "get_all", "replace", "sync", "idle",
           "add", "add_named", "find", "set", "snapshot", "insert"}

Rows == [id : Ids, contact : Contact]

TypeOK ==
  /\ contacts \in Seq(Ids) /\ load \in Loads
  /\ heap \in [Ids \X Loads -> Contact \cup {NoContact}]
  /\ \A i \in Range(contacts) : heap[<<i, load>>] \in Contact
  /\ room \in Seq(Rows) /\ fetched \in Seq(Rows)
  /\ dao \in BOOLEAN /\ json \in BOOLEAN
  /\ nextId \in 1..(MaxIds + 1) /\ requests \in 0..MaxRequests
  /\ key \in [Ids -> Ids] /\ latest \in [Makers -> 0..MaxIds]
  /\ pc \in [Threads -> Phases]
  /\ arg \in [Threads -> People \cup Rules \cup {NoRule}]
  /\ target \in [Threads -> People \cup Names \cup {NoRule}]
  /\ object \in [Threads -> (Ids \X Loads) \cup {NoObject}]
  /\ row \in [Threads -> Contact \cup {NoContact}]
  /\ book \in [Threads -> Seq(People)]
  /\ set \in [People -> Rules \cup {NoRule}]
  /\ durable \in [Ids -> Rules \cup {NoRule}]
  /\ stale \subseteq Ids /\ leftover \in BOOLEAN

AtRest == [t \in Threads |-> IF t = Service THEN "off" ELSE "idle"]

Init ==
  /\ contacts = <<>> /\ load = 0
  /\ heap = [o \in Ids \X Loads |-> NoContact]
  /\ room = <<>> /\ dao = FALSE /\ json = TRUE
  /\ nextId = LegacyId + 1 /\ requests = 0
  /\ key = [i \in Ids |-> i] /\ latest = [m \in Makers |-> 0]
  /\ pc = AtRest
  /\ arg = [t \in Threads |-> NoRule]
  /\ target = [t \in Threads |-> NoRule]
  /\ object = [t \in Threads |-> NoObject]
  /\ row = [t \in Threads |-> NoContact]
  /\ book = [t \in Threads |-> <<>>]
  /\ fetched = <<>>
  /\ set = [p \in People |-> NoRule]
  /\ durable = [i \in Ids |-> NoRule]
  /\ stale = {} /\ leftover = FALSE

Move(t, from, to) == pc[t] = from /\ pc' = [pc EXCEPT ![t] = to]

-----------------------------------------------------------------------------
(* findContact, and the table *)

\* A number is on the contact, a name only once the address book or the legacy
\* file gave it one.
MatchedBy(c, x) == IF x \in People THEN c.who = x ELSE c.named /\ c.who \in Matches[x]

\* The first contact of the list that x, a number or a name, may mean, or none.
Found(x) ==
  LET hits == {k \in DOMAIN contacts : MatchedBy(heap[<<contacts[k], load>>], x)}
  IN IF hits = {} THEN NoObject ELSE <<contacts[Min(hits)], load>>

\* INSERT OR REPLACE: the row of the primary key i moves to the end of the table.
Upsert(rows, i, c) ==
  LET at    == {k \in DOMAIN rows : rows[k].id = i}
      other == IF at = {} THEN rows ELSE RemoveAt(rows, CHOOSE k \in at : TRUE)
  IN Append(other, [id |-> i, contact |-> c])

RowOf(i) == {r \in Range(room) : r.id = i}

-----------------------------------------------------------------------------
(* init *)

\* The service is created, for the first time or again in the same process.
StartInit ==
  /\ pc[Service] \in {"off", "idle"} /\ load < MaxLoads
  /\ pc' = [pc EXCEPT ![Service] = "migrate"]
  /\ dao' = TRUE
  /\ UNCHANGED <<list, room, json, ids, requests, local, fetched, history>>

\* insertAll of the legacy file, in place of what the contact's row may be by now.
InsertLegacy ==
  /\ room' = Upsert(room, LegacyId, [who |-> Legacy, rule |-> "AUTO", named |-> TRUE])
  /\ stale' = IF leftover THEN stale \cup {LegacyId} ELSE stale

\* Mutant: whether there still is a legacy file is not asked.
MigrateAlways ==
  /\ InsertLegacy
  /\ Move(Service, "migrate", "rename")
  /\ UNCHANGED <<list, dao, json, ids, requests, local, fetched, set, durable, leftover>>

\* The legacy file into the table, or nothing to do, or a failure.
Migrate ==
  /\ \/ json /\ InsertLegacy /\ Move(Service, "migrate", "rename")
     \/ /\ ~json \/ "migration" \in Faults
        /\ Move(Service, "migrate", "get_all")
        /\ UNCHANGED <<room, stale>>
  /\ UNCHANGED <<list, dao, json, ids, requests, local, fetched, set, durable, leftover>>

\* renameTo, whose result nobody looks at.
Rename ==
  /\ Move(Service, "rename", "get_all")
  /\ json' = FALSE \/ ("rename" \in Faults /\ UNCHANGED json)
  /\ UNCHANGED <<list, room, dao, ids, requests, local, fetched, history>>

GetAll ==
  /\ \/ Move(Service, "get_all", "replace") /\ fetched' = room
     \/ /\ "database" \in Faults
        /\ Move(Service, "get_all", "sync") /\ UNCHANGED fetched
  /\ book' = [book EXCEPT ![Service] = AddressBook]
  /\ UNCHANGED <<list, table, ids, requests, arg, target, object, row, history>>

\* A new list with new objects, of the rows as they were when getAll read them.
Replace ==
  /\ Move(Service, "replace", "sync")
  /\ load' = load + 1
  /\ contacts' = [k \in DOMAIN fetched |-> fetched[k].id]
  /\ heap' = [o \in Ids \X Loads |->
                IF o[2] # load + 1 THEN heap[o]
                ELSE IF \E k \in DOMAIN fetched : fetched[k].id = o[1]
                     THEN fetched[CHOOSE k \in DOMAIN fetched : fetched[k].id = o[1]].contact
                     ELSE NoContact]
  /\ set' = [p \in People |-> NoRule]
  /\ fetched' = <<>>
  /\ stale' = stale \cup {r.id : r \in Range(room) \ Range(fetched)}
  /\ leftover' = (leftover \/ json)
  /\ UNCHANGED <<table, ids, requests, local, durable>>

-----------------------------------------------------------------------------
(* What handlers are asked for *)

Ask(t) ==
  /\ t \in Handlers
  /\ requests < MaxRequests /\ requests' = requests + 1

\* findOrCreateByPhone of somebody new.
Meet(t, p) ==
  /\ Ask(t) /\ Found(p) = NoObject
  /\ Move(t, "idle", "add")
  /\ arg' = [arg EXCEPT ![t] = p]
  /\ UNCHANGED <<list, table, ids, target, object, row, book, fetched, history>>

\* "Never reply to x", if somebody is found, and "always reply to x".
FindForRule(t, x, r) ==
  /\ Ask(t) /\ (r = "NEVER" => Found(x) # NoObject)
  /\ Move(t, "idle", "find")
  /\ arg' = [arg EXCEPT ![t] = r]
  /\ target' = [target EXCEPT ![t] = x]
  /\ UNCHANGED <<list, table, ids, object, row, book, fetched, history>>

\* syncAndroidContacts
StartSync(t) ==
  /\ Ask(t)
  /\ Move(t, "idle", "sync")
  /\ book' = [book EXCEPT ![t] = AddressBook]
  /\ UNCHANGED <<list, table, ids, arg, target, object, row, fetched, history>>

-----------------------------------------------------------------------------
(* Their steps *)

Finish(t) == IF book[t] = <<>> THEN "idle" ELSE "sync"

\* Mutant: a name from the address book comes with the default rule.
SyncNextResets(t) ==
  LET p == Head(book[t])
      o == Found(p) IN
  /\ pc[t] = "sync" /\ book[t] # <<>>
  /\ book' = [book EXCEPT ![t] = Tail(@)]
  /\ IF o = NoObject
     THEN /\ Move(t, "sync", "add_named") /\ arg' = [arg EXCEPT ![t] = p]
          /\ UNCHANGED <<object, heap>>
     ELSE /\ Move(t, "sync", "snapshot")
          /\ heap' = [heap EXCEPT ![o] = [@ EXCEPT !.named = TRUE, !.rule = "AUTO"]]
          /\ object' = [object EXCEPT ![t] = o]
          /\ UNCHANGED arg
  /\ UNCHANGED <<contacts, load, table, ids, requests, target, row, fetched, history>>

\* The next entry of the address book: somebody new, a name to add, or neither.
SyncNext(t) ==
  LET p == Head(book[t])
      o == Found(p) IN
  /\ pc[t] = "sync" /\ book[t] # <<>>
  /\ book' = [book EXCEPT ![t] = Tail(@)]
  /\ \/ /\ o = NoObject
        /\ Move(t, "sync", "add_named")
        /\ arg' = [arg EXCEPT ![t] = p]
        /\ UNCHANGED <<object, heap>>
     \/ /\ o # NoObject /\ ~heap[o].named
        /\ Move(t, "sync", "snapshot")
        /\ heap' = [heap EXCEPT ![o].named = TRUE]
        /\ object' = [object EXCEPT ![t] = o]
        /\ UNCHANGED arg
     \/ /\ o # NoObject /\ heap[o].named
        /\ UNCHANGED <<pc, arg, object, heap>>
  /\ UNCHANGED <<contacts, load, table, ids, requests, target, row, fetched, history>>

\* The end of the address book.
SyncDone(t) ==
  /\ book[t] = <<>> /\ Move(t, "sync", "idle")
  /\ UNCHANGED <<list, table, ids, requests, local, fetched, history>>

\* contacts.add: to the list as it is by now.  The id is the time, which may still
\* be what it was when the last contact of this kind was made.  (A sync appends the
\* count of those it added, so that only two syncs can meet; the model lets one.)
Add(t) ==
  LET m == pc[t]
      o == <<nextId, load>> IN
  /\ nextId <= MaxIds
  /\ m \in Makers /\ pc' = [pc EXCEPT ![t] = "snapshot"]
  /\ nextId' = nextId + 1
  /\ latest' = [latest EXCEPT ![m] = nextId]
  /\ \/ UNCHANGED key
     \/ latest[m] # 0 /\ key' = [key EXCEPT ![nextId] = key[latest[m]]]
  /\ contacts' = Append(contacts, nextId)
  /\ heap' = [heap EXCEPT ![o] = [who |-> arg[t], rule |-> "AUTO",
                                  named |-> (m = "add_named")]]
  /\ object' = [object EXCEPT ![t] = o]
  /\ arg' = [arg EXCEPT ![t] = NoRule]
  /\ UNCHANGED <<load, table, requests, target, row, book, fetched, history>>

\* setInstructions looks the contact up once more.
FindAgain(t) ==
  LET o == Found(target[t]) IN
  /\ Move(t, "find", IF o = NoObject THEN "idle" ELSE "set")
  /\ object' = [object EXCEPT ![t] = o]
  /\ arg' = [arg EXCEPT ![t] = IF o = NoObject THEN NoRule ELSE @]
  /\ target' = [target EXCEPT ![t] = NoRule]
  /\ UNCHANGED <<list, table, ids, requests, row, book, fetched, history>>

\* contact.replyBehavior = it
Write(o, r) ==
  /\ heap' = [heap EXCEPT ![o].rule = r]
  /\ set' = [p \in People |-> IF Found(p) = o THEN r ELSE set[p]]

\* Mutant: the rule is set in memory only.
SetRuleUnsaved(t) ==
  /\ Move(t, "set", "idle")
  /\ Write(object[t], arg[t])
  /\ arg' = [arg EXCEPT ![t] = NoRule]
  /\ object' = [object EXCEPT ![t] = NoObject]
  /\ UNCHANGED <<contacts, load, table, ids, requests, target, row, book, fetched, durable,
                 stale, leftover>>

SetRule(t) ==
  /\ Move(t, "set", "snapshot")
  /\ Write(object[t], arg[t])
  /\ UNCHANGED <<contacts, load, table, ids, requests, local, fetched, durable, stale,
                 leftover>>

\* contact.toEntity(), when there is a dao.
Snapshot(t) ==
  LET o == object[t] IN
  /\ IF dao
     THEN /\ Move(t, "snapshot", "insert")
          /\ row' = [row EXCEPT ![t] = heap[o]]
          /\ UNCHANGED <<object, arg, stale>>
     ELSE /\ Move(t, "snapshot", Finish(t))
          /\ stale' = stale \cup {o[1]}
          /\ object' = [object EXCEPT ![t] = NoObject]
          /\ arg' = [arg EXCEPT ![t] = NoRule]
          /\ UNCHANGED row
  /\ UNCHANGED <<list, table, ids, requests, target, book, fetched, set, durable, leftover>>

\* dao.insert, which may fail.
Insert(t) ==
  LET i == object[t][1]
      upToDate == i \in Range(contacts) /\ heap[<<i, load>>] = row[t] IN
  /\ Move(t, "insert", Finish(t))
  /\ \/ /\ room' = Upsert(room, key[i], row[t])
        /\ stale' = IF upToDate THEN stale \ {i} ELSE stale \cup {i}
        /\ durable' = [durable EXCEPT ![i] = IF upToDate THEN row[t].rule ELSE @]
     \/ /\ "database" \in Faults
        /\ stale' = stale \cup {i}
        /\ UNCHANGED <<room, durable>>
  /\ row' = [row EXCEPT ![t] = NoContact]
  /\ object' = [object EXCEPT ![t] = NoObject]
  /\ arg' = [arg EXCEPT ![t] = NoRule]
  /\ UNCHANGED <<list, dao, json, ids, requests, target, book, fetched, set, leftover>>

-----------------------------------------------------------------------------
\* The process is killed: the table and the file stay.
Crash ==
  /\ "crash" \in Faults
  /\ contacts' = <<>> /\ load' = 0
  /\ heap' = [o \in Ids \X Loads |-> NoContact]
  /\ dao' = FALSE
  /\ latest' = [m \in Makers |-> 0]
  /\ pc' = AtRest
  /\ arg' = [t \in Threads |-> NoRule]
  /\ target' = [t \in Threads |-> NoRule]
  /\ object' = [t \in Threads |-> NoObject]
  /\ row' = [t \in Threads |-> NoContact]
  /\ book' = [t \in Threads |-> <<>>]
  /\ fetched' = <<>>
  /\ set' = [p \in People |-> NoRule]
  /\ UNCHANGED <<room, json, nextId, key, requests, durable, stale, leftover>>

InitStep == StartInit \/ Migrate \/ Rename \/ GetAll \/ Replace

Request(t) ==
  \/ \E p \in People : Meet(t, p)
  \/ \E x \in People \cup Names, r \in {"NEVER", "ALWAYS"} : FindForRule(t, x, r)
  \/ StartSync(t)

Step(t) ==
  \/ SyncNext(t) \/ SyncDone(t) \/ Add(t) \/ FindAgain(t) \/ SetRule(t)
  \/ Snapshot(t) \/ Insert(t)

Next ==
  \/ InitStep \/ Crash
  \/ \E t \in Handlers : Request(t)
  \/ \E t \in Threads : Step(t)

Spec == Init /\ [][Next]_vars

-----------------------------------------------------------------------------
(* Properties *)

\* "Will never reply to ...": once a rule is in the contact that a person's number
\* finds, a message of that person finds the contact and the rule, whatever handlers
\* and syncs do at the same time, the twins of the contact they create and name
\* included, until another rule is set or the contacts are loaded again.
RuleIsFound ==
  \A p \in People : set[p] # NoRule => heap[Found(p)].rule = set[p]

\* Another contact has the same id.
Shared(i) == \E j \in Ids : j # i /\ key[j] = key[i]

\* When nobody is at work on a contact, its row is what the object in the list
\* holds, so the next start of the process knows what this one knows.  Exempt are
\* the contacts that share an id, and, until their next insert, those the database
\* failed, was not there yet or had changed behind the load, and those two writers
\* crossed at.
RoomMatchesList ==
  \A i \in Range(contacts) \ stale :
    ~Shared(i) /\ (\A t \in Threads : object[t][1] # i) =>
      RowOf(i) = {[id |-> i, contact |-> heap[<<i, load>>]]}

\* A rule that reached the table stays there over kills at any moment, loads,
\* syncs and the migration of the legacy file, repeated when a kill or a failure
\* comes between.  Exempt are contacts that share an id or are not up to date, among
\* them the legacy contact once it is migrated again after it was loaded.
RulesAreDurable ==
  \A i \in Ids : durable[i] # NoRule /\ i \notin stale /\ ~Shared(i) =>
    \E r \in RowOf(i) : r.contact.rule = durable[i]
=============================================================================
