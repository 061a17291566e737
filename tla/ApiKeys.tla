------------------------------- MODULE ApiKeys -------------------------------
(***************************************************************************)
(* The gateway's API keys: the registry in memory                          *)
(* (security/api-keys.ts), the handlers that change it (routes/admin.ts),  *)
(* the usage counters that save it in passing and the boot that loads or   *)
(* seeds it (main.ts), and its two stores: a JSON file                     *)
(* (FileApiKeyStore of storage/index.ts) and a table                       *)
(* (PostgresApiKeyStore of storage/postgres.ts).                           *)
(*                                                                         *)
(* A save is handed the list of records at the moment of the call, but it  *)
(* reads their fields when it gets to write them: the records are shared   *)
(* with the registry.  Nothing orders two saves.  The file store writes    *)
(* every save to one temporary name, so saves under way share that file;   *)
(* the table store deletes and inserts all rows in one transaction of      *)
(* READ COMMITTED.                                                         *)
(*                                                                         *)
(* A definition marked "slip" is no part of the model: it is a mistake     *)
(* that could be made in the definition it stands before.                  *)
(***************************************************************************)
EXTENDS Naturals, FiniteSets

CONSTANTS
    MaxKeys,      \* bound: keys ever issued
    Backends,     \* the stores to consider, "file" and "postgres"
    Limits,       \* bound: how many saves are under way at once, per deployment
    MaxSaves,     \* bound: saves
    MaxFaults,    \* bound: failing saves and failing loads
    MaxRestarts   \* bound: crashes of the process

ASSUME BoundsAreNumbers == MaxKeys \in Nat /\ MaxSaves \in Nat
ASSUME BackendsAreKnown == Backends \subseteq {"file", "postgres"}
ASSUME LimitsAreNumbers == Limits \subseteq Nat

VARIABLES
    backend,   \* which store this deployment has
    limit,     \* how many saves this deployment ever has under way at once
    phase,     \* "down", "seeding" while the first key is saved, or "up"
    records,   \* the registry: keys that verify() accepts
    admin,     \* the flag of every record object
    issued,    \* keys issued so far
    saves,     \* the saves under way
    saved,     \* saves begun so far
    files,     \* what is in each file, by the save that created it
    temp,      \* the file under the temporary name, 0 for none
    path,      \* the file under the registry's name, 0 for none
    rows,      \* the committed rows of the table
    told,      \* what the operators were last told of each key
    blind,     \* whether a boot ever failed to read the registry
    faults,
    restarts

registry == <<records, admin, issued>>
store == <<files, temp, path, rows>>
vars == <<backend, limit, phase, records, admin, issued, saves, saved, files,
          temp, path, rows, told, blind, faults, restarts>>

-----------------------------------------------------------------------------
(* Types *)

\* a key, its id and its plaintext, is named by the order of issue
Keys == 1 .. MaxKeys

\* a registry as it is stored: each key with its admin flag
Stored == UNION {[S -> BOOLEAN] : S \in SUBSET Keys}
NoKeys == [k \in {} |-> FALSE]

\* a file: truncated, a whole list, or two lists written over each other
Content == [state : {"empty", "whole", "mixed"}, keys : Stored]
Truncated == [state |-> "empty", keys |-> NoKeys]
Mixed == [state |-> "mixed", keys |-> NoKeys]
Whole(keys) == [state |-> "whole", keys |-> keys]

\* a row, the transaction that inserted it, and (ghost) the list that was saved
Row == [key : Keys, admin : BOOLEAN, by : 1 .. MaxSaves, of : SUBSET Keys]

Save == [id    : 1 .. MaxSaves,
         by    : {"operator", "usage", "boot"},
         key   : 0 .. MaxKeys,   \* the key its operator changed, 0 for none
         keys  : SUBSET Keys,    \* the list it was handed
         at    : {"begun", "opened", "written", "deleting", "deleted", "inserted"},
         data  : Stored,         \* what it read of the records
         file  : 0 .. MaxSaves,  \* the file it has open
         hold  : SUBSET Row]     \* the rows it deletes, and so has locked

Status == {"unsure", "gone", "user", "admin"}

-----------------------------------------------------------------------------
(* What the store has *)

\* load() of the file: a corrupt registry reads as an empty one
FileKeys == IF path # 0 /\ files[path].state = "whole" THEN files[path].keys ELSE NoKeys
\* load() of the table
TableKeys ==
    [k \in {r.key : r \in rows} |-> \E r \in rows : r.key = k /\ r.admin]

Loadable == IF backend = "file" THEN FileKeys ELSE TableKeys

StatusIn(keys, k) ==
    IF k \notin DOMAIN keys THEN "gone" ELSE IF keys[k] THEN "admin" ELSE "user"

\* what verify() makes of a key
Verified(k) == StatusIn([j \in records |-> admin[j]], k)

-----------------------------------------------------------------------------
(* Saves begin and end *)

MayBegin == saved < MaxSaves /\ Cardinality(saves) < limit

\* slip: the list is taken before the change
ListedBefore == records
\* list(), at the moment of the call
Listed == records'

Begun(who, k) ==
    /\ MayBegin
    /\ saved' = saved + 1
    /\ saves' = saves \cup {[id |-> saved + 1, by |-> who, key |-> k, keys |-> Listed,
                             at |-> "begun", data |-> NoKeys, file |-> 0, hold |-> {}]}

\* The promise of a save settles.  An operator hears of the key's state, which
\* tells it nothing while another request is changing the same key; the boot
\* prints the key it made; nobody awaits the save of the usage counters.
Answer(s) ==
    LET heard == IF s.by = "operator" THEN {s.key} ELSE IF s.by = "boot" THEN s.keys ELSE {}
        clear == heard \ {t.key : t \in saves \ {s}}
    IN  told' = [k \in Keys |-> IF k \in clear THEN Verified(k) ELSE told[k]]

Ended(s) ==
    /\ saves' = saves \ {s}
    /\ phase' = "up"
    /\ UNCHANGED <<backend, limit, registry, saved, blind, restarts>>

Resolved(s) == Ended(s) /\ Answer(s) /\ UNCHANGED faults

\* A save that fails is a 500 for its operator and a logged error at boot; the
\* registry in memory keeps the change.
Rejected(s) == Ended(s) /\ UNCHANGED <<store, told>>

\* the save takes its next step
Moved(s, t) ==
    /\ saves' = (saves \ {s}) \cup {t}
    /\ UNCHANGED <<backend, limit, phase, registry, saved, told, blind, faults, restarts>>

\* the fields of the listed records, as they are now
Fields(s) == [k \in s.keys |-> admin[k]]

-----------------------------------------------------------------------------
(* FileApiKeyStore.save *)

\* slip: the registry is written in place
InPlace(s) == IF path # 0 THEN path ELSE s.id
\* the file that opening the temporary name gives: the one that is there, or a new one
Opens(s) == IF temp # 0 THEN temp ELSE s.id

\* writeFile: the list is serialised and the temporary name opened and truncated
OpenTemp(s) ==
    /\ backend = "file" /\ s.at = "begun"
    /\ Moved(s, [s EXCEPT !.at = "opened", !.data = Fields(s), !.file = Opens(s)])
    /\ temp' = Opens(s)
    /\ files' = [files EXCEPT ![Opens(s)] = Truncated]
    /\ UNCHANGED <<path, rows>>

\* Over what another save wrote in the meantime, the end of a longer list stays.
Overwritten(content, data) ==
    IF content.state = "empty" THEN {Whole(data)} ELSE {Whole(data), Mixed}

WriteTemp(s) ==
    /\ s.at = "opened"
    /\ Moved(s, [s EXCEPT !.at = "written"])
    /\ \E content \in Overwritten(files[s.file], s.data) :
          files' = [files EXCEPT ![s.file] = content]
    /\ UNCHANGED <<temp, path, rows>>

\* the file that was replaced is gone unless another save has it open
Unlinked(s, old) ==
    IF old \in {0, temp} \/ \E t \in saves \ {s} : t.file = old
    THEN files
    ELSE [files EXCEPT ![old] = Truncated]

RenameTemp(s) ==
    /\ s.at = "written"
    /\ temp # 0
    /\ path' = temp
    /\ temp' = 0
    /\ files' = Unlinked(s, path)
    /\ Resolved(s)
    /\ UNCHANGED rows

\* another save has renamed the file away
NothingToRename(s) ==
    /\ s.at = "written"
    /\ temp = 0
    /\ Rejected(s)
    /\ UNCHANGED faults

-----------------------------------------------------------------------------
(* PostgresApiKeyStore.save *)

Others(s) == saves \ {s}

\* slip: a transaction that waits for rows keeps those it has seen
Claiming(s) == {t \in Others(s) : t.at \in {"deleting", "deleted", "inserted"}}
\* transactions that have rows locked until they end
Locking(s) == {t \in Others(s) : t.at \in {"deleted", "inserted"}}

\* DELETE FROM api_keys, as of now
IssueDelete(s) ==
    /\ backend = "postgres" /\ s.at = "begun"
    /\ Moved(s, [s EXCEPT !.at = "deleting", !.hold = rows])
    /\ UNCHANGED store

\* Rows that another transaction has locked are waited for; those it has deleted
\* by then are passed over, and those it has inserted are not seen.
Delete(s) ==
    /\ s.at = "deleting"
    /\ \A t \in Locking(s) : t.hold \cap s.hold = {}
    /\ Moved(s, [s EXCEPT !.at = "deleted", !.hold = s.hold \cap rows])
    /\ UNCHANGED store

\* slip: ON CONFLICT DO UPDATE
NoClash(s) == {}
\* committed rows that an INSERT of the list runs into
Clash(s) == {r \in rows \ s.hold : r.key \in s.keys}

\* a row with one of these keys may yet come or go
Undecided(s) ==
    \E t \in Locking(s) :
        \/ t.at = "inserted" /\ t.keys \cap s.keys # {}
        \/ t.hold \cap Clash(s) # {}

\* INSERT, left out for an empty list
Insert(s) ==
    /\ s.at = "deleted"
    /\ ~Undecided(s)
    /\ Clash(s) = {}
    /\ Moved(s, [s EXCEPT !.at = "inserted", !.data = Fields(s)])
    /\ UNCHANGED store

\* the primary key is violated and the transaction rolled back
InsertFails(s) ==
    /\ s.at = "deleted"
    /\ ~Undecided(s)
    /\ Clash(s) # {}
    /\ Rejected(s)
    /\ UNCHANGED faults

Inserted(s) ==
    {[key |-> k, admin |-> s.data[k], by |-> s.id, of |-> s.keys] : k \in s.keys}

Commit(s) ==
    /\ s.at = "inserted"
    /\ rows' = (rows \ s.hold) \cup Inserted(s)
    /\ Resolved(s)
    /\ UNCHANGED <<files, temp, path>>

\* a call to the file system or to the database fails
CallFails(s) ==
    /\ faults < MaxFaults
    /\ faults' = faults + 1
    /\ Rejected(s)

SaveStep(s) ==
    \/ OpenTemp(s) \/ WriteTemp(s) \/ RenameTemp(s) \/ NothingToRename(s)
    \/ IssueDelete(s) \/ Delete(s) \/ Insert(s) \/ InsertFails(s) \/ Commit(s)

-----------------------------------------------------------------------------
(* The boot *)

Init ==
    /\ backend \in Backends
    /\ limit \in Limits
    /\ phase = "down"
    /\ records = {}
    /\ admin = [k \in Keys |-> FALSE]
    /\ issued = 0
    /\ saves = {}
    /\ saved = 0
    /\ files = [n \in 0 .. MaxSaves |-> Truncated]
    /\ temp = 0
    /\ path = 0
    /\ rows = {}
    /\ told = [k \in Keys |-> "unsure"]
    /\ blind = FALSE
    /\ faults = 0
    /\ restarts = 0

\* the stored registry is not empty: restore()
BootLoads ==
    /\ phase = "down"
    /\ Loadable # NoKeys
    /\ records' = DOMAIN Loadable
    /\ admin' = [k \in Keys |-> k \in DOMAIN Loadable /\ Loadable[k]]
    /\ phase' = "up"
    /\ UNCHANGED <<backend, limit, issued, saves, saved, store, told, blind, faults, restarts>>

\* it is empty: a default admin key is made, and saved before the gateway listens
BootSeeds ==
    /\ phase = "down"
    /\ Loadable = NoKeys
    /\ issued < MaxKeys
    /\ issued' = issued + 1
    /\ records' = {issued + 1}
    /\ admin' = [admin EXCEPT ![issued + 1] = TRUE]
    /\ phase' = "seeding"
    /\ Begun("boot", 0)
    /\ UNCHANGED <<backend, limit, store, told, blind, faults, restarts>>

\* it cannot be read: "continuing with the bootstrap key only"
BootBlind ==
    /\ phase = "down"
    /\ faults < MaxFaults
    /\ faults' = faults + 1
    /\ blind' = TRUE
    /\ phase' = "up"
    /\ UNCHANGED <<backend, limit, registry, saves, saved, store, told, restarts>>

\* The process dies; the server rolls back what it had not committed.
Restart ==
    /\ phase # "down"
    /\ restarts < MaxRestarts
    /\ restarts' = restarts + 1
    /\ phase' = "down"
    /\ records' = {}
    /\ admin' = [k \in Keys |-> FALSE]
    /\ saves' = {}
    /\ UNCHANGED <<backend, limit, issued, saved, store, told, blind, faults>>

-----------------------------------------------------------------------------
(* The operators, and the usage counters *)

\* A handler has changed the registry and awaits persistKeys().
Asked(k) ==
    /\ told' = [told EXCEPT ![k] = "unsure"]
    /\ Begun("operator", k)
    /\ UNCHANGED <<backend, limit, phase, store, blind, faults, restarts>>

Create(isAdmin) ==
    /\ issued < MaxKeys
    /\ issued' = issued + 1
    /\ records' = records \cup {issued + 1}
    /\ admin' = [admin EXCEPT ![issued + 1] = isAdmin]
    /\ Asked(issued + 1)

\* DELETE /admin/api/keys/:id; an unknown id is a 404
Revoke(k) ==
    /\ k \in records
    /\ records' = records \ {k}
    /\ UNCHANGED <<admin, issued>>
    /\ Asked(k)

\* PATCH /admin/api/keys/:id
Update(k, isAdmin) ==
    /\ k \in records
    /\ admin' = [admin EXCEPT ![k] = isAdmin]
    /\ UNCHANGED <<records, issued>>
    /\ Asked(k)

Request ==
    /\ phase = "up"
    /\ \/ \E isAdmin \in BOOLEAN : Create(isAdmin) \/ \E k \in Keys : Update(k, isAdmin)
       \/ \E k \in Keys : Revoke(k)

\* a key was used, and the counters were last saved over 30 seconds ago
KeyUsed ==
    /\ phase = "up"
    /\ UNCHANGED <<registry, store>>
    /\ Begun("usage", 0)
    /\ UNCHANGED <<backend, limit, phase, told, blind, faults, restarts>>

Next ==
    \/ BootLoads
    \/ BootSeeds
    \/ BootBlind
    \/ Restart
    \/ Request
    \/ KeyUsed
    \/ \E s \in saves : SaveStep(s) \/ CallFails(s)

Spec == Init /\ [][Next]_vars

\* A call to the file system or the database returns, and the server grants a
\* lock that is free.
Fairness == \A n \in 1 .. MaxSaves : WF_vars(\E s \in saves : s.id = n /\ SaveStep(s))

FairSpec == Spec /\ Fairness

-----------------------------------------------------------------------------
(* Properties *)

\* The types, and the primary key of the table; while the gateway is down nothing
\* is under way.
TypeOK ==
    /\ backend \in Backends
    /\ limit \in Limits
    /\ phase \in {"down", "seeding", "up"}
    /\ records \subseteq 1 .. issued
    /\ admin \in [Keys -> BOOLEAN]
    /\ issued \in 0 .. MaxKeys
    /\ saves \subseteq Save
    /\ saved \in 0 .. MaxSaves
    /\ files \in [0 .. MaxSaves -> Content]
    /\ temp \in 0 .. MaxSaves
    /\ path \in 0 .. MaxSaves
    /\ rows \subseteq Row
    /\ \A r, q \in rows : r.key = q.key => r = q
    /\ told \in [Keys -> Status]
    /\ blind \in BOOLEAN
    /\ phase = "down" => saves = {} /\ records = {}
    /\ Cardinality(saves) <= limit

\* what the running gateway, if it runs, and the next one make of a key
Honoured(k, wanted) ==
    /\ StatusIn(Loadable, k) \in wanted
    /\ phase # "down" => Verified(k) \in wanted

\* A key whose revocation was answered is refused from then on, and one that lost
\* its admin flag stays without, through failing saves of others, crashes between
\* the calls of a save, and boots that could not read the registry: the README
\* promises "immediate" revocation and main.ts that panel changes "persist
\* immediately".  Saves must not overlap for this.
RevocationsHold ==
    \A k \in Keys :
        /\ limit = 1 /\ told[k] = "gone" => Honoured(k, {"gone"})
        /\ limit = 1 /\ told[k] = "user" => Honoured(k, {"gone", "user"})

\* A key that was issued, and not changed since, keeps working with its rights
\* after every restart that can read the registry: "a key that disappears on
\* redeploy is worse than one that never existed" (storage/types.ts:41).
IssuedKeysWork ==
    \A k \in Keys :
        limit = 1 /\ ~blind /\ told[k] \in {"user", "admin"} => Honoured(k, {told[k]})

\* However many saves overlap, the table never has a part of a list, and two lists
\* only if they have no key in common: of two with a common key the one that comes
\* second violates the primary key and is rolled back.  A failure "cannot leave a
\* half-applied key set behind" (storage/postgres.ts:286).
NeverHalfApplied ==
    \A r \in rows :
        /\ {q.key : q \in {q \in rows : q.by = r.by}} = r.of
        /\ \A q \in rows : q.by # r.by => q.of \cap r.of = {}

\* Saves that overlap never wait for each other in a circle, and none keeps what
\* the others need: every operator is answered, or the process dies.
RequestsAreAnswered ==
    \A n \in 1 .. MaxSaves :
        (\E s \in saves : s.id = n) ~> ~ \E s \in saves : s.id = n

\* What operators were told of a key survives restarts, whatever overlaps.
AnswersHold ==
    \A k \in Keys :
        ~blind /\ told[k] # "unsure" => Honoured(k, {told[k]})

\* The registry's file can be read: "written atomically through a temp file and
\* rename so a crash mid-write cannot truncate the registry"
\* (storage/index.ts:85).
RegistryReadable == phase = "down" /\ path # 0 => files[path].state = "whole"

=============================================================================
