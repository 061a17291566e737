--------------------------- MODULE CredentialPool ---------------------------
(***************************************************************************)
(* The pool of upstream accounts (workbuddy/credential-pool.ts): which     *)
(* account serves the next request, when an expiring or rejected           *)
(* credential is refreshed, how failures put an account on cooldown, and   *)
(* how every change reaches the account store.                             *)
(*                                                                         *)
(* Granularity.  Node runs one callback at a time and drains its           *)
(* microtasks before the next one, so a step of this module is one drained *)
(* callback.  Other code runs only where the pool waits for I/O: for the   *)
(* refresher's answer, and for a save of a store of its own.               *)
(*                                                                         *)
(* Wiring.  "memory": the pool is wired to no store.  "sink": as main.ts   *)
(* wires it, the event sink hands every event's snapshot to the account    *)
(* store and nobody waits for the save.  "store": the pool was given its   *)
(* own CredentialStore and add, remove, setStrategy and a refresh wait for *)
(* their save and undo themselves if it fails.                             *)
(*                                                                         *)
(* Object identity.  The code asks whether a state object is still in      *)
(* `states` and whether a credential is still the one it started from.     *)
(* restore() is the only operation that rebuilds state objects and labels  *)
(* are never reused between two restores, so <<epoch, label>> names a      *)
(* state object; a refreshable credential is never added twice, so its id  *)
(* names the object as well as the token.                                  *)
(*                                                                         *)
(* A definition marked "slip" is no part of the model: it is a mistake     *)
(* that could be made in the definition it stands before, and PROJECT.json *)
(* names the property that must catch it.                                  *)
(***************************************************************************)
EXTENDS Naturals, Sequences, FiniteSets

CONSTANTS
    Users,          \* upstream identities (domain + userId)
    Callers,        \* requests that ask the pool for a credential
    Operators,      \* admin requests and logins that change the pool
    Wiring,         \* "memory", "sink" or "store"
    InOrder,        \* TRUE: saves are applied in order (file), FALSE: Postgres
    WholeApi,       \* TRUE: also the two operations no module of src/ calls
    BaseCooldown,   \* cooldownMs, in ticks of the clock
    MaxCooldown,    \* the 30 minute cap, in ticks
    MaxCreds,       \* bound: credentials ever issued
    MaxFailures,    \* bound: failures counted on one account
    MaxWrites,      \* bound: saves waiting at the account store
    MaxFaults,      \* bound: saves that fail
    MaxEpochs,      \* bound: rollbacks that rebuild the state objects
    MaxRestarts     \* bound: crashes of the process

ASSUME WiringIsKnown ==
    /\ Wiring \in {"memory", "sink", "store"}
    /\ InOrder \in BOOLEAN
    /\ WholeApi \in BOOLEAN

ASSUME CooldownsArePositive ==
    /\ BaseCooldown \in Nat \ {0}
    /\ MaxCooldown \in Nat \ {0}

VARIABLES
    states,     \* the accounts in order, with their health
    cursor,     \* index (from 0) where the round robin starts looking
    nextLabel,  \* number of the next new account
    strategy,   \* how getCredential picks
    epoch,      \* generation of the state objects: one per restore()
    tasks,      \* refreshes in flight
    callers,    \* what each request holds or waits for
    ops,        \* operations waiting for a save (Wiring = "store")
    writes,     \* saves handed to the account store and not yet applied
    disk,       \* the last snapshot the account store applied
    expiring,   \* credentials within a minute of their expiry
    issued,     \* number of credentials issued so far
    faults,     \* failed saves so far
    restarts    \* crashes so far

vars == <<states, cursor, nextLabel, strategy, epoch, tasks, callers, ops,
          writes, disk, expiring, issued, faults, restarts>>

poolVars == <<states, cursor, nextLabel, strategy, epoch>>
storeVars == <<writes, disk, faults>>

-----------------------------------------------------------------------------
(* Types *)

Strategy == {"round-robin", "random"}

\* imported and pasted tokens carry neither an expiry nor a refresh token;
\* a web login has an expiry, and a refresh token only if upstream sent one
Kind == {"imported", "session", "renewable"}

Cred == [id : Nat, user : Users, kind : Kind]

Account == [label : Nat, cred : Cred, failures : Nat, cooldown : Nat,
            reauth : BOOLEAN, refreshing : BOOLEAN]

Snapshot == [strategy : Strategy, nextLabel : Nat,
             accounts : Seq([label : Nat, cred : Cred])]

Id == Nat \X Nat

\* a refresh: of which state object, started by whom, from which credential,
\* and the credential being saved once the refresher has answered
Task == [id : Id, by : Callers, before : Cred, fresh : Cred,
         phase : {"calling", "saving"}]

Idle == [st |-> "idle"]
Waiting(id) == [st |-> "waiting", id |-> id]
Holding(cred) == [st |-> "holding", cred |-> cred]
Caller == {Idle} \cup [st : {"waiting"}, id : Id]
                 \cup [st : {"holding"}, cred : Cred]

Op == [kind : {"idle", "roster", "strategy"}, before : Snapshot]

Owner == {<<"sink">>} \cup ({"op"} \X Operators) \cup ({"task"} \X Id)
Write == [snap : Snapshot, owner : Owner]

EmptySnapshot ==
    [strategy |-> "round-robin", nextLabel |-> 1, accounts |-> <<>>]
NoOp == [kind |-> "idle", before |-> EmptySnapshot]

-----------------------------------------------------------------------------
(* Helpers *)

Idx == DOMAIN states

StateId(i) == <<epoch, states[i].label>>

\* the state object of a task, if it is still in the pool: states.includes(state)
Located(t) == {i \in Idx : t.id = StateId(i)}

\* slip: no identity check after the await
EvenIfReplaced(t, i) == TRUE
\* state.account.credential === before
Unreplaced(t, i) == states[i].cred.id = t.before.id

\* slip: the answer's identity is not compared
AnyIdentity(a, b) == TRUE
\* the identity a refreshed credential must keep
SameIdentity(a, b) == a.user = b.user

Available(i) == ~states[i].reauth /\ states[i].cooldown = 0

\* snapshot(): what survives a restart, health does not
Roster(sts) == [i \in DOMAIN sts |-> [label |-> sts[i].label, cred |-> sts[i].cred]]
PoolSnapshot ==
    [strategy |-> strategy, nextLabel |-> nextLabel, accounts |-> Roster(states)]

Healthy(label, cred) ==
    [label |-> label, cred |-> cred, failures |-> 0, cooldown |-> 0,
     reauth |-> FALSE, refreshing |-> FALSE]

\* the state objects restore() builds
Restored(snap) ==
    [i \in DOMAIN snap.accounts |->
        Healthy(snap.accounts[i].label, snap.accounts[i].cred)]

\* splice(k, 1)
Without(s, k) == [i \in 1 .. (Len(s) - 1) |-> IF i < k THEN s[i] ELSE s[i + 1]]

\* min(cooldownMs * 2 ** min(failures - 1, 10), 30 min)
Doubling == <<1, 2, 4, 8, 16, 32, 64, 128, 256, 512, 1024>>
Cooldown(f) ==
    LET wanted == BaseCooldown * Doubling[IF f <= 10 THEN f ELSE 11]
    IN  IF wanted <= MaxCooldown THEN wanted ELSE MaxCooldown

Penalised(a) ==
    [a EXCEPT !.failures = @ + 1, !.cooldown = Cooldown(a.failures + 1)]

\* how many accounts the round robin looks at before it reaches the i-th
Ahead(i) == IF i > cursor THEN i - 1 - cursor ELSE i - 1 + Len(states) - cursor

\* a save of the pool as it is after the step
Saved(owner) ==
    /\ Len(writes) < MaxWrites
    /\ writes' = Append(writes, [snap |-> PoolSnapshot', owner |-> owner])

\* main.ts's event sink: every event of the pool saves it
EmitEvent ==
    IF Wiring = "sink" THEN Saved(<<"sink">>) ELSE UNCHANGED writes

-----------------------------------------------------------------------------
(* Initial state: constructor defaults and nothing stored yet              *)

Init ==
    /\ states = <<>>
    /\ strategy = "round-robin"
    /\ nextLabel = 1
    /\ disk = EmptySnapshot
    /\ cursor = 0
    /\ epoch = 0
    /\ tasks = {}
    /\ callers = [c \in Callers |-> Idle]
    /\ ops = [o \in Operators |-> NoOp]
    /\ writes = <<>>
    /\ expiring = {}
    /\ issued = 0
    /\ faults = 0
    /\ restarts = 0

-----------------------------------------------------------------------------
(* add, remove, setStrategy: the change happens before the first await, so *)
(* it is visible at once.  With a store of its own the operation then waits *)
(* for its save and remembers how to undo itself.                          *)

Persisted(o, kind) ==
    /\ ops[o].kind = "idle"
    /\ IF Wiring = "store"
       THEN /\ Saved(<<"op", o>>)
            /\ ops' = [ops EXCEPT ![o] = [kind |-> kind, before |-> PoolSnapshot]]
       ELSE EmitEvent /\ UNCHANGED ops

\* the credential an admin or a login brings: a new one, or the imported or
\* pasted token the account already has
NewCred(u, kind) == [id |-> issued + 1, user |-> u, kind |-> kind]

\* the identity is pooled already
Pooled(u) == \E i \in Idx : states[i].cred.user = u

NewAccount(u, kind) == Healthy(nextLabel, NewCred(u, kind))

AddNew(o, u, kind) ==
    /\ issued < MaxCreds
    /\ ~Pooled(u)
    /\ states' = Append(states, NewAccount(u, kind))
    /\ nextLabel' = nextLabel + 1
    /\ issued' = issued + 1
    /\ UNCHANGED <<cursor, strategy, epoch, tasks, callers, disk, expiring,
                   faults, restarts>>
    /\ Persisted(o, "roster")

\* slip: also drops the refresh promise
ReplacedWithPromise(a, cred) == Healthy(a.label, cred)
\* adding an identity that is already pooled replaces its credential in place
\* and clears its health; a refresh in flight keeps running
Replaced(a, cred) ==
    [a EXCEPT !.cred = cred, !.failures = 0, !.cooldown = 0, !.reauth = FALSE]

AddAgain(o, i, kind) ==
    /\ issued < MaxCreds
    /\ states' = [states EXCEPT ![i] =
                     Replaced(@, NewCred(states[i].cred.user, kind))]
    /\ issued' = issued + 1
    /\ UNCHANGED <<cursor, nextLabel, strategy, epoch, tasks, callers, disk,
                   expiring, faults, restarts>>
    /\ Persisted(o, "roster")

\* importing or pasting the token the account has already
AddSame(o, i) ==
    /\ states[i].cred.kind = "imported"
    /\ states' = [states EXCEPT ![i] = Replaced(@, @.cred)]
    /\ UNCHANGED <<cursor, nextLabel, strategy, epoch, tasks, callers, disk,
                   expiring, issued, faults, restarts>>
    /\ Persisted(o, "roster")

\* slip: the cursor is not moved
CursorKept(i) == IF cursor >= Len(states) - 1 THEN 0 ELSE cursor
\* slip: the cursor is not wrapped
CursorUnwrapped(i) == IF cursor > i - 1 THEN cursor - 1 ELSE cursor
\* the cursor after splice(i - 1, 1)
CursorAfterRemove(i) ==
    LET moved == IF cursor > i - 1 THEN cursor - 1 ELSE cursor
    IN  IF moved >= Len(states) - 1 THEN 0 ELSE moved

Remove(o, i) ==
    /\ states' = Without(states, i)
    /\ cursor' = CursorAfterRemove(i)
    /\ UNCHANGED <<nextLabel, strategy, epoch, tasks, callers, disk, expiring,
                   issued, faults, restarts>>
    /\ Persisted(o, "roster")

SetStrategy(o, s) ==
    /\ strategy' = s
    /\ UNCHANGED <<states, cursor, nextLabel, epoch, tasks, callers, disk,
                   expiring, issued, faults, restarts>>
    /\ Persisted(o, "strategy")

-----------------------------------------------------------------------------
(* getCredential and refreshRejectedCredential                             *)

\* refreshAccount up to its first await, on behalf of caller c
JoinRefresh(c, i) ==
    /\ callers' = [callers EXCEPT ![c] = Waiting(StateId(i))]
    /\ UNCHANGED <<states, tasks>>

CannotRefresh(c, i) ==
    /\ states[i].cred.kind # "renewable"
    /\ states' = [states EXCEPT ![i].reauth = TRUE]
    /\ callers' = [callers EXCEPT ![c] = Idle]
    /\ UNCHANGED tasks

StartRefresh(c, i) ==
    /\ states[i].cred.kind = "renewable"
    /\ states' = [states EXCEPT ![i].refreshing = TRUE]
    /\ tasks' = tasks \cup {[id |-> StateId(i), by |-> c,
                             before |-> states[i].cred,
                             fresh |-> states[i].cred, phase |-> "calling"]}
    /\ callers' = [callers EXCEPT ![c] = Waiting(StateId(i))]

\* slip: does not join a refresh in flight
RefreshAlone(c, i) == CannotRefresh(c, i) \/ StartRefresh(c, i)
RefreshAccount(c, i) ==
    IF states[i].refreshing THEN JoinRefresh(c, i)
    ELSE CannotRefresh(c, i) \/ StartRefresh(c, i)

HandOut(c, i) ==
    /\ callers' = [callers EXCEPT ![c] = Holding(states[i].cred)]
    /\ UNCHANGED <<states, tasks>>

Serve(c, i) ==
    IF states[i].cred.id \in expiring THEN RefreshAccount(c, i) ELSE HandOut(c, i)

\* slip: always looks from the start
FirstInList(i) == Available(i) /\ \A j \in Idx : Available(j) => i <= j
\* the first available account at or after the cursor, wrapping around
NextInTurn(i) ==
    Available(i) /\ \A j \in Idx : Available(j) => Ahead(i) <= Ahead(j)

GetRoundRobin(c, i) ==
    /\ callers[c] = Idle
    /\ strategy = "round-robin"
    /\ NextInTurn(i)
    /\ cursor' = IF i = Len(states) THEN 0 ELSE i
    /\ Serve(c, i)
    /\ UNCHANGED <<nextLabel, strategy, epoch, ops, storeVars, expiring,
                   issued, restarts>>

GetRandom(c, i) ==
    /\ callers[c] = Idle
    /\ strategy = "random"
    /\ Available(i)
    /\ Serve(c, i)
    /\ UNCHANGED <<cursor, nextLabel, strategy, epoch, ops, storeVars,
                   expiring, issued, restarts>>

\* the accounts that hold the token of a credential handed out earlier
Carrying(cred) == {i \in Idx : states[i].cred.id = cred.id}

\* upstream answered 401: refresh the same account, if it still has the token
RejectedByUpstream(c) ==
    /\ callers[c].st = "holding"
    /\ \/ \E i \in Carrying(callers[c].cred) : RefreshAccount(c, i)
       \/ /\ Carrying(callers[c].cred) = {}
          /\ callers' = [callers EXCEPT ![c] = Idle]
          /\ UNCHANGED <<states, tasks>>
    /\ UNCHANGED <<cursor, nextLabel, strategy, epoch, ops, storeVars,
                   expiring, issued, restarts>>

\* reportFailure(token); the request is over
ReportFailure(c) ==
    /\ callers[c].st = "holding"
    /\ callers' = [callers EXCEPT ![c] = Idle]
    /\ UNCHANGED <<cursor, nextLabel, strategy, epoch, tasks, ops, disk,
                   expiring, issued, faults, restarts>>
    /\ \/ \E i \in Carrying(callers[c].cred) :
              /\ states[i].failures < MaxFailures
              /\ states' = [states EXCEPT ![i] = Penalised(@)]
              /\ EmitEvent
       \/ /\ Carrying(callers[c].cred) = {}
          /\ UNCHANGED <<states, writes>>

\* the request ends well; the client does not tell the pool
Finish(c) ==
    /\ callers[c].st = "holding"
    /\ callers' = [callers EXCEPT ![c] = Idle]
    /\ UNCHANGED <<poolVars, tasks, ops, storeVars, expiring, issued, restarts>>

-----------------------------------------------------------------------------
(* The refresher answers: refreshAccount after its first await             *)

\* slip: only the starter is answered
SettleStarter(t, outcome) ==
    /\ tasks' = tasks \ {t}
    /\ callers' = [c \in Callers |->
                      IF callers[c] = Waiting(t.id) /\ c = t.by THEN outcome
                      ELSE callers[c]]
\* the promise of task t settles: every caller waiting for it gets `outcome`
Settle(t, outcome) ==
    /\ tasks' = tasks \ {t}
    /\ callers' = [c \in Callers |->
                      IF callers[c] = Waiting(t.id) THEN outcome ELSE callers[c]]

\* removed, or rebuilt by a rollback, meanwhile: any answer is an error
RefreshOrphaned(t) ==
    /\ t.phase = "calling"
    /\ Located(t) = {}
    /\ Settle(t, Idle)
    /\ UNCHANGED <<poolVars, ops, storeVars, expiring, issued, restarts>>

\* slip: hands out what the refresh started from
StaleOutcomes(t, i) == {Holding(t.before), Idle}
\* replaced by a newer login meanwhile: a success hands out the newer
\* credential, a failure touches nothing
OvertakenOutcomes(t, i) == {Holding(states[i].cred), Idle}

RefreshOvertaken(t) ==
    /\ t.phase = "calling"
    /\ \E i \in Located(t) :
          /\ ~Unreplaced(t, i)
          /\ states' = [states EXCEPT ![i].refreshing = FALSE]
          /\ \E outcome \in OvertakenOutcomes(t, i) : Settle(t, outcome)
    /\ UNCHANGED <<cursor, nextLabel, strategy, epoch, ops, storeVars,
                   expiring, issued, restarts>>

\* a credential of user u for an unreplaced account, kept if it is the same
\* identity.  A pool with a store of its own saves it before it answers.
RefreshSucceeded(t, u) ==
    /\ t.phase = "calling"
    /\ issued < MaxCreds
    /\ issued' = issued + 1
    /\ UNCHANGED <<cursor, nextLabel, strategy, epoch, ops, disk, faults,
                   expiring, restarts>>
    /\ LET fresh == NewCred(u, "renewable") IN
       /\ SameIdentity(fresh, t.before)
       /\ \E i \in Located(t) :
             /\ Unreplaced(t, i)
             /\ states' = [states EXCEPT ![i].cred = fresh,
                                         ![i].refreshing = (Wiring = "store")]
       /\ IF Wiring = "store"
          THEN /\ Saved(<<"task", t.id>>)
               /\ tasks' = (tasks \ {t}) \cup
                           {[t EXCEPT !.fresh = fresh, !.phase = "saving"]}
               /\ UNCHANGED callers
          ELSE Settle(t, Holding(fresh)) /\ UNCHANGED writes

\* 401, 403, or a credential of another identity: a new login is needed
RefreshRefused(t) ==
    /\ t.phase = "calling"
    /\ \E i \in Located(t) :
          /\ Unreplaced(t, i)
          /\ states' = [states EXCEPT ![i].reauth = TRUE, ![i].refreshing = FALSE]
    /\ Settle(t, Idle)
    /\ UNCHANGED <<cursor, nextLabel, strategy, epoch, ops, storeVars,
                   expiring, issued, restarts>>

\* any other error: an ordinary failure of the account
RefreshFailed(t) ==
    /\ t.phase = "calling"
    /\ \E i \in Located(t) :
          /\ Unreplaced(t, i)
          /\ states[i].failures < MaxFailures
          /\ states' = [states EXCEPT ![i] = [Penalised(@) EXCEPT !.refreshing = FALSE]]
    /\ Settle(t, Idle)
    /\ UNCHANGED <<cursor, nextLabel, strategy, epoch, ops, disk, faults,
                   expiring, issued, restarts>>
    /\ EmitEvent

-----------------------------------------------------------------------------
(* The account store applies or fails a save, and whoever awaits it goes on *)

\* slip: saves are not queued
AnyPending == DOMAIN writes
Due == IF InOrder THEN {1} \cap DOMAIN writes ELSE DOMAIN writes

SaveApplied(k, owner) ==
    /\ writes[k].owner = owner
    /\ writes' = Without(writes, k)
    /\ disk' = writes[k].snap
    /\ UNCHANGED faults

SaveFailed(k, owner) ==
    /\ writes[k].owner = owner
    /\ faults < MaxFaults
    /\ faults' = faults + 1
    /\ writes' = Without(writes, k)
    /\ UNCHANGED disk

\* a save of the event sink: nobody waits, a failure is only logged
SinkSaveEnds(k) ==
    /\ SaveApplied(k, <<"sink">>) \/ SaveFailed(k, <<"sink">>)
    /\ UNCHANGED <<poolVars, tasks, callers, ops, expiring, issued, restarts>>

OpSaved(k, o) ==
    /\ SaveApplied(k, <<"op", o>>)
    /\ ops' = [ops EXCEPT ![o] = NoOp]
    /\ UNCHANGED <<poolVars, tasks, callers, expiring, issued, restarts>>

\* add and remove undo themselves with restore(before): the whole pool goes
\* back to what it was when the operation started
RosterRollback(k, o) ==
    /\ ops[o].kind = "roster"
    /\ epoch < MaxEpochs
    /\ SaveFailed(k, <<"op", o>>)
    /\ LET before == ops[o].before IN
       /\ states' = Restored(before)
       /\ strategy' = before.strategy
       /\ nextLabel' = before.nextLabel
    /\ cursor' = 0
    /\ epoch' = epoch + 1
    /\ ops' = [ops EXCEPT ![o] = NoOp]
    /\ UNCHANGED <<tasks, callers, expiring, issued, restarts>>

StrategyRollback(k, o) ==
    /\ ops[o].kind = "strategy"
    /\ SaveFailed(k, <<"op", o>>)
    /\ strategy' = ops[o].before.strategy
    /\ ops' = [ops EXCEPT ![o] = NoOp]
    /\ UNCHANGED <<states, cursor, nextLabel, epoch, tasks, callers, expiring,
                   issued, restarts>>

\* the refresh returns the credential it saved, whatever happened meanwhile
RefreshSaved(k, t) ==
    /\ t.phase = "saving"
    /\ SaveApplied(k, <<"task", t.id>>)
    /\ states' = [i \in Idx |-> IF i \in Located(t)
                                THEN [states[i] EXCEPT !.refreshing = FALSE]
                                ELSE states[i]]
    /\ Settle(t, Holding(t.fresh))
    /\ UNCHANGED <<cursor, nextLabel, strategy, epoch, ops, expiring, issued,
                   restarts>>

\* the old credential comes back, unless the account was replaced or removed
\* meanwhile, and the account counts a failure
RefreshUnsaved(k, t) ==
    /\ t.phase = "saving"
    /\ SaveFailed(k, <<"task", t.id>>)
    /\ \A i \in Located(t) : states[i].failures < MaxFailures
    /\ states' = [i \in Idx |->
          IF i \notin Located(t) THEN states[i]
          ELSE IF states[i].cred.id = t.fresh.id
               THEN Penalised([states[i] EXCEPT !.cred = t.before,
                                                !.refreshing = FALSE])
               ELSE [states[i] EXCEPT !.refreshing = FALSE]]
    /\ Settle(t, Idle)
    /\ UNCHANGED <<cursor, nextLabel, strategy, epoch, ops, expiring, issued,
                   restarts>>

-----------------------------------------------------------------------------
(* Time, the operations nothing in src/ calls, and crashes                 *)

Tick ==
    /\ \E i \in Idx : states[i].cooldown > 0
    /\ states' = [i \in Idx |->
          [states[i] EXCEPT !.cooldown = IF @ > 0 THEN @ - 1 ELSE 0]]
    /\ UNCHANGED <<cursor, nextLabel, strategy, epoch, tasks, callers, ops,
                   storeVars, expiring, issued, restarts>>

\* a login comes within a minute of its expiry
NearsExpiry(i) ==
    /\ states[i].cred.kind # "imported"
    /\ states[i].cred.id \notin expiring
    /\ expiring' = expiring \cup {states[i].cred.id}
    /\ UNCHANGED <<poolVars, tasks, callers, ops, storeVars, issued, restarts>>

Recovered(a) == [a EXCEPT !.failures = 0, !.cooldown = 0]

ReportSuccess(c) ==
    /\ WholeApi
    /\ callers[c].st = "holding"
    /\ \E i \in Carrying(callers[c].cred) :
          /\ states[i].failures > 0
          /\ states' = [states EXCEPT ![i] = Recovered(@)]
    /\ callers' = [callers EXCEPT ![c] = Idle]
    /\ UNCHANGED <<cursor, nextLabel, strategy, epoch, tasks, ops, disk, faults,
                   expiring, issued, restarts>>
    /\ EmitEvent

MarkReauthRequired(i) ==
    /\ WholeApi
    /\ states' = [states EXCEPT ![i].reauth = TRUE]
    /\ UNCHANGED <<cursor, nextLabel, strategy, epoch, tasks, callers, ops, disk,
                   faults, expiring, issued, restarts>>
    /\ EmitEvent

\* the process dies and main.ts restores the stored accounts
Restart ==
    /\ restarts < MaxRestarts
    /\ restarts' = restarts + 1
    /\ UNCHANGED <<disk, expiring, issued, faults>>
    /\ states' = Restored(disk)
    /\ strategy' = disk.strategy
    /\ nextLabel' = disk.nextLabel
    /\ cursor' = 0
    /\ epoch' = 0
    /\ tasks' = {}
    /\ callers' = [c \in Callers |-> Idle]
    /\ ops' = [o \in Operators |-> NoOp]
    /\ writes' = <<>>

-----------------------------------------------------------------------------

Add(o) ==
    \/ \E u \in Users, kind \in Kind : AddNew(o, u, kind)
    \/ \E i \in Idx : AddSame(o, i) \/ \E kind \in Kind : AddAgain(o, i, kind)

Operate(o) ==
    \/ Add(o)
    \/ \E i \in Idx : Remove(o, i)
    \/ \E s \in Strategy : SetStrategy(o, s)

GetCredential(c) == \E i \in Idx : GetRoundRobin(c, i) \/ GetRandom(c, i)

Request(c) ==
    \/ GetCredential(c)
    \/ RejectedByUpstream(c)
    \/ ReportFailure(c)
    \/ Finish(c)
    \/ ReportSuccess(c)

RefreshAnswered(t) ==
    \/ RefreshOrphaned(t)
    \/ RefreshOvertaken(t)
    \/ \E u \in Users : RefreshSucceeded(t, u)
    \/ RefreshRefused(t)
    \/ RefreshFailed(t)

SaveEnds(k) ==
    \/ SinkSaveEnds(k)
    \/ \E o \in Operators :
          OpSaved(k, o) \/ RosterRollback(k, o) \/ StrategyRollback(k, o)
    \/ \E t \in tasks : RefreshSaved(k, t) \/ RefreshUnsaved(k, t)

Next ==
    \/ \E o \in Operators : Operate(o)
    \/ \E c \in Callers : Request(c)
    \/ \E t \in tasks : RefreshAnswered(t)
    \/ \E k \in Due : SaveEnds(k)
    \/ Tick
    \/ \E i \in Idx : NearsExpiry(i) \/ MarkReauthRequired(i)
    \/ Restart

Spec == Init /\ [][Next]_vars

(* The refresher bounds every request with AbortSignal.timeout, a save is  *)
(* finite I/O, and the clock advances.  Requests and operators are free.   *)
Answer(id) == \E t \in tasks : t.id = id /\ RefreshAnswered(t)
AnySave == \E k \in Due : SaveEnds(k)
Fairness ==
    /\ \A e \in 0 .. MaxEpochs, label \in 1 .. MaxCreds : WF_vars(Answer(<<e, label>>))
    /\ WF_vars(AnySave)
    /\ WF_vars(Tick)
FairSpec == Spec /\ Fairness

-----------------------------------------------------------------------------
(* Invariants *)

\* The types of the state, and a cursor that always points into the list.
TypeOK ==
    /\ states \in Seq(Account)
    /\ cursor \in Nat
    /\ cursor < Len(states) \/ cursor = 0
    /\ nextLabel \in Nat
    /\ strategy \in Strategy
    /\ epoch \in Nat
    /\ tasks \subseteq Task
    /\ callers \in [Callers -> Caller]
    /\ ops \in [Operators -> Op]
    /\ writes \in Seq(Write)
    /\ disk \in Snapshot
    /\ expiring \subseteq Nat
    /\ issued \in Nat
    /\ faults \in Nat
    /\ restarts \in Nat

\* no two accounts of a roster share a label or an identity, and the next
\* label is a new one
WellFormed(snap) ==
    /\ \A i \in DOMAIN snap.accounts : snap.accounts[i].label < snap.nextLabel
    /\ \A i, j \in DOMAIN snap.accounts :
          i # j => /\ snap.accounts[i].label # snap.accounts[j].label
                   /\ snap.accounts[i].cred.user # snap.accounts[j].cred.user

\* add() looks for the identity before it appends, but a refresh, a rollback
\* and a restart also write the list: none of them may ever leave two accounts
\* with one identity or one label, in memory, in a pending save or on disk.
DistinctAccounts ==
    /\ WellFormed(PoolSnapshot)
    /\ WellFormed(disk)
    /\ \A k \in DOMAIN writes : WellFormed(writes[k].snap)
    /\ \A o \in Operators : WellFormed(ops[o].before)

\* The `refresh` promise of a pooled account is set exactly while its refresh
\* runs (the finally at :330), and no request waits for a promise nobody will
\* settle.  A stuck promise would answer every later request with a stale
\* result.
RefreshOwned ==
    /\ \A i \in Idx :
          states[i].refreshing <=> \E t \in tasks : t.id = StateId(i)
    /\ \A c \in Callers :
          callers[c].st = "waiting" => \E t \in tasks : t.id = callers[c].id

\* One refresh token is in flight once, whichever state object it belongs to.
TokenInFlightOnce ==
    \A t1, t2 \in tasks :
        /\ t1.phase = "calling" /\ t2.phase = "calling"
        /\ t1.before.id = t2.before.id
        => t1 = t2

\* Nothing is pending at the account store.
Quiet == writes = <<>> /\ \A o \in Operators : ops[o] = NoOp

\* With a quiet store and no failed save, the stored roster is the pool's:
\* the same accounts in the same order, next label and strategy.
Members(snap) ==
    [strategy |-> snap.strategy, nextLabel |-> snap.nextLabel,
     accounts |-> [i \in DOMAIN snap.accounts |->
                      [label |-> snap.accounts[i].label,
                       user |-> snap.accounts[i].cred.user]]]
RosterStored ==
    Quiet /\ faults = 0 => Members(disk) = Members(PoolSnapshot)

\* The same including the credentials: what a restart restores is what the
\* pool was serving.
CredentialsStored == Quiet /\ faults = 0 => disk = PoolSnapshot

-----------------------------------------------------------------------------
(* Action properties *)

\* A refresh that ends changes no account but its own, and its own only if the
\* account still holds the credential the refresh started from (or the one it
\* installed itself, being saved): a late answer never overwrites a newer
\* login, blames it or asks it to sign in again.
LateRefreshIsHarmless ==
    [][\A t \in tasks : RefreshAnswered(t) \/ (\E k \in Due : RefreshSaved(k, t) \/ RefreshUnsaved(k, t)) =>
          /\ DOMAIN states' = Idx
          /\ \A i \in Idx :
                \/ states'[i] = states[i]
                \/ i \in Located(t) /\ states[i].cred.id \in {t.before.id, t.fresh.id}
                \/ i \in Located(t) /\ states'[i] = [states[i] EXCEPT !.refreshing = FALSE]]_vars

\* What a waiting request is given when a refresh ends is the credential the
\* account holds at that moment: never one of a removed account, and never one
\* that a newer login has replaced.
WaitersGetTheCurrentCredential ==
    [][\A c \in Callers :
          callers[c].st = "waiting" /\ callers'[c].st = "holding" =>
              \E i \in DOMAIN states' : states'[i].cred = callers'[c].cred]_vars

\* Round robin starves nobody: a pick brings every other available account
\* strictly closer to its turn.
PicksAdvanceTheTurn ==
    [][\A c \in Callers, i \in Idx : GetRoundRobin(c, i) =>
          \A j \in Idx \ {i} : Available(j) => Ahead(j)' < Ahead(j)]_vars

\* Removing an account costs no other account its turn: whoever was up next
\* still is, and if the removed one was up next its successor is.
RemoveKeepsTheTurn ==
    [][\A o \in Operators, i \in Idx : Remove(o, i) /\ Len(states) > 1 =>
          LET next == IF i = cursor + 1
                      THEN IF i = Len(states) THEN 1 ELSE i + 1
                      ELSE cursor + 1
          IN  states'[cursor' + 1] = states[next]]_vars

-----------------------------------------------------------------------------
(* Liveness *)

\* Every request that waits for a refresh gets an answer.
WaitersAreAnswered ==
    \A c \in Callers : callers[c].st = "waiting" ~> callers[c].st # "waiting"

=============================================================================
