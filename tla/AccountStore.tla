----------------------------- MODULE AccountStore -----------------------------
(***************************************************************************)
(* The account store on disk (CredentialStore in                           *)
(* workbuddy/credential-store.ts, behind FILE_ACCOUNTS of                  *)
(* storage/index.ts): saves are chained one behind the other, and each     *)
(* writes a temporary file of its own, flushes it and renames it over the  *)
(* store.                                                                  *)
(*                                                                         *)
(* A snapshot is named by the number of the save that brought it; the      *)
(* encryption is not modelled.  The process may crash between any two      *)
(* calls to the file system, and the machine may lose its power: then what *)
(* was not flushed is lost, and so may be a rename, since the directory is *)
(* never flushed.                                                          *)
(*                                                                         *)
(* A definition marked "slip" is no part of the model: it is a mistake     *)
(* that could be made in the definition it stands before, and PROJECT.json *)
(* names the property that must catch it.                                  *)
(***************************************************************************)
EXTENDS Naturals, Sequences

CONSTANTS
    MaxSaves,    \* bound: saves asked for
    MaxFaults,   \* bound: calls to the file system that fail
    MaxCrashes   \* bound: crashes and power failures

ASSUME BoundsAreNumbers == MaxSaves \in Nat /\ MaxFaults \in Nat /\ MaxCrashes \in Nat

VARIABLES
    saves,     \* saves asked for so far
    queue,     \* saves not yet resolved or rejected, in order (writeQueue)
    step,      \* how far write() is with one of them
    current,   \* which one, 0 when none
    temp,      \* its temporary file
    file,      \* the store's file as the process sees it
    onDisk,    \* the store's file as the directory on disk knows it
    acked,     \* the newest save resolved and not lost in a power failure
    faults,    \* failed calls so far
    crashes    \* crashes so far

vars == <<saves, queue, step, current, temp, file, onDisk, acked, faults, crashes>>

-----------------------------------------------------------------------------
(* Types *)

Step == {"idle", "opened", "written", "synced", "renamed", "failed"}

\* what is in a file: which snapshot, and how much of it is there for sure
Content == [save : Nat, state : {"partial", "written", "synced"}]

\* no store yet: load() answers undefined, which is a whole answer
Nothing == [save |-> 0, state |-> "synced"]
Empty(n) == [save |-> n, state |-> "partial"]

-----------------------------------------------------------------------------

Init ==
    /\ saves = 0
    /\ queue = <<>>
    /\ step = "idle"
    /\ current = 0
    /\ temp = Nothing
    /\ file = Nothing
    /\ onDisk = Nothing
    /\ acked = 0
    /\ faults = 0
    /\ crashes = 0

\* save(): the snapshot is encrypted at once and joins the chain
Save ==
    /\ saves < MaxSaves
    /\ saves' = saves + 1
    /\ queue' = Append(queue, saves + 1)
    /\ UNCHANGED <<step, current, temp, file, onDisk, acked, faults, crashes>>

\* slip: saves are not chained, whichever gets there first goes first
Unchained == {queue[k] : k \in DOMAIN queue}
\* the save whose turn it is
UpNext == IF queue = <<>> THEN {} ELSE {Head(queue)}

-----------------------------------------------------------------------------
(* write(), one file system call after the other *)

Open(n) ==
    /\ step = "idle"
    /\ step' = "opened"
    /\ current' = n
    /\ temp' = Empty(n)
    /\ UNCHANGED <<saves, queue, file, onDisk, acked, faults, crashes>>

Write ==
    /\ step = "opened"
    /\ step' = "written"
    /\ temp' = [temp EXCEPT !.state = "written"]
    /\ UNCHANGED <<saves, queue, current, file, onDisk, acked, faults, crashes>>

\* slip: writeFile alone
NotSynced(content) == content
\* handle.sync()
Synced(content) == [content EXCEPT !.state = "synced"]

Sync ==
    /\ step = "written"
    /\ step' = "synced"
    /\ temp' = Synced(temp)
    /\ UNCHANGED <<saves, queue, current, file, onDisk, acked, faults, crashes>>

\* slip: the file is opened and written in place
InPlace(content) == Empty(content.save)
\* rename(temporary, path)
Renamed(content) == content

Rename ==
    /\ step = "synced"
    /\ step' = "renamed"
    /\ file' = Renamed(temp)
    /\ temp' = Nothing
    /\ UNCHANGED <<saves, queue, current, onDisk, acked, faults, crashes>>

\* the save's promise resolves and the next in the chain may start
Resolve ==
    /\ step = "renamed"
    /\ step' = "idle"
    /\ current' = 0
    /\ queue' = Tail(queue)
    /\ acked' = current
    /\ UNCHANGED <<saves, temp, file, onDisk, faults, crashes>>

\* mkdir, open, write, sync, close or rename fails
CallFails(n) ==
    /\ faults < MaxFaults
    /\ faults' = faults + 1
    /\ step \in {"idle", "opened", "written", "synced"}
    /\ step' = "failed"
    /\ current' = n
    /\ UNCHANGED <<saves, queue, temp, file, onDisk, acked, crashes>>

\* the temporary file is removed and the promise rejects; the chain goes on
Reject ==
    /\ step = "failed"
    /\ step' = "idle"
    /\ current' = 0
    /\ temp' = Nothing
    /\ queue' = Tail(queue)
    /\ UNCHANGED <<saves, file, onDisk, acked, faults, crashes>>

-----------------------------------------------------------------------------
(* The operating system, crashes and power failures *)

\* the directory is written back
WriteBack ==
    /\ onDisk # file
    /\ onDisk' = file
    /\ UNCHANGED <<saves, queue, step, current, temp, file, acked, faults, crashes>>

Stopped ==
    /\ crashes < MaxCrashes
    /\ crashes' = crashes + 1
    /\ queue' = <<>>
    /\ step' = "idle"
    /\ current' = 0
    /\ temp' = Nothing
    /\ UNCHANGED <<saves, faults>>

Crash == Stopped /\ UNCHANGED <<file, onDisk, acked>>

\* data that was never flushed may be gone, whatever the directory says
Survivors(content) ==
    IF content.state = "written" THEN {content, Empty(content.save)} ELSE {content}

PowerFailure ==
    /\ Stopped
    /\ file' \in Survivors(file) \cup Survivors(onDisk)
    /\ onDisk' = file'
    /\ acked' = file'.save

Next ==
    \/ Save
    \/ step = "idle" /\ \E n \in UpNext : Open(n) \/ CallFails(n)
    \/ Write \/ Sync \/ Rename \/ Resolve
    \/ step # "idle" /\ CallFails(current)
    \/ Reject
    \/ WriteBack
    \/ Crash
    \/ PowerFailure

Spec == Init /\ [][Next]_vars

-----------------------------------------------------------------------------
(* Properties *)

\* The types, and a writer that works for the first of the queue.
TypeOK ==
    /\ saves \in Nat
    /\ queue \in Seq(Nat)
    /\ step \in Step
    /\ current \in Nat
    /\ temp \in Content
    /\ file \in Content
    /\ onDisk \in Content
    /\ acked \in Nat
    /\ faults \in Nat
    /\ crashes \in Nat
    /\ IF step = "idle" THEN current = 0 ELSE queue # <<>> /\ current = Head(queue)

\* Whatever crash comes when, load() finds nothing or a whole snapshot, never a
\* truncated envelope that cannot be decrypted: the flush comes before the
\* rename and nothing is written in place.
NeverTorn == file.state = "synced" /\ onDisk.state = "synced"

\* A save that was resolved is still there after a crash of the process, itself
\* or a newer one.
AcknowledgedSurvives == acked <= file.save

\* Concurrent saves leave the last snapshot (tests/credential-store.test.ts:88):
\* outside a power failure the store never goes back to an older one.
NeverGoesBack == [][PowerFailure \/ file.save <= file'.save]_vars

\* what load() makes of a file; a torn one is no snapshot that was ever saved
Unreadable == MaxSaves + 1
Loaded(content) == IF content.state = "partial" THEN Unreadable ELSE content.save

\* Whatever fails and crashes, the store is the register that its callers (main,
\* and the pool behind AccountStateStore) take it for.
Register == INSTANCE DurableRegister WITH
    asked <- saves, pending <- queue, taken <- (step = "renamed"),
    value <- Loaded(file), settled <- Loaded(onDisk)

ImplementsRegister == Register!Spec

=============================================================================
