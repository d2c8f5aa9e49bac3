------------------------------ MODULE Lifecycle ------------------------------
(***************************************************************************)
(* The state file and the processes that share it: the daemon and the      *)
(* commands an operator types.  Each loads the whole file, changes a copy  *)
(* in its own memory and saves all of it by a rename; nothing locks the    *)
(* file.  The operator changes the allow-list meanwhile, and each process  *)
(* goes by the list it was started with.                                   *)
(*                                                                         *)
(* A fetch returns any of the events there are: the relays may hold them   *)
(* or not, answer or not (FetchPromise is all that is known of it).        *)
(* Trusted, the constant of Catalog, is every key any allow-list names.    *)
(* A missing file reads as an empty projection.  The commands list, get,   *)
(* trust, publish and attest-release open the file and never change it.    *)
(***************************************************************************)
EXTENDS Catalog

CONSTANTS
  Processes,   \* the daemon and the operator's shells
  Lists        \* the allow-lists the operator may configure

ASSUME ListsAssumption == \A keys \in Lists : keys \subseteq Trusted

VARIABLES
  disk,      \* the projection in the file at the state path
  allowed,   \* the allow-list a command started now is given
  command,   \* command[p]: what p runs, or ran last
  step,      \* step[p]: where p is
  list,      \* list[p]: the allow-list p was started with
  memory,    \* memory[p]: the Store of p
  stale,     \* stale[p]: another process has saved since p last loaded or saved
  removed    \* the keys the operator has ever taken off the list

process == <<command, step, list, memory>>
vars == <<disk, allowed, process, stale, removed>>

Commands == {"sync", "ingest", "rebuild", "verify"}

Steps ==
  {"idle", "refused", "ingesting", "reopening", "bootstrapping", "refetching",
   "comparing", "saving", "running"}

Empty == [entries |-> EmptyMap, attestations |-> EmptyMap]

IsProjection(s) ==
  /\ DOMAIN s = {"entries", "attestations"}
  /\ \A k \in DOMAIN s.entries :
       s.entries[k].event \in Declarations /\ EntryKey(s.entries[k].event) = k
  /\ \A k \in DOMAIN s.attestations :
       s.attestations[k] \in Attestations /\ AttestationKey(s.attestations[k]) = k

TypeOK ==
  /\ IsProjection(disk)
  /\ allowed \in Lists
  /\ removed \subseteq Trusted
  /\ command \in [Processes -> Commands \cup {"none"}]
  /\ step \in [Processes -> Steps]
  /\ list \in [Processes -> Lists \cup {{}}]
  /\ stale \in [Processes -> BOOLEAN]
  /\ DOMAIN memory = Processes
  /\ \A p \in Processes : IsProjection(memory[p])

Init ==
  /\ disk = Empty
  /\ allowed \in Lists
  /\ removed = {}
  /\ command = [p \in Processes |-> "none"]
  /\ step = [p \in Processes |-> "idle"]
  /\ list = [p \in Processes |-> {}]
  /\ memory = [p \in Processes |-> Empty]
  /\ stale = [p \in Processes |-> FALSE]

Inactive(p) == step[p] \in {"idle", "refused"}

\* The process is gone, with its memory.
Ends(p) ==
  /\ command' = [command EXCEPT ![p] = "none"]
  /\ step' = [step EXCEPT ![p] = "idle"]
  /\ list' = [list EXCEPT ![p] = {}]
  /\ memory' = [memory EXCEPT ![p] = Empty]

-----------------------------------------------------------------------------
(* Starting: run opens the state file before it looks at the command.      *)

LoadsBug(keys, file) ==
  \A k \in DOMAIN file.entries \cup DOMAIN file.attestations : k[1] \in keys

\* Load refuses a file with an entry of a publisher that keys do not name.
Loads(keys, file) == \A k \in DOMAIN file.entries : k[1] \in keys

Refuse(p, c) ==
  /\ step[p] = "idle" /\ ~Loads(allowed, disk)
  /\ command' = [command EXCEPT ![p] = c]
  /\ list' = [list EXCEPT ![p] = allowed]
  /\ step' = [step EXCEPT ![p] = "refused"]
  /\ UNCHANGED <<disk, allowed, memory, stale, removed>>

\* rebuild and verify do not use the store run has opened, sync opens another.
Open(p, c) ==
  /\ step[p] = "idle" /\ Loads(allowed, disk)
  /\ command' = [command EXCEPT ![p] = c]
  /\ list' = [list EXCEPT ![p] = allowed]
  /\ memory' = [memory EXCEPT ![p] = IF c = "ingest" THEN disk ELSE Empty]
  /\ step' = [step EXCEPT ![p] = CASE c = "ingest" -> "ingesting"
                                   [] c = "sync" -> "reopening"
                                   [] OTHER -> "refetching"]
  /\ stale' = [stale EXCEPT ![p] = FALSE]
  /\ UNCHANGED <<disk, allowed, removed>>

ReopenBug(p) ==
  /\ step[p] = "reopening"
  /\ IF Loads(list[p], disk)
       THEN /\ memory' = [memory EXCEPT ![p] = Empty]
            /\ step' = [step EXCEPT ![p] = "bootstrapping"]
            /\ stale' = [stale EXCEPT ![p] = FALSE]
       ELSE /\ step' = [step EXCEPT ![p] = "refused"]
            /\ memory' = [memory EXCEPT ![p] = Empty]
            /\ stale' = [stale EXCEPT ![p] = FALSE]
  /\ UNCHANGED <<disk, allowed, command, list, removed>>

\* syncCatalog opens the file again, after it has made a relay client.
Reopen(p) ==
  /\ step[p] = "reopening"
  /\ IF Loads(list[p], disk)
       THEN /\ memory' = [memory EXCEPT ![p] = disk]
            /\ step' = [step EXCEPT ![p] = "bootstrapping"]
            /\ stale' = [stale EXCEPT ![p] = FALSE]
       ELSE /\ step' = [step EXCEPT ![p] = "refused"]
            /\ memory' = [memory EXCEPT ![p] = Empty]
            /\ stale' = [stale EXCEPT ![p] = FALSE]
  /\ UNCHANGED <<disk, allowed, command, list, removed>>

-----------------------------------------------------------------------------
(* Changing the copy in memory. *)

ApplyForBug(keys, entries, e) == Apply(entries, e)

\* Apply in a store that was given keys as its publishers.
ApplyFor(keys, entries, e) ==
  IF e.pubkey \in keys THEN Apply(entries, e) ELSE entries

Applied(p, e) ==
  [memory EXCEPT ![p].entries = ApplyFor(list[p], @, e)]

AppliedAttestationBug(p, a) ==
  [memory EXCEPT ![p].attestations = Put(@, <<a.pubkey, a.appID>>, a)]

AppliedAttestation(p, a) ==
  [memory EXCEPT ![p].attestations = ApplyAttestation(@, a)]

\* Bootstrap and Rebuild apply what a fetch returned, one event after another.
Fetch(p) ==
  /\ step[p] \in {"bootstrapping", "refetching"}
  /\ \/ \E e \in Declarations : memory' = Applied(p, e)
     \/ \E a \in Attestations : memory' = AppliedAttestation(p, a)
  /\ UNCHANGED <<disk, allowed, command, step, list, stale, removed>>

EndFetch(p) ==
  /\ step[p] \in {"bootstrapping", "refetching"}
  /\ step' = [step EXCEPT ![p] = IF command[p] = "verify" THEN "comparing" ELSE "saving"]
  /\ UNCHANGED <<disk, allowed, command, list, memory, stale, removed>>

\* The event an operator hands to ingest: saved although it changed nothing.
\* One that is rejected ends the command (Exit).
Ingest(p, e) ==
  /\ step[p] = "ingesting"
  /\ e.pubkey \in list[p] /\ Validates(e)
  /\ memory' = Applied(p, e)
  /\ step' = [step EXCEPT ![p] = "saving"]
  /\ UNCHANGED <<disk, allowed, command, list, stale, removed>>

\* A live event that changes the daemon's projection is saved.
Receive(p) ==
  /\ step[p] = "running"
  /\ \/ \E e \in Declarations : memory' = Applied(p, e)
     \/ \E a \in Attestations : memory' = AppliedAttestation(p, a)
  /\ memory' # memory
  /\ step' = [step EXCEPT ![p] = "saving"]
  /\ UNCHANGED <<disk, allowed, command, list, stale, removed>>

\* A subscription closes, or the daemon is told to stop.
SaveAgain(p) ==
  /\ step[p] = "running"
  /\ step' = [step EXCEPT ![p] = "saving"]
  /\ UNCHANGED <<disk, allowed, command, list, memory, stale, removed>>

-----------------------------------------------------------------------------
(* Ending. *)

\* Store.Save replaces the file as a whole.
Save(p) ==
  /\ step[p] = "saving"
  /\ disk' = memory[p]
  /\ stale' = [q \in Processes |-> q # p /\ ~Inactive(q)]
  /\ IF command[p] = "sync"
       THEN /\ step' = [step EXCEPT ![p] = "running"]
            /\ UNCHANGED <<command, list, memory>>
       ELSE Ends(p)
  /\ UNCHANGED <<allowed, removed>>

\* verify opens the file anew and compares the digests; nothing is written.
Compare(p) ==
  /\ step[p] = "comparing"
  /\ IF Loads(list[p], disk)
       THEN Ends(p)
       ELSE /\ step' = [step EXCEPT ![p] = "refused"]
            /\ memory' = [memory EXCEPT ![p] = Empty]
            /\ UNCHANGED <<command, list>>
  /\ stale' = [stale EXCEPT ![p] = FALSE]
  /\ UNCHANGED <<disk, allowed, removed>>

\* p fails, is killed, or has been told to stop.
Exit(p) ==
  /\ step[p] # "idle"
  /\ Ends(p)
  /\ stale' = [stale EXCEPT ![p] = FALSE]
  /\ UNCHANGED <<disk, allowed, removed>>

\* The operator edits --publishers.
ChangeAllowed(keys) ==
  /\ keys # allowed
  /\ allowed' = keys
  /\ removed' = removed \cup (allowed \ keys)
  /\ UNCHANGED <<disk, process, stale>>

Next ==
  \/ \E p \in Processes :
       \/ \E c \in Commands : Refuse(p, c) \/ Open(p, c)
       \/ Reopen(p)
       \/ Fetch(p) \/ EndFetch(p)
       \/ \E e \in Declarations : Ingest(p, e)
       \/ Receive(p) \/ SaveAgain(p)
       \/ Save(p) \/ Compare(p) \/ Exit(p)
  \/ \E keys \in Lists : ChangeAllowed(keys)

Spec == Init /\ [][Next]_vars

-----------------------------------------------------------------------------
(* Properties. *)

\* new shows all that old shows, or something newer in its place.
Covers(new, old) ==
  /\ \A k \in DOMAIN old.entries :
       /\ k \in DOMAIN new.entries
       /\ \/ new.entries[k].event = old.entries[k].event
          \/ new.entries[k].event.createdAt > old.entries[k].event.createdAt
  /\ \A k \in DOMAIN old.attestations :
       /\ k \in DOMAIN new.attestations
       /\ \/ new.attestations[k] = old.attestations[k]
          \/ new.attestations[k].createdAt > old.attestations[k].createdAt

\* What unlocked sharing can cost and what it cannot: the file loses an app or
\* a verdict, or goes back to an older one, only by a rebuild, or by a process
\* whose copy another has overtaken with a save of its own (ingest, Run).
OnlyOverlapsLose ==
  [][Covers(disk', disk)
     \/ \E p \in Processes :
          /\ step[p] = "saving" /\ disk' = memory[p]
          /\ command[p] = "rebuild" \/ stale[p]]_vars

\* A publisher who is off the list comes into the file only by a process that
\* was started while the key was on it: a changed allow-list cannot resurrect
\* data in any process that knows of the change (Load).
NoResurrection ==
  [][\A k \in DOMAIN disk'.entries \ DOMAIN disk.entries :
       k[1] \notin allowed =>
         \E p \in Processes :
           step[p] = "saving" /\ disk' = memory[p] /\ k[1] \in list[p]]_vars

\* Whatever processes overlap, one finds a file it cannot load only after the
\* operator has taken a key off the list, or, when it opens the file a second
\* time, has put one on since it started (Load, run, syncCatalog).
RefusedOnlyAfterChange ==
  \A p \in Processes :
    step[p] = "refused" => removed # {} \/ (list[p] # allowed /\ list[p] \subseteq allowed)

\* "safe to rebuild from relay replay": rebuild, with no other process
\* about, loses nothing of what the file shows.
RebuildIsSafe ==
  [][\A p \in Processes :
       (step[p] = "saving" /\ step'[p] = "idle" /\ command[p] = "rebuild" /\ ~stale[p])
         => Covers(disk', disk)]_vars

\* "ignoring any on-disk projection": rebuild runs whatever the file holds.
RebuildIsNotRefused ==
  \A p \in Processes : command[p] = "rebuild" => step[p] # "refused"
=============================================================================
