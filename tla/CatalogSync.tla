---------------------------- MODULE CatalogSync ----------------------------
(***************************************************************************)
(* The sync daemon: catalog.Run from start to shutdown, with the state     *)
(* file it loads and saves, the relays it reads, the signal that cancels   *)
(* its context, crashes, and systemd restarting it.                        *)
(*                                                                         *)
(* Run bootstraps the projection from what the relays return, saves it,    *)
(* and then loops.  Every iteration opens both subscriptions anew and      *)
(* takes at most one event from them before the next iteration opens       *)
(* others: what the old ones still deliver is read by nobody.  A           *)
(* subscription has no since, so a relay answers a fresh one with the      *)
(* events it stores.  Only the first event it sends can matter.            *)
(*                                                                         *)
(* The saved file is replaced by a rename, so a killed process leaves the  *)
(* old file or the new one; a crash of the machine, against which the code *)
(* does not sync the file, is outside the model.  The temporary file has a *)
(* random name and nobody reads one that was left behind.                  *)
(***************************************************************************)
EXTENDS RelayClient

CONSTANTS
  InitialFiles,   \* what an earlier daemon may have left at the state path
  NewestFirst     \* whether a relay sends its newest stored event first

VARIABLES
  pc,             \* where Run is, or the state of the unit
  afterSave,      \* where Run goes when the Save under way has succeeded
  pending,        \* fetched declarations Bootstrap has still to apply
  attPending,     \* fetched attestations BootstrapAttestations has to apply
  entries,        \* Store.entries
  attestations,   \* Store.attestations
  disk,           \* the file at the state path
  temporary,      \* the temporary file of the Save under way
  cancelled,      \* SIGTERM was received: ctx is done
  relay,          \* the declaration events the relays hold
  attRelay        \* the attestation events the relays hold

memory == <<pending, attPending, entries, attestations>>
files == <<disk, temporary>>
relays == <<relay, attRelay>>
vars == <<pc, afterSave, memory, files, cancelled, relays>>

\* Files.
NoFile == [state |-> "absent", entries |-> EmptyMap, attestations |-> EmptyMap]
Torn == [state |-> "torn", entries |-> EmptyMap, attestations |-> EmptyMap]

Payload ==
  [state |-> "whole", entries |-> entries, attestations |-> attestations]

\* A daemon leaves whole files (see NeverTorn), with entries under their keys.
ASSUME FilesAssumption ==
  /\ NoFile \in InitialFiles
  /\ \A file \in InitialFiles :
       /\ file.state # "torn"
       /\ \A k \in DOMAIN file.entries :
            /\ file.entries[k].event \in Declarations
            /\ EntryKey(file.entries[k].event) = k
       /\ \A k \in DOMAIN file.attestations :
            /\ file.attestations[k] \in Attestations
            /\ AttestationKey(file.attestations[k]) = k

ASSUME OrderAssumption == NewestFirst \in BOOLEAN

Stopped == pc = "stopped"
Restarting == pc = "restarting"
Running == ~Stopped /\ ~Restarting

TypeOK ==
  /\ pc \in {"stopped", "restarting", "fetching", "applying", "fetchingAtt",
             "applyingAtt", "creating", "writing", "renaming", "selecting",
             "closed", "waiting"}
  /\ afterSave \in {"selecting", "closed", "stopped"}
  /\ pending \subseteq relay /\ attPending \subseteq attRelay
  /\ relay \subseteq Declarations /\ attRelay \subseteq Attestations
  /\ cancelled \in BOOLEAN
  /\ DOMAIN entries \subseteq {EntryKey(e) : e \in Declarations}
  /\ \A k \in DOMAIN entries :
       k[1] \in Trusted /\ EntryKey(entries[k].event) = k
  /\ \A k \in DOMAIN attestations : AttestationKey(attestations[k]) = k

Init ==
  /\ pc = "restarting"
  /\ afterSave = "selecting"
  /\ pending = {} /\ attPending = {}
  /\ entries = EmptyMap /\ attestations = EmptyMap
  /\ disk \in InitialFiles
  /\ temporary = NoFile
  /\ cancelled = FALSE
  /\ relay = {} /\ attRelay = {}

-----------------------------------------------------------------------------
(* Starting. *)

\* openStore: Load refuses a file it cannot decode, and one with an entry of
\* a publisher that is no longer trusted.
Loads(file) ==
  /\ file.state # "torn"
  /\ \A k \in DOMAIN file.entries : k[1] \in Trusted

StartBug ==
  /\ Restarting /\ ~cancelled /\ Loads(disk)
  /\ entries' = EmptyMap
  /\ attestations' = EmptyMap
  /\ pc' = "fetching"
  /\ UNCHANGED <<afterSave, pending, attPending, files, cancelled, relays>>

\* syncCatalog loads the projection and calls Run.
Start ==
  /\ Restarting /\ ~cancelled /\ Loads(disk)
  /\ entries' = disk.entries
  /\ attestations' = disk.attestations
  /\ pc' = "fetching"
  /\ UNCHANGED <<afterSave, pending, attPending, files, cancelled, relays>>

-----------------------------------------------------------------------------
(* Bootstrap. *)

\* FetchAppDeclarations returns a reduction of what the relays that answered
\* in time returned, in no particular order.
FetchDeclarations ==
  /\ pc = "fetching"
  /\ \E answered \in SUBSET relay : pending' \in LatestPerAddress(answered)
  /\ pc' = "applying"
  /\ UNCHANGED <<afterSave, attPending, entries, attestations, files,
                 cancelled, relays>>

ApplyFetched ==
  /\ pc = "applying"
  /\ \E e \in pending :
       /\ entries' = Apply(entries, e)
       /\ pending' = pending \ {e}
  /\ UNCHANGED <<pc, afterSave, attPending, attestations, files, cancelled,
                 relays>>

FetchAttestations ==
  /\ pc = "applying" /\ pending = {}
  /\ attPending' \in SUBSET attRelay
  /\ pc' = "applyingAtt"
  /\ UNCHANGED <<afterSave, pending, entries, attestations, files, cancelled,
                 relays>>

ApplyFetchedAttestation ==
  /\ pc = "applyingAtt"
  /\ \E a \in attPending :
       /\ attestations' = ApplyAttestation(attestations, a)
       /\ attPending' = attPending \ {a}
  /\ UNCHANGED <<pc, afterSave, pending, entries, files, cancelled, relays>>

\* Store.Save is about to run; goto is where Run continues after it.
Save(goto) == pc' = "creating" /\ afterSave' = goto

FinishBootstrap ==
  /\ pc = "applyingAtt" /\ attPending = {}
  /\ Save("selecting")
  /\ UNCHANGED <<memory, files, cancelled, relays>>

-----------------------------------------------------------------------------
(* Store.Save. *)

CreateTemporaryBug ==
  /\ pc = "creating"
  /\ disk' = Torn
  /\ temporary' = Torn
  /\ pc' = "writing"
  /\ UNCHANGED <<afterSave, memory, cancelled, relays>>

CreateTemporary ==
  /\ pc = "creating"
  /\ temporary' = Torn
  /\ pc' = "writing"
  /\ UNCHANGED <<afterSave, memory, disk, cancelled, relays>>

WriteTemporary ==
  /\ pc = "writing"
  /\ temporary' = Payload
  /\ pc' = "renaming"
  /\ UNCHANGED <<afterSave, memory, disk, cancelled, relays>>

InstallTemporary ==
  /\ pc = "renaming"
  /\ disk' = temporary
  /\ temporary' = NoFile
  /\ pc' = afterSave
  /\ IF afterSave = "stopped"
       THEN /\ entries' = EmptyMap /\ attestations' = EmptyMap
            /\ UNCHANGED <<pending, attPending>>
       ELSE UNCHANGED memory
  /\ UNCHANGED <<afterSave, cancelled, relays>>

\* The process is gone.  systemd restarts a unit that failed, unless it was
\* asked to stop it.
Exit ==
  /\ pc' = IF cancelled THEN "stopped" ELSE "restarting"
  /\ afterSave' = "selecting"
  /\ pending' = {} /\ attPending' = {}
  /\ entries' = EmptyMap /\ attestations' = EmptyMap
  /\ temporary' = NoFile

\* Any of Save's system calls may fail: the temporary file is removed, Run
\* returns the error and the process exits with it.
SaveFails ==
  /\ pc \in {"creating", "writing", "renaming"}
  /\ Exit
  /\ UNCHANGED <<disk, cancelled, relays>>

-----------------------------------------------------------------------------
(* The loop. *)

\* The events a fresh subscription may deliver first.  The relays are taken to
\* hold the same events: with several that differ it is the newest of any.
First(stored) ==
  IF NewestFirst THEN {e \in stored : \A f \in stored : f.createdAt <= e.createdAt}
                 ELSE stored

ReceiveBug(e) ==
  /\ pc = "selecting"
  /\ e \in First(relay)
  /\ entries' = Apply(entries, e)
  /\ UNCHANGED <<pc, afterSave, pending, attPending, attestations, files,
                 cancelled, relays>>

\* The select takes a declaration: it is applied and, if that changed the
\* projection, a snapshot is saved.
Receive(e) ==
  /\ pc = "selecting"
  /\ e \in First(relay)
  /\ entries' = Apply(entries, e)
  /\ IF Accepts(entries, e) THEN Save("selecting")
                            ELSE UNCHANGED <<pc, afterSave>>
  /\ UNCHANGED <<pending, attPending, attestations, files, cancelled, relays>>

ReceiveAttestation(a) ==
  /\ pc = "selecting"
  /\ a \in First(attRelay)
  /\ attestations' = ApplyAttestation(attestations, a)
  /\ IF AcceptsAttestation(attestations, a) THEN Save("selecting")
                                            ELSE UNCHANGED <<pc, afterSave>>
  /\ UNCHANGED <<pending, attPending, entries, files, cancelled, relays>>

\* The channel of a subscription was closed: save.
SubscriptionCloses ==
  /\ pc = "selecting"
  /\ Save("closed")
  /\ UNCHANGED <<memory, files, cancelled, relays>>

\* Return if ctx is done by now, or else open other subscriptions in five
\* seconds.
LookAtContext ==
  /\ pc = "closed"
  /\ IF cancelled
       THEN Exit
       ELSE pc' = "waiting" /\ UNCHANGED <<afterSave, memory, temporary>>
  /\ UNCHANGED <<disk, cancelled, relays>>

WaitToResubscribe ==
  /\ pc = "waiting"
  /\ pc' = "selecting"
  /\ UNCHANGED <<afterSave, memory, files, cancelled, relays>>

ContextDoneBug ==
  /\ pc = "selecting" /\ cancelled
  /\ Save("selecting")
  /\ UNCHANGED <<memory, files, cancelled, relays>>

\* The select takes ctx.Done.
ContextDone ==
  /\ pc = "selecting" /\ cancelled
  /\ Save("stopped")
  /\ UNCHANGED <<memory, files, cancelled, relays>>

-----------------------------------------------------------------------------
(* The environment. *)

Publish(e) ==
  /\ e \notin relay
  /\ relay' = relay \cup {e}
  /\ UNCHANGED <<pc, afterSave, memory, files, cancelled, attRelay>>

PublishAttestation(a) ==
  /\ a \notin attRelay
  /\ attRelay' = attRelay \cup {a}
  /\ UNCHANGED <<pc, afterSave, memory, files, cancelled, relay>>

\* systemctl stop: SIGTERM to a running process; a unit waiting for its
\* restart just stops.
Cancel ==
  /\ ~Stopped /\ ~cancelled
  /\ cancelled' = TRUE
  /\ pc' = IF Restarting THEN "stopped" ELSE pc
  /\ UNCHANGED <<afterSave, memory, files, relays>>

\* The process is killed, at any moment.
Crash ==
  /\ Running
  /\ Exit
  /\ UNCHANGED <<disk, cancelled, relays>>

\* systemctl start.
StartUnit ==
  /\ Stopped
  /\ pc' = "restarting"
  /\ cancelled' = FALSE
  /\ afterSave' = "selecting"
  /\ UNCHANGED <<memory, files, relays>>

-----------------------------------------------------------------------------

Daemon ==
  \/ Start
  \/ FetchDeclarations \/ ApplyFetched
  \/ FetchAttestations \/ ApplyFetchedAttestation
  \/ FinishBootstrap
  \/ CreateTemporary \/ WriteTemporary \/ InstallTemporary
  \/ LookAtContext \/ WaitToResubscribe

Next ==
  \/ Daemon
  \/ SaveFails
  \/ \E e \in Declarations : Receive(e)
  \/ \E a \in Attestations : ReceiveAttestation(a)
  \/ SubscriptionCloses
  \/ ContextDone
  \/ \E e \in Declarations : Publish(e)
  \/ \E a \in Attestations : PublishAttestation(a)
  \/ Cancel \/ Crash \/ StartUnit

(***************************************************************************)
(* Fairness.  The daemon's own steps are plain code, calls with deadlines  *)
(* and a timer, so they are taken.  In the select several cases are ready  *)
(* again and again and Go picks one of them at random: a case that is      *)
(* ready infinitely often is picked, which is strong fairness of each.     *)
(* Nothing makes anyone publish, crash or stop.                            *)
(***************************************************************************)
Fairness ==
  /\ WF_vars(Daemon)
  /\ SF_vars(ContextDone)
  /\ SF_vars(\E e \in Declarations : Receive(e))
  /\ SF_vars(\E a \in Attestations : ReceiveAttestation(a))

Spec == Init /\ [][Next]_vars

FairSpec == Spec /\ Fairness

-----------------------------------------------------------------------------
(* Properties. *)

\* A snapshot is saved after every accepted event: whenever the daemon waits
\* for the next one, a crash would lose nothing of the projection.
AcceptedIsSaved ==
  pc \in {"selecting", "closed", "waiting"} => disk = Payload

\* Save is atomic: at no moment, whatever crash or failed call interrupts it,
\* is there a state file the next start could not decode.
NeverTorn == disk.state # "torn"

\* Whatever is killed, fails or restarts, and however little the relays
\* return: the state file never loses an app or a verdict it has shown, nor
\* goes back to an older event.
NeverRegresses ==
  [][/\ \A k \in DOMAIN disk.entries :
          /\ k \in DOMAIN disk'.entries
          /\ \/ disk'.entries[k].event = disk.entries[k].event
             \/ disk'.entries[k].event.createdAt > disk.entries[k].event.createdAt
     /\ \A k \in DOMAIN disk.attestations :
          /\ k \in DOMAIN disk'.attestations
          /\ \/ disk'.attestations[k] = disk.attestations[k]
             \/ disk'.attestations[k].createdAt > disk.attestations[k].createdAt]_vars

\* A stop request is heeded: Run returns, by ctx.Done or by a closed
\* subscription, however many events keep the select busy.
StopIsHeeded == cancelled ~> Stopped

Projected(e) ==
  /\ EntryKey(e) \in DOMAIN entries
  /\ entries[EntryKey(e)].event.createdAt >= e.createdAt

\* The newest event the relays hold, while it stays the newest and the daemon
\* stays up, reaches the projection.
NewestIsProjected ==
  \A e \in Declarations :
    (Validates(e) /\ <>[](Running /\ ~cancelled /\ First(relay) = {e}))
      => <>Projected(e)

\* The live loop picks up new declarations: a valid one the relays hold is
\* projected, or a newer one in its place, if the daemon stays up.
PublishedIsProjected ==
  \A e \in Declarations :
    (Validates(e) /\ <>[](Running /\ ~cancelled /\ e \in relay))
      => <>Projected(e)
=============================================================================
