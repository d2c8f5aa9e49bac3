# Verification of nostrhost-catalog

TLA+ specifications of the nostrhost catalogue, the TLC configurations that
model-check them, and proofs checked by TLAPS. Paths are relative to the
repository. `PROJECT.json` lists the runs, the source lines behind every
definition, the hazards of the code and the theorems.

    tlc -config MCCatalogStore.cfg MCCatalogStore.tla
    tlapm CatalogStoreProofs.tla

## The system

The catalogue is a read model over signed Nostr events. Publishers sign app
declarations (kinds 32267 and 30078) and npack releases (kind 9900); CI verifiers
sign attestations about exact revisions. Relays, which nobody trusts, carry
the events. Each node projects what it trusts into a local file that can be
thrown away and built again.

| Component | State | Operations | What makes it correct |
|---|---|---|---|
| Catalogue store, `internal/catalog/store.go` | maps `entries` (publisher, app) and `attestations` (verifier, app, commit) | Apply, ApplyAttestation, SetLogoResult, Resolve, AttestationsFor, ResolveInstallable, Snapshot, Save, Load | replay order cannot matter; only trusted, newest declarations are shown; resolution is deterministic; a saved file is never torn |
| Trust policies, `internal/trust` | an allow-list; a policy record | Validate, NewAttestationPolicy, Evaluate | nothing is installable under `require` without enough independent trusted verifiers |
| Maintenance, `internal/catalog/maintenance.go` | a fresh store | Canonical, Rebuild | equal histories give equal digests |
| Sync daemon, `internal/catalog/sync.go` | a store, the state file, two subscriptions, a context | Bootstrap, BootstrapAttestations, Run | accepted events are saved, crashes lose nothing saved, a stop is heeded, published events arrive |
| Relay client, `internal/relay` | a pool, relay URLs; one memory store per fetch | fetchAll, query, NIP-65 discovery, FetchAppDeclarations, Publish, Subscribe* | what one relay does cannot block or spoil the answer of another |
| Protocol, verification and publisher packages | none | parse, verify and build events | what one builds the other parses to the same value |
| Curation, `internal/curation` | a policy | Accept, counts, SelectCanonical | a declaration is selected only when it is the unique best |
| CI results, `internal/ciresult` | none | reads and validates the result file of a CI run | what is attested is what the run found |
| Command line, `cmd/nostrhost-catalog`, and the systemd unit | the state file, shared by all commands | ingest, list, get, sync, rebuild, verify, trust, attest-release, publish | commands and daemon agree about the file |

Interactions: the daemon and the commands each load the state file into a store
of their own, change it and save all of it; nothing locks the file. The daemon
calls the relay client, which runs up to sixteen goroutines per fetch, and the
store, which is used by the daemon's goroutine alone. Subscriptions deliver
events on channels. systemd restarts a daemon that fails.

The hard behaviours are: late, repeated and reordered events; reduction before
validation in the client; equal dates; Go's random map order and random select;
one-event iterations of the live loop; crashes between the calls of Save; failing
saves; partial answers of relays; a cancelled context against a busy select;
deadlines that abandon a goroutine which goes on writing; several processes on
one unlocked file under a changing allow-list; and chains of encoders and
parsers that each demand something else.
`PROJECT.json` has each with its line.

## The modules

| Module | Models | State and actions |
|---|---|---|
| `Catalog` | the store's updates and queries, and the trust policies, as operators | none: `Validates`, `Accepts`, `Apply`, `ApplyAttestation`, `SetLogoResult`, `Matches`, `Resolve`, `Evaluate`, ... bear the names of the functions |
| `NewestRegister` | the abstract promise of such a projection: a newest acceptable event under each key, replaced by strictly newer ones only | `offered`, `view`; `Offer` |
| `CatalogStore` | `catalog.Store` under any sequence of calls | `entries`, `attestations`; `ApplyDeclaration`, `ApplyOneAttestation`, `RecordLogo` |
| `RelayClient` | the reduction `FetchAppDeclarations` makes | none |
| `CatalogReplay` | a store that saw a history beside two rebuilds of it, and their digests | one store each of `entries` and `attestations`; `ApplyOne`, `ApplyOneAttestation` |
| `CatalogSync` | the daemon: start, bootstrap, loop, Save call by call, signals, crashes, systemd, relays | see below |
| `RelayFetch` | one fetch: discovery of relays, `fetchAll` with its slots and deadlines, the plain query it falls back to | `phase`, `worker`, `sync`, `store`, `result`, ...; see below |
| `FetchPromise` | the abstract promise of a fetch: it returns once, with events that relays hold, and the answer stays what it was | `done`, `answer`; `Return` |
| `Lifecycle` | the state file, the daemon and the commands that share it, and the operator who edits the allow-list | `disk`, `allowed`, `memory[p]`, `list[p]`, `step[p]`, ...; see below |
| `Protocol` | events as tags: what the builders emit and the parsers read; what a CI result must satisfy | none |
| `Curation` | endorsements, the curation policy and the loop of `SelectCanonical` | none |
| `Publication` | publishers, verifiers, curators and other tools, and a node that reads what they sign | `declared`, `attested`, `endorsed`, `foreign`, `entries`, `attestations`; `Declare`, `Attest`, `Endorse`, `PublishForeign` |
| `MC...` | small worlds for TLC | |
| `...Proofs` | theorems about the module they extend | |

An event is immutable and named by its ID, so the events that exist are
constants, records with the tags the code reads. `signed` stands for VerifyID and
VerifySignature, `wellFormed` for all checks of a parser that look at nothing but
syntax (patterns, required tags, JSON). Checks that the projection depends on, of
kind, date, app ID and hashes, are explicit. Keys of Go maps, joined with a zero
byte in the code, are tuples. An entry holds its event instead of the
declaration, ID and date that are functions of it.

`CatalogSync` has one `pc` per place where Run can be interrupted: `Start`
(openStore), `FetchDeclarations`, `ApplyFetched`, `FetchAttestations`,
`ApplyFetchedAttestation`, `FinishBootstrap`, the three steps of Save
(`CreateTemporary`, `WriteTemporary`, `InstallTemporary`), then the cases of the
select: `ContextDone`, `Receive`, `ReceiveAttestation`, and `SubscriptionCloses`, after whose
save `LookAtContext` returns or goes on to `WaitToResubscribe`; a stop request may come before, during
or after that save. `SaveFails` and `Crash` end the process at any of them,
`Cancel` is SIGTERM, `StartUnit` starts the unit again. A fetch returns what some
of the relays' events reduce to, since relays may fail or be late. An iteration
takes the first event of a fresh subscription: `First` allows any stored event,
or only the newest when `NewestFirst` holds, which is how NIP-01 relays answer.
All relays are taken to hold the same events there; with relays that differ,
whichever answers first decides, which `NewestFirst = FALSE` covers.
The daemon's store is private to one goroutine, so applying an event and
deciding whether to save is one step.

`RelayFetch` gives each relay of a fetch a worker and a reconciliation. `Spawn` takes
a slot and starts both; `Finish` and `Deadline` are the two cases of the select in
`runWithDeadline`, and `Deadline` may win over a reconciliation that has finished. The
reconciliation itself (`Publish`, `SyncSucceeds`, `SyncFails`) belongs to the SDK and goes on
after its worker has left it, whatever the context says. `Decide` looks at the store,
`Collect` takes the snapshot later, as the code does with two calls. `Ask`, `QueryAnswers`, `QueryFails`
and `EndQuery` are `Client.query` as the fallback; a query that its ten seconds cut off may have
returned a part of the answer. The query of the relay lists is part
of `Discover`, which may be given any of the lists. `CatalogSync` and `Lifecycle` fetch
in one step, or event by event, and rely on no more than `FetchPromise`.

`Lifecycle` takes a coarser view of a process than `CatalogSync`, which has the steps of Save
and systemd: a process is refused or opens the file, `Reopen`s it if it is the
daemon, fetches event by event or ingests one, and replaces the file in one step,
which `NeverTorn` of `CatalogSync` justifies. `Exit` is an error, a kill or a stop at any point.
A fetch may bring any events, none at all included. `stale[p]` and `removed` are history
variables for the properties.

`CatalogReplay` gives a rebuild its attestations when it has applied its declarations, as
`Rebuild` does, and the live store the two in any order. `Canonical` is the set of what the digest may be
taken of: the maps, and one of the orders the sort may leave the attestations in. The code sorts
them by verifier, app and commit joined without a separator, and those whose keys read the same once joined
stay in whatever order the map gave (`SortKey`, `Sorted`).

`Protocol` is `Catalog` one level down: `Read` computes from the tags of an event the record
that `Catalog` calls an event, `wellFormed` included. `Publication` keeps beside each event what its
author meant (a `Metadata`, a CI result) and what is read of it, so that
properties can compare intention, event and projection. A verifier's tool either
reads a result file (`ciresult.Parse`) or calls `verification.Build` itself. `AttestRelease` is given an answer of
its own, any of the attestations in any order, as the command fetches them anew.

Tags are looked up in three ways, as in the code: by their name in the parsers (`FirstTag`), by their
name among complete ones in a release (`FirstComplete`), and in `BuildAnnouncement` by the beginning of their
name (`Beginning`), which is what `Tags.GetFirst` of the SDK does. The names that begin with another are the
constant `LongerNames`, of which one fact is assumed: no tag that BuildDeclaration writes has one.
A tag is a pair; one of a single string is a pair with an empty value, which every reader treats
alike but `GetD`, which skips a `d` tag of one string; a tag of none has an empty name.

Operators and actions whose names end in `Bug` are the definition that follows
with a plausible mistake. No specification uses them; each shows that the
property it is listed with in `PROJECT.json` can tell the mistake.

## The runs

| Run | Question | Answer |
|---|---|---|
| `store` | Does any order, repetition or forgery of events break the projection, the resolution, the installation rule or the logo fields? | no; and both maps implement `NewestRegister` |
| `replay` | Do stores that replay one history agree? | yes, if no two of its events tie, none is hidden by another of its address and no two attested revisions have one sort key |
| `replay_ties` | Do they always, as the comment on Canonical says? | no |
| `sync` | Do crashes, failing saves, partial answers and stop requests harm the file or hang the daemon? | no |
| `sync_newest` | Does the newest event reach the projection through the live loop? | yes |
| `sync_starved` | Does every published one? | no |
| `fetch` | Do hanging, failing or late relays lose what others answered, block the fetch or change its answer afterwards? | no; and it implements `FetchPromise` |
| `fetch_fallback` | Does a relay without NIP-77 still yield something? | no, not beside one that has it |
| `lifecycle` | What can unlocked sharing of the file and a changing allow-list cost? | a loss takes overlapping saves or a rebuild, a refusal takes a change of the list; nothing is resurrected by a process that knows of the change |
| `lifecycle_rebuild` | Is a rebuild safe? | no, it saves whatever the relays gave |
| `lifecycle_refused` | Does it run whatever the file holds? | no |
| `publication` | Does what people mean survive building, parsing, projecting, judging and selecting? | yes |

Bounds. `store`: five declarations, among them two equal dates of one publisher and
one of another, a release without manifest hash and a stranger's;
seven attestations of three verifiers that change their verdict, its repository
and its content, two of them with one date, one forged; all 36 policy inputs over the three modes. The
properties relate at most two events of one key and the verdicts of two verifiers,
so two or three of each kind show all the cases. `replay`: every subset of five
declarations and three attestations, one of which has another's sort key, in every order of
application for each of three stores; a rebuild applies its declarations first. `replay_ties` leaves out the
attestation with the sort key of another, so that the disagreement it shows is the ties' alone. `sync`: three valid declarations of one app and a stranger's,
two verdicts, three initial files, any number of crashes, restarts and failures;
relays start empty and publish at any time. No counter is bounded, because the
specifications have none. `replay` ends when everything is applied, so its
configurations switch the deadlock check off; so do those of `fetch` and
`publication`, which end as well.

`fetch`: two configured relays, one with NIP-77, a third that a latest list names, a
fourth that only outdated and write-only tags name, and two slots, so that a worker
must wait for a slot that a deadline may free. `lifecycle`: two processes, an allow-list
of one or two publishers that changes at any time, three declarations that replace each
other or not, and a verdict; each process may run any number of commands. Two
processes suffice for one to overtake another; a third would only be another
that overtakes. `publication`: three events in any order and any number of endorsements, of
three publishers of one app, one of whom declares two revisions, one with a commit no parser takes, a
release, a legacy declaration and one with tags named version_code and commit_time; two verifiers with passing, failing and skipped
checks; three curators with three claims. Three events are what a declaration, the
verdict on it and a later verdict or a rival take. `MaxEvents` is the one
bound on a counter.

Fairness in `RelayFetch`: weak fairness of the client's own steps, which are plain code and
timers: the ten seconds of a query and the thirty of a reconciliation pass. It
assumes that connecting and a plain query heed their context, as the code
does; of a reconciliation it assumes nothing. No relay owes an answer.

Fairness in `CatalogSync`: weak fairness of the daemon's own steps (plain
code, calls with deadlines, a timer); strong fairness of `ContextDone`, `Receive`
and `ReceiveAttestation`, because Go's select picks at random among the ready
cases, so that one that is ready again and again is picked. Nothing is assumed of
publishers, of crashes, of `SaveFails` or of `StartUnit`: the properties hold for
a daemon that stays up, or, for `StopIsHeeded`, for every one.

### Disagreements with the documentation

* `replay_ties`. "Two stores built from the same relay history produce the same
  digest" (`src/internal/catalog/maintenance.go:22-24`). The client returns its
  events in the order of a Go map and the store keeps the first of equally dated
  events of one app, which may live at different addresses (a declaration and a
  release).
* `sync_starved`. "Run subscribes to live declarations" (`sync.go:52`), "the live
  subscribe/apply loop that would otherwise pick up new declarations"
  (`src/internal/relay/negentropy.go:95-96`). The loop opens new subscriptions for every
  event it reads; behind a newer event of a relay's answer nothing is read until
  the daemon restarts.
* `fetch_fallback`. "Falls back to a plain paged query when the relay does not
  support NIP-77 ..., so a relay without negentropy still yields a (possibly truncated)
  result rather than nothing" (`negentropy.go:79-82`). The fallback is taken only if no relay has
  given anything (`negentropy.go:123`).
* `lifecycle_rebuild`. The file "is safe to rebuild from relay replay" (`src/README.md:69`),
  rebuild will "refetch the whole history" (`main.go:90`). Bootstrap does not report
  that a fetch failed, so a rebuild saves a partial or empty projection over the
  file and prints `rebuilt: true`.
* `lifecycle_refused`. Rebuild works "ignoring any on-disk projection" and the file "is
  disposable" (`maintenance.go:46-48`). `run` loads the file before it looks at the
  command (`main.go:61`), so after the allow-list has lost a publisher whom the file shows every
  command fails, rebuild and publish included.
* Seen while reading, without a run:
  * Of announcing the record of an accepted entry "the never-drift property still holds"
    (`event.go:133-135`). It does for a record kept of a kind-32267 declaration
    (`NotesDoNotDrift`). One kept of a release or of a legacy declaration, which
    `BuildAnnouncement` refuses, is announced too, under the kind-32267 address of its app, where
    there is no event of its signer, or one of another revision.
  * `BuildAnnouncement` takes its tags by the beginning of their names (`event.go:117-118`). Given what
    its comment asks for, an event that BuildDeclaration made, it finds the right ones (`NotesDoNotDrift`);
    of an event of another tool with a tag such as `version_code` before `version` it announces that
    tag's value, and `BuildAnnouncementForDeclaration` of the same event another.
  * `attestationSnapshot` is "in stable verifier/app/commit order" (`store.go:260-261`). Two revisions whose app and
    commit read the same once joined (the app `a` with a commit of 41 digits, the first a `b`, and the app `ab`
    with the other 40) compare equal, and are digested in either order; the precondition `NoneConfused` of
    `CleanHistoriesAgree` excludes such histories.
  * The comment on `BuildAnnouncement` says the note can never drift from what was
    declared, but takes the repository and the name as parameters.
  * `validateMetadata` accepts app IDs, commits and package paths that no parser takes; such a
    declaration is signed and then ignored by every node.
  * `ciresult.validateRepository` refuses NIP-34 references, so a release can be attested only by a
    tool that does not go by a result file.
  * The bound of sixteen relays shall keep "from opening hundreds of simultaneous
    websocket connections" (`negentropy.go:97-98`); a reconciliation abandoned at its deadline
    frees its slot and keeps its connection (`OverrunsAreLate` says how many there can be).
  * "Attestations are not backfilled by a historical fetch on startup" (`client.go:273-275`); Run
    does so with `BootstrapAttestations`.
  * The attestation key (verifier, app, commit) makes attestations of two builds
    of one commit replace each other.
  * Run's comment says that it returns when the
    subscription closes (`sync.go:53`); it resubscribes after five seconds, as
    `SubscriptionCloses` models.

## What is proved

For every value of the constants, from the assumptions the modules declare: events are
records of their types, an ID names one event, trusted keys are keys, a policy
names finitely many verifiers, an initial state file is whole with its events
under their keys, there are finitely many relays with finitely many events each,
there is at least one slot, and every allow-list names trusted keys. Of `Publication`:
what is declared is a `Metadata` of strings, keys are numbers, no pattern matches the empty string
(the regular expressions of validateMetadata and of the parsers all ask for a character), an
identifier with a colon in it is not empty, and no tag that BuildDeclaration writes has a name that goes on after
`version` or `commit`. The last three, `PatternsAssumption`, `TestingAssumption` and `LongerNamesAssumption`,
are needed because a string is opaque to the provers.

* `CatalogStoreProofs`: `TypeOK`, `NewestWins`, `NewestVerdictWins`,
  `IndependentVerifiers`, `InstallableIsVouchedFor`, `ResolvesToTheNewest`,
  `LogoFollowsDeclaration` and the two refinements. `NewestWins`
  and `NewestVerdictWins` are inductive as they stand, since they compare the maps
  with all that was handed to the store. `IndependentVerifiers` follows from
  attestations lying under their keys. `InstallableIsVouchedFor` follows from that and
  `NewestVerdictWins`: distinct counted elements have distinct verifiers, so the
  count bounds the number of verifiers who vouch. `ResolvesToTheNewest` needs the invariant `Led`: an app
  that is shown has a candidate that precedes all others. A largest element of a finite set is
  an induction over data; here every step changes one candidate, so the leader afterwards is the
  old one or the new one, and the argument is a step invariant. The leader has the smallest key of the equally
new because the shown events of two publishers differ in their keys (`CandidateFacts`). The refinements map a logo result
  to a stutter, and a call of Apply to `Offer`.
* `CatalogReplayProofs`: `TypeOK` and `CleanHistoriesAgree`. The invariant `IInv` says that each store,
  at every point, shows the newest of what has been applied to it; when the live
  store and another are built, `NewestSurvives` says that without ties and hidden
  events the reduction kept every event the live store shows, so the maps agree
  (`EntriesAgree`, `VerdictsAgree`). If moreover no revisions are confused, no two attestations that a
  store shows have one sort key, so the sort has one outcome (`SortedInOneWay`) and the maps one digest.
* `CatalogSyncProofs`: `TypeOK`, from the keys of memory and of the file a start would load
  (`KeyedState`), `AcceptedIsSaved` and `NeverTorn` from the invariant `Saved`, which
  adds what the temporary file holds in each step of Save, and `NeverRegresses` from `Ahead`:
  while the daemon runs, its memory is as new as the file, key by key. `Ahead` is
  needed because the file is replaced as a whole by what memory holds.
* `RelayFetchProofs`: `TypeOK`, `AsksWhereTold`, which is fixed by `Discover`, `AnsweredIsReturned`,
  `OverrunsAreLate` and the refinement of `FetchPromise`. `Returned` strengthens `AnsweredIsReturned`: a
  reconciliation that succeeded has left its events in the store, and no worker is at work
  any more when the snapshot is taken, so the snapshot has them; a page read stays read, whatever other
  queries add (`PageStays`). `Bounded` says which worker each
  running reconciliation belongs to.
* `LifecycleProofs`: `TypeOK`, `NoResurrection`, `RefusedOnlyAfterChange` and `OnlyOverlapsLose`. The
  central lemma `StepsLearn` says that applying an event only adds what the process's list
  allows and never shows less or older. `Contained` keeps every copy within the list of its process, and
  the lists and the file within the keys the operator allows or has removed; `Ahead`
  keeps a copy that no other process has overtaken as new as the file.

* `CurationProofs`: `LoopSelectsTheUniqueBest`, what the loop of SelectCanonical computes for candidates
  in any order. The loop is a recursive function of the turns made. The library's induction theorems
  cannot be used, so the induction looks at the first turn for which the statement fails (`NatMin`). The
  statement is `Found`: after n turns `best` is the largest of the counts that reached the minimum,
  `tied` says whether it is shared, and otherwise `selected` has its candidate.
* `ProtocolProofs`: what the builders write, the parsers read. An optional tag shifts those after it, so
  the tags of a declaration are followed as they are appended (`Adds`): a reader of the longer
  sequence finds the new value under its name, and under every other name what it found before.
  `BeginningIsName` says that in such an event the beginning of a name finds what the name finds.
  `DeclarationReadBack` and `AttestationReadBack` say that nothing is lost or exchanged,
  `ProperDeclarationParses` and `AttestationParses` that the parsers refuse nothing the builders make,
  patterns the builder does not know aside.
* `PublicationProofs`: `TypeOK`, `DeclaredAsMeant`, `TestedIsAccepted`, `SelectsTheUniqueBest` and
  `NotesDoNotDrift`. The properties compare intention and projection, of which neither says
  anything about the other without the event between them: the invariant `Inv` says of each event how it was
  built from what was meant (`BuiltDeclarations`, `BuiltAttestations`, `BuiltEndorsements`), that events are
  dated apart within `now` and read by `Read` (`Clock`, `Dated`), that there are finitely many, and that the
  node keeps a newest one of those it can read, and every verifier's last word (`Projection`, `VerdictsKept`).
  `TestedIsAccepted` then matches each counted attestation with the verifier whose last run it is
  (`CountedAreTesters`), `SelectsTheUniqueBest` each vote with a trusted curator (`CountIsVotes`).
  For attest-release the same is said of a fresh store that was given any runs in any order
  (`CollectionExists`, `RunByRun`, `CollectedIsKept`). `NotesDoNotDrift` takes what `Inv` says of how a declaration was
  built (`Announces`, `DeclaredIsAnnounced`), and that what the node keeps is the newest at its
  address of what can be read (`KeptIsLedTo`).

Only model-checked: the liveness properties `FetchReturns`, `StopIsHeeded` and `NewestIsProjected`, and the
five violations. Liveness under fairness and ENABLED are out of TLAPS's reach, as are RECURSIVE operators and
the library's induction over data; the modules use neither. Every other property of a passing run
is stated by a theorem.

## What is not modelled

* The abstractions above: syntax of events, JSON, SHA-256 (taken to be injective),
  logging, key normalisation, the order of Snapshot, which sorts by app and publisher and has no ties.
* A crash of the machine: Save does not sync the file it renames.
* Goroutines left behind by abandoned subscriptions.
* `Client.Publish` and the command `publish`: one result per relay, collected from the
  SDK, and no state. `list`, `get` and `trust` print what the store's queries return.
* `BuildProfile` and the NIP-19 addresses: other clients read
  them, not this program. `relayURLsFromNIP66` has no caller.
* What patterns, `url.Parse` and the package path check accept: constant sets of `Protocol`.
* A live subscription per relay: `CatalogSync` takes all relays to hold the same events.

## The plan

1. More proofs: that the node of `Publication` implements `NewestRegister`, as `CatalogStore` does, and the
   conditions under which the violated statements do hold.
2. `CatalogSync` fetching through `RelayFetch`'s promise relay by relay, with relays that hold
   different events.
