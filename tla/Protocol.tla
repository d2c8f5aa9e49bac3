------------------------------ MODULE Protocol ------------------------------
(***************************************************************************)
(* The wire format: how publisher.BuildDeclaration and verification.Build  *)
(* lay their input out in the tags of an event, which results of a CI run  *)
(* ciresult accepts, and how the parsers of internal/protocol and of       *)
(* internal/verification read an event back.  Catalog sees an event as the *)
(* record of what is read; here that record is computed from the tags.     *)
(*                                                                         *)
(* A tag is a pair of a name and a value; the value of a tag of one string *)
(* is empty, and so is the name of a tag of none.  What a pattern,         *)
(* url.Parse or validatePackagePath accepts is a constant set, and so are  *)
(* the tag names that begin with another.  Names ending in Bug are as in   *)
(* Catalog.                                                                *)
(***************************************************************************)
EXTENDS Integers, Sequences

CONSTANTS
  Trusted,           \* as in Catalog
  AppIDs,            \* what appIDPattern matches
  Commits,           \* what CommitPattern matches
  Hashes,            \* what ValidateHash accepts
  Repositories,      \* what validateRepository accepts
  Nip34References,   \* what validateNip34RepoReference accepts
  PackagePaths,      \* what validatePackagePath accepts
  LongerNames        \* the tag names that begin with "version", or "commit",
                     \* and go on: version_code, commit_time

\* The empty string: what an absent tag is read as.
Blank == ""

\* No pattern matches it.
ASSUME PatternsAssumption ==
  Blank \notin AppIDs \cup Commits \cup Hashes \cup Repositories

\* The names of the tags BuildDeclaration writes.
WrittenNames ==
  {"d", "platforms", "platform", "repository", "version", "commit", "manifest",
   "content", "package", "name", "category"}

\* None of them is another's beginning, where one is looked for.
ASSUME LongerNamesAssumption ==
  \A prefix \in {"version", "commit"} : LongerNames[prefix] \cap WrittenNames = {}

Store == INSTANCE Catalog WITH Declarations <- {}, Attestations <- {}

AttestationKind == 30080

-----------------------------------------------------------------------------
(* Tags. *)

Places(tags, name) == {i \in DOMAIN tags : tags[i][1] = name}

\* The value at the first of some places, if there is one.
ValueAt(tags, places) ==
  IF places = {} THEN Blank
                 ELSE tags[CHOOSE i \in places : \A j \in places : i <= j][2]

FirstTag(tags, name) == ValueAt(tags, Places(tags, name))

\* Where Tags.GetFirst looks: it takes a name for the beginning of one.
Beginning(tags, prefix) ==
  UNION {Places(tags, name) : name \in {prefix} \cup LongerNames[prefix]}

Tagged(tags) == \A i \in DOMAIN tags : tags[i][1] # Blank /\ tags[i][2] # Blank

OptionalTag(name, value) == IF value = Blank THEN <<>> ELSE << <<name, value>> >>

\* The value under the first of two names that has one.
Either(tags, name, other) ==
  IF FirstTag(tags, name) # Blank THEN FirstTag(tags, name) ELSE FirstTag(tags, other)

-----------------------------------------------------------------------------
(* Declarations. *)

Metadata ==
  [appID : STRING, repository : STRING, packagePath : STRING, version : STRING,
   commit : STRING, manifestHash : STRING, contentHash : STRING, category : STRING,
   name : STRING, architectures : SUBSET STRING]

\* validateMetadata asks for less than the parser will.
ValidMetadata(m) ==
  /\ m.appID # Blank /\ m.version # Blank /\ m.commit # Blank
  /\ m.repository \in Repositories
  /\ {m.manifestHash, m.contentHash} \subseteq Hashes

BuildDeclarationBug(m, key, now) ==
  [id |-> now, kind |-> Store!AppDeclarationKind, pubkey |-> key, createdAt |-> now,
   tags |-> << <<"d", m.appID>>, <<"platforms", "linux">>, <<"platform", "yunohost">>,
               <<"repository", m.repository>>, <<"version", m.version>>,
               <<"commit", m.commit>>, <<"manifest", m.manifestHash>>,
               <<"content", m.contentHash>>, <<"package", m.packagePath>> >>
            \o OptionalTag("name", m.name) \o OptionalTag("category", m.category),
   content |-> [object |-> TRUE, name |-> m.name, architectures |-> m.architectures],
   signed |-> TRUE]

\* Its description travels like its name.
BuildDeclaration(m, key, now) ==
  [id |-> now, kind |-> Store!AppDeclarationKind, pubkey |-> key, createdAt |-> now,
   tags |-> << <<"d", m.appID>>, <<"platforms", "linux">>, <<"platform", "yunohost">>,
               <<"repository", m.repository>>, <<"version", m.version>>,
               <<"commit", m.commit>>, <<"manifest", m.manifestHash>>,
               <<"content", m.contentHash>> >>
            \o OptionalTag("package", m.packagePath)
            \o OptionalTag("name", m.name) \o OptionalTag("category", m.category),
   content |-> [object |-> TRUE, name |-> m.name, architectures |-> m.architectures],
   signed |-> TRUE]

\* parseTags.
ParsesTags(tags) ==
  /\ Tagged(tags)
  /\ \A name \in {"d", "version", "commit", "manifest", "content"} :
       \E i \in DOMAIN tags : Places(tags, name) = {i}
  /\ Either(tags, "platform", "platforms") # Blank
  /\ Either(tags, "repository", "repo") # Blank

ParsesDeclaration(e) ==
  /\ e.kind \in {Store!AppDeclarationKind, Store!LegacyAppDeclarationKind}
  /\ e.createdAt > 0
  /\ ParsesTags(e.tags)
  /\ FirstTag(e.tags, "d") \in AppIDs
  /\ Either(e.tags, "platform", "platforms") \in {"yunohost", "linux"}
  /\ Either(e.tags, "repository", "repo") \in Repositories
  /\ FirstTag(e.tags, "package") \in PackagePaths \cup {Blank}
  /\ FirstTag(e.tags, "commit") \in Commits
  /\ {FirstTag(e.tags, "manifest"), FirstTag(e.tags, "content")} \subseteq Hashes
  /\ e.content.object

ParseDeclaration(e) ==
  [appID |-> FirstTag(e.tags, "d"), publisher |-> e.pubkey,
   repository |-> Either(e.tags, "repository", "repo"),
   packagePath |-> FirstTag(e.tags, "package"),
   version |-> FirstTag(e.tags, "version"), commit |-> FirstTag(e.tags, "commit"),
   manifestHash |-> FirstTag(e.tags, "manifest"),
   contentHash |-> FirstTag(e.tags, "content"),
   category |-> FirstTag(e.tags, "category"),
   name |-> IF FirstTag(e.tags, "name") # Blank THEN FirstTag(e.tags, "name")
                                             ELSE e.content.name,
   architectures |-> e.content.architectures]

\* A release is read tolerantly: incomplete tags are skipped, first ones count.
FirstComplete(tags, name) ==
  ValueAt(tags, {i \in Places(tags, name) : tags[i][2] # Blank})

ParsesRelease(e) ==
  /\ e.kind = Store!NpackReleaseKind
  /\ e.createdAt > 0
  /\ FirstComplete(e.tags, "name") \in AppIDs
  /\ FirstComplete(e.tags, "version") # Blank
  /\ FirstComplete(e.tags, "repo") \in Nip34References
  /\ FirstComplete(e.tags, "commit") \in Commits
  /\ "sha256:" \o FirstComplete(e.tags, "x") \in Hashes

ParseRelease(e) ==
  [appID |-> FirstComplete(e.tags, "name"), publisher |-> e.pubkey,
   repository |-> FirstComplete(e.tags, "repo"), packagePath |-> Blank,
   version |-> FirstComplete(e.tags, "version"),
   commit |-> FirstComplete(e.tags, "commit"),
   manifestHash |-> Blank, contentHash |-> "sha256:" \o FirstComplete(e.tags, "x"),
   category |-> Blank, name |-> FirstComplete(e.tags, "name"), architectures |-> {}]

ParsesEvent(e) ==
  IF e.kind = Store!NpackReleaseKind THEN ParsesRelease(e) ELSE ParsesDeclaration(e)

ParseEvent(e) ==
  IF e.kind = Store!NpackReleaseKind THEN ParseRelease(e) ELSE ParseDeclaration(e)

\* The event as Catalog sees it: what is read of it, and whether it can be.
Read(e) ==
  LET declaration == ParseEvent(e) IN
  [id |-> e.id, kind |-> e.kind, pubkey |-> e.pubkey, createdAt |-> e.createdAt,
   d |-> FirstTag(e.tags, "d"), name |-> FirstComplete(e.tags, "name"),
   repo |-> declaration.repository, commit |-> declaration.commit,
   manifest |-> declaration.manifestHash, content |-> declaration.contentHash,
   signed |-> e.signed, wellFormed |-> ParsesEvent(e)]

-----------------------------------------------------------------------------
(* CI results and attestations. *)

Outcomes == {"pass", "fail", "skip", "error"}
Verdicts == {"pass", "fail", "error"}

\* The checks every stage repeats: at least one, each with a name and an outcome.
ValidChecks(checks) ==
  /\ DOMAIN checks # {} /\ Blank \notin DOMAIN checks
  /\ \A name \in DOMAIN checks : checks[name] \in Outcomes

\* Result.Validate.  It takes no NIP-34 reference, so no release can be tested
\* by way of a result file.
ValidResult(r) ==
  /\ r.schema = 1
  /\ r.appID \in AppIDs
  /\ r.repository \in Repositories
  /\ r.commit \in Commits
  /\ {r.manifest, r.content} \subseteq Hashes
  /\ ValidChecks(r.checks)
  /\ r.result \in Verdicts

\* What verification.Build refuses to sign.
ValidAttestation(r) ==
  /\ r.appID # Blank /\ r.repository # Blank
  /\ r.commit \in Commits
  /\ {r.manifest, r.content} \subseteq Hashes
  /\ ValidChecks(r.checks)
  /\ r.result \in Verdicts

BuildAttestationBug(r, key, now) ==
  [id |-> now, kind |-> AttestationKind, pubkey |-> key, createdAt |-> now,
   tags |-> << <<"d", r.appID \o ":" \o r.commit>>, <<"app_id", r.appID>>,
               <<"repo", r.repository>>, <<"commit", r.commit>>,
               <<"manifest", r.content>>, <<"content", r.manifest>>,
               <<"ci_provider", "ci">>, <<"ci_ref", "run">>, <<"result", r.result>> >>,
   checks |-> r.checks, signed |-> TRUE]

BuildAttestation(r, key, now) ==
  [id |-> now, kind |-> AttestationKind, pubkey |-> key, createdAt |-> now,
   tags |-> << <<"d", r.appID \o ":" \o r.commit>>, <<"app_id", r.appID>>,
               <<"repo", r.repository>>, <<"commit", r.commit>>,
               <<"manifest", r.manifest>>, <<"content", r.content>>,
               <<"ci_provider", "ci">>, <<"ci_ref", "run">>, <<"result", r.result>> >>,
   checks |-> r.checks, signed |-> TRUE]

AttestationTags ==
  {"d", "app_id", "repo", "commit", "manifest", "content", "ci_provider", "ci_ref",
   "result"}

\* verification.Parse.
ParsesAttestation(a) ==
  /\ a.kind = AttestationKind /\ a.createdAt > 0 /\ a.signed
  /\ Tagged(a.tags)
  /\ \A i, j \in DOMAIN a.tags : a.tags[i][1] = a.tags[j][1] => i = j
  /\ \A name \in AttestationTags : FirstTag(a.tags, name) # Blank
  /\ FirstTag(a.tags, "d")
       = FirstTag(a.tags, "app_id") \o ":" \o FirstTag(a.tags, "commit")
  /\ FirstTag(a.tags, "commit") \in Commits
  /\ {FirstTag(a.tags, "manifest"), FirstTag(a.tags, "content")} \subseteq Hashes
  /\ FirstTag(a.tags, "result") \in Verdicts
  /\ ValidChecks(a.checks)

ReadAttestation(a) ==
  [id |-> a.id, pubkey |-> a.pubkey, createdAt |-> a.createdAt,
   appID |-> FirstTag(a.tags, "app_id"), repo |-> FirstTag(a.tags, "repo"),
   commit |-> FirstTag(a.tags, "commit"), manifest |-> FirstTag(a.tags, "manifest"),
   content |-> FirstTag(a.tags, "content"),
   passed |-> {name \in DOMAIN a.checks : a.checks[name] = "pass"},
   result |-> FirstTag(a.tags, "result"), signed |-> a.signed,
   wellFormed |-> ParsesAttestation(a)]

-----------------------------------------------------------------------------
(* Announcements. *)

NoteKind == 1

\* What BuildAnnouncement and AppAddress demand of the signed event.
CanAnnounce(declaration, key) ==
  /\ declaration.kind = Store!AppDeclarationKind
  /\ declaration.pubkey = key
  /\ FirstTag(declaration.tags, "d") # Blank
  /\ Beginning(declaration.tags, "version") # {}
  /\ Beginning(declaration.tags, "commit") # {}

\* The note names the address of the app, and the revision; what else it says
\* of the app, and the relay hints of the address, are left out.
BuildAnnouncement(declaration, key, now) ==
  LET tags == declaration.tags IN
  [id |-> now, kind |-> NoteKind, pubkey |-> key, createdAt |-> now,
   address |-> <<Store!AppDeclarationKind, key, FirstTag(tags, "d")>>,
   version |-> ValueAt(tags, Beginning(tags, "version")),
   commit |-> ValueAt(tags, Beginning(tags, "commit"))]

\* A record does not tell the kind of the event it was read from.
CanAnnounceRecord(declaration, key) == declaration.publisher = key

BuildAnnouncementForDeclaration(declaration, key, now) ==
  [id |-> now, kind |-> NoteKind, pubkey |-> key, createdAt |-> now,
   address |-> <<Store!AppDeclarationKind, key, declaration.appID>>,
   version |-> declaration.version, commit |-> declaration.commit]
=============================================================================
