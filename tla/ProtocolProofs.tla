--------------------------- MODULE ProtocolProofs ---------------------------
(***************************************************************************)
(* What the parsers read of the events the builders build, whatever is     *)
(* declared or attested.                                                   *)
(***************************************************************************)
EXTENDS Protocol, CurationProofs, SequenceTheorems, TLAPS

-----------------------------------------------------------------------------
(* Tags. *)

\* A literal that is not empty is not Blank.
LEMMA NamesAreNotBlank ==
  /\ "d" # Blank /\ "platforms" # Blank /\ "linux" # Blank /\ "platform" # Blank
  /\ "yunohost" # Blank /\ "repository" # Blank /\ "version" # Blank
  /\ "commit" # Blank /\ "manifest" # Blank /\ "content" # Blank
  /\ "package" # Blank /\ "name" # Blank /\ "category" # Blank /\ "app_id" # Blank
  /\ "repo" # Blank /\ "ci_provider" # Blank /\ "ci" # Blank /\ "ci_ref" # Blank
  /\ "run" # Blank /\ "result" # Blank
BY Zenon DEF Blank

\* A tag that occurs once is the one a reader finds.
LEMMA SingleTag ==
  ASSUME NEW tags, NEW name, NEW i \in Int, Places(tags, name) = {i}
  PROVE  FirstTag(tags, name) = tags[i][2]
<1>1. (CHOOSE j \in {i} : \A k \in {i} : j <= k) = i
  OBVIOUS
<1>2. QED BY <1>1 DEF FirstTag, ValueAt

\* A name that does not occur is read as Blank.
LEMMA MissingTag ==
  ASSUME NEW tags, NEW name, Places(tags, name) = {}
  PROVE  FirstTag(tags, name) = Blank
BY DEF FirstTag, ValueAt

\* The sequence t is s with one more element.
Appended(s, t, e) ==
  \E n \in Nat : /\ DOMAIN s = 1..n /\ DOMAIN t = 1..(n + 1)
                 /\ \A i \in 1..n : t[i] = s[i]
                 /\ t[n + 1] = e

LEMMA AppendedByConcat ==
  ASSUME NEW S, NEW s \in Seq(S), NEW e \in S, NEW t, t = s \o <<e>>
  PROVE  t \in Seq(S) /\ Appended(s, t, e)
<1>1. t = Append(s, e)
  BY AppendIsConcat
<1>2. /\ t \in Seq(S) /\ Len(t) = Len(s) + 1
      /\ \A i \in 1..Len(s) : t[i] = s[i]
      /\ t[Len(s) + 1] = e
  BY <1>1, AppendProperties
<1>3. Len(s) \in Nat /\ DOMAIN s = 1..Len(s) /\ DOMAIN t = 1..Len(t)
  BY <1>2, LenProperties
<1>4. QED BY <1>2, <1>3 DEF Appended

\* A reader of longer finds the value under name, and what it found before.
Adds(longer, tags, name, value) ==
  /\ FirstTag(longer, name) = value
  /\ \A other : other # name =>
       /\ Places(longer, other) = Places(tags, other)
       /\ FirstTag(longer, other) = FirstTag(tags, other)

\* A tag of a new name at the end is found, and hides no other.
LEMMA TagAppended ==
  ASSUME NEW tags, NEW longer, NEW name, NEW value,
         NEW tag, tag = <<name, value>>,
         Appended(tags, longer, tag), Places(tags, name) = {}
  PROVE  /\ Adds(longer, tags, name, value)
         /\ (Tagged(tags) /\ name # Blank /\ value # Blank) => Tagged(longer)
<1> PICK n \in Nat : /\ DOMAIN tags = 1..n /\ DOMAIN longer = 1..(n + 1)
                     /\ \A i \in 1..n : longer[i] = tags[i]
                     /\ longer[n + 1] = <<name, value>>
  BY DEF Appended
<1>1. longer[n + 1][1] = name /\ longer[n + 1][2] = value
  OBVIOUS
<1>2. Places(longer, name) = {n + 1}
  BY <1>1 DEF Places
<1>3. FirstTag(longer, name) = value
  BY <1>1, <1>2, SingleTag
<1>4. ASSUME NEW other, other # name
      PROVE  /\ Places(longer, other) = Places(tags, other)
             /\ FirstTag(longer, other) = FirstTag(tags, other)
  <2>1. Places(longer, other) = Places(tags, other)
    BY <1>1, <1>4 DEF Places
  <2> DEFINE P == Places(tags, other)
             first == CHOOSE i \in P : \A j \in P : i <= j
  <2>2. CASE P = {}
    BY <2>1, <2>2, MissingTag
  <2>3. CASE P # {}
    <3>1. P \subseteq Nat /\ P \subseteq 1..n
      BY DEF Places
    <3>2. \E i \in P : \A j \in P : i <= j
      <4> HIDE DEF P
      <4>1. QED BY <2>3, <3>1, NatMin
    <3>3. first \in P
      <4> HIDE DEF P
      <4>1. QED BY <3>2
    <3>4. first \in 1..n
      BY <3>1, <3>3
    <3>5. longer[first] = tags[first]
      <4> HIDE DEF first
      <4>1. QED BY <3>4
    <3>6. FirstTag(tags, other) = tags[first][2] /\ FirstTag(longer, other) = longer[first][2]
      BY <2>1, <2>3 DEF FirstTag, ValueAt
    <3>7. QED BY <2>1, <3>5, <3>6
  <2>4. QED BY <2>1, <2>2, <2>3
<1>5. ASSUME Tagged(tags), name # Blank, value # Blank PROVE Tagged(longer)
  <2>1. ASSUME NEW i \in 1..(n + 1) PROVE longer[i][1] # Blank /\ longer[i][2] # Blank
    <3>1. CASE i = n + 1
      BY <3>1, <1>1, <1>5
    <3>2. CASE i # n + 1
      <4>1. i \in 1..n
        BY <3>2
      <4>2. QED BY <4>1, <1>5 DEF Tagged
    <3>3. QED BY <3>1, <3>2
  <2>2. QED BY <2>1 DEF Tagged
<1>6. QED BY <1>3, <1>4, <1>5 DEF Adds

WithOptional(tags, name, value) == tags \o OptionalTag(name, value)

\* An optional tag of a new name is read as its value, which may be Blank.
LEMMA OptionalTagAppended ==
  ASSUME NEW S, NEW tags \in Seq(S), NEW name, NEW value, NEW tag \in S,
         tag = <<name, value>>, name # Blank, Places(tags, name) = {},
         NEW longer, longer = WithOptional(tags, name, value)
  PROVE  /\ longer \in Seq(S)
         /\ Adds(longer, tags, name, value)
         /\ Tagged(tags) => Tagged(longer)
<1>1. CASE value = Blank
  <2>1. longer = tags
    BY <1>1, ConcatEmptySeq DEF OptionalTag, WithOptional
  <2>2. QED BY <2>1, <1>1, MissingTag DEF Adds
<1>2. CASE value # Blank
  <2>1. longer = tags \o <<tag>>
    BY <1>2 DEF OptionalTag, WithOptional
  <2>2. longer \in Seq(S) /\ Appended(tags, longer, tag)
    BY <2>1, AppendedByConcat, Zenon
  <2>3. /\ Adds(longer, tags, name, value)
        /\ (Tagged(tags) /\ name # Blank /\ value # Blank) => Tagged(longer)
    BY <2>2, TagAppended, Zenon
  <2>4. QED BY <1>2, <2>2, <2>3, Zenon
<1>3. QED BY <1>1, <1>2

-----------------------------------------------------------------------------
(* Declarations. *)

\* The tags every declaration has.
RequiredTags(m) ==
  << <<"d", m.appID>>, <<"platforms", "linux">>, <<"platform", "yunohost">>,
     <<"repository", m.repository>>, <<"version", m.version>>,
     <<"commit", m.commit>>, <<"manifest", m.manifestHash>>,
     <<"content", m.contentHash>> >>

\* Where the required tags are.
LEMMA RequiredPlaces ==
  ASSUME NEW m
  PROVE  LET tags == RequiredTags(m) IN
         /\ Places(tags, "d") = {1} /\ Places(tags, "platforms") = {2}
         /\ Places(tags, "platform") = {3} /\ Places(tags, "repository") = {4}
         /\ Places(tags, "version") = {5} /\ Places(tags, "commit") = {6}
         /\ Places(tags, "manifest") = {7} /\ Places(tags, "content") = {8}
         /\ \A name \in {"repo", "package", "name", "category"} : Places(tags, name) = {}
         /\ \A name : name \notin WrittenNames => Places(tags, name) = {}
<1> DEFINE tags == RequiredTags(m)
<1>1. DOMAIN tags = 1..8
  BY DEF RequiredTags
<1>2. /\ tags[1][1] = "d" /\ tags[2][1] = "platforms" /\ tags[3][1] = "platform"
      /\ tags[4][1] = "repository" /\ tags[5][1] = "version" /\ tags[6][1] = "commit"
      /\ tags[7][1] = "manifest" /\ tags[8][1] = "content"
  BY DEF RequiredTags
<1> HIDE DEF tags
<1>3. \A name : name \notin WrittenNames => Places(tags, name) = {}
  <2>1. \A i \in 1..8 : i \in {1, 2, 3, 4, 5, 6, 7, 8}
    OBVIOUS
  <2>2. \A i \in {1, 2, 3, 4, 5, 6, 7, 8} : tags[i][1] \in WrittenNames
    BY <1>2 DEF WrittenNames
  <2>3. QED BY <1>1, <2>1, <2>2 DEF Places
<1>4. QED BY <1>1, <1>2, <1>3 DEF Places, tags

\* And what they say.
LEMMA RequiredValues ==
  ASSUME NEW m, NEW tags, tags = RequiredTags(m)
  PROVE  /\ FirstTag(tags, "d") = m.appID
         /\ FirstTag(tags, "platforms") = "linux"
         /\ FirstTag(tags, "platform") = "yunohost"
         /\ FirstTag(tags, "repository") = m.repository
         /\ FirstTag(tags, "version") = m.version
         /\ FirstTag(tags, "commit") = m.commit
         /\ FirstTag(tags, "manifest") = m.manifestHash
         /\ FirstTag(tags, "content") = m.contentHash
         /\ Blank \notin {m.appID, m.repository, m.version, m.commit, m.manifestHash,
                       m.contentHash} => Tagged(tags)
<1>1. /\ tags[1][2] = m.appID /\ tags[2][2] = "linux" /\ tags[3][2] = "yunohost"
      /\ tags[4][2] = m.repository /\ tags[5][2] = m.version /\ tags[6][2] = m.commit
      /\ tags[7][2] = m.manifestHash /\ tags[8][2] = m.contentHash
  BY DEF RequiredTags
<1>2. /\ tags[1][1] = "d" /\ tags[2][1] = "platforms" /\ tags[3][1] = "platform"
      /\ tags[4][1] = "repository" /\ tags[5][1] = "version" /\ tags[6][1] = "commit"
      /\ tags[7][1] = "manifest" /\ tags[8][1] = "content"
  BY DEF RequiredTags
<1>3. DOMAIN tags = 1..8
  BY DEF RequiredTags
<1>5. ASSUME Blank \notin {m.appID, m.repository, m.version, m.commit, m.manifestHash,
                        m.contentHash}
      PROVE  Tagged(tags)
  <2>1. \A i \in 1..8 : i \in {1, 2, 3, 4, 5, 6, 7, 8}
    OBVIOUS
  <2>2. ASSUME NEW i \in {1, 2, 3, 4, 5, 6, 7, 8}
        PROVE  tags[i][1] # Blank /\ tags[i][2] # Blank
    <3>1. QED BY <1>1, <1>2, <1>5, NamesAreNotBlank
  <2>3. QED BY <1>3, <2>1, <2>2 DEF Tagged
<1>6. /\ Places(tags, "d") = {1} /\ Places(tags, "platforms") = {2}
      /\ Places(tags, "platform") = {3} /\ Places(tags, "repository") = {4}
      /\ Places(tags, "version") = {5} /\ Places(tags, "commit") = {6}
      /\ Places(tags, "manifest") = {7} /\ Places(tags, "content") = {8}
  BY RequiredPlaces
<1>7. \A name : \A i \in 1..8 : Places(tags, name) = {i} => FirstTag(tags, name) = tags[i][2]
  BY SingleTag
<1>8. /\ FirstTag(tags, "d") = tags[1][2] /\ FirstTag(tags, "platforms") = tags[2][2]
      /\ FirstTag(tags, "platform") = tags[3][2]
      /\ FirstTag(tags, "repository") = tags[4][2]
      /\ FirstTag(tags, "version") = tags[5][2] /\ FirstTag(tags, "commit") = tags[6][2]
      /\ FirstTag(tags, "manifest") = tags[7][2]
      /\ FirstTag(tags, "content") = tags[8][2]
  <2>1. QED BY <1>6, <1>7
<1>9. QED BY <1>1, <1>5, <1>8, Zenon

LEMMA EightElements ==
  ASSUME NEW S, NEW a \in S, NEW b \in S, NEW c \in S, NEW d \in S,
         NEW e \in S, NEW f \in S, NEW g \in S, NEW h \in S
  PROVE  <<a, b, c, d, e, f, g, h>> \in Seq(S)
OBVIOUS

\* The same of three values.
AddsThree(longer, tags, n1, v1, n2, v2, n3, v3) ==
  /\ FirstTag(longer, n1) = v1 /\ FirstTag(longer, n2) = v2 /\ FirstTag(longer, n3) = v3
  /\ \A name : (name # n1 /\ name # n2 /\ name # n3) =>
       /\ Places(longer, name) = Places(tags, name)
       /\ FirstTag(longer, name) = FirstTag(tags, name)
  /\ Tagged(tags) => Tagged(longer)

\* Three optional tags, one after the other.
LEMMA ThreeOptionalTags ==
  ASSUME NEW S, NEW t0 \in Seq(S),
         NEW n1, NEW n2, NEW n3, NEW v1, NEW v2, NEW v3,
         <<n1, v1>> \in S, <<n2, v2>> \in S, <<n3, v3>> \in S,
         n1 # Blank, n2 # Blank, n3 # Blank, n1 # n2, n1 # n3, n2 # n3,
         Places(t0, n1) = {}, Places(t0, n2) = {}, Places(t0, n3) = {},
         NEW t3, t3 = WithOptional(WithOptional(WithOptional(t0, n1, v1), n2, v2), n3, v3)
  PROVE  AddsThree(t3, t0, n1, v1, n2, v2, n3, v3)
<1> DEFINE t1 == WithOptional(t0, n1, v1)
           t2 == WithOptional(t1, n2, v2)
<1>1. t1 \in Seq(S) /\ Adds(t1, t0, n1, v1) /\ (Tagged(t0) => Tagged(t1))
  BY OptionalTagAppended, Zenon
<1>2. Places(t1, n2) = {} /\ Places(t1, n3) = {}
  BY <1>1, Zenon DEF Adds
<1>3. t2 \in Seq(S) /\ Adds(t2, t1, n2, v2) /\ (Tagged(t1) => Tagged(t2))
  <2> HIDE DEF t1
  <2>1. QED BY <1>1, <1>2, OptionalTagAppended, Zenon
<1>4. Places(t2, n3) = {}
  BY <1>2, <1>3, Zenon DEF Adds
<1>5. t3 \in Seq(S) /\ Adds(t3, t2, n3, v3) /\ (Tagged(t2) => Tagged(t3))
  <2>1. t3 = WithOptional(t2, n3, v3)
    OBVIOUS
  <2> HIDE DEF t2
  <2>2. QED BY <1>3, <1>4, <2>1, OptionalTagAppended, Zenon
<1> HIDE DEF t1, t2
<1>6. QED BY <1>1, <1>3, <1>5 DEF Adds, AddsThree

\* What the builder has checked before it writes a tag.
Complete(m) ==
  Blank \notin {m.appID, m.repository, m.version, m.commit, m.manifestHash, m.contentHash}

\* A reader finds m in the tags.
ReadsMetadata(tags, m) ==
  /\ \A name \in {"d", "version", "commit", "manifest", "content"} :
       \E i \in DOMAIN tags : Places(tags, name) = {i}
  /\ \A name : name \notin WrittenNames => Places(tags, name) = {}
  /\ FirstTag(tags, "d") = m.appID
  /\ FirstTag(tags, "platform") = "yunohost"
  /\ FirstTag(tags, "repository") = m.repository
  /\ FirstTag(tags, "repo") = Blank
  /\ FirstTag(tags, "version") = m.version
  /\ FirstTag(tags, "commit") = m.commit
  /\ FirstTag(tags, "manifest") = m.manifestHash
  /\ FirstTag(tags, "content") = m.contentHash
  /\ FirstTag(tags, "package") = m.packagePath
  /\ FirstTag(tags, "name") = m.name
  /\ FirstTag(tags, "category") = m.category
  /\ Complete(m) => Tagged(tags)

\* The tags of a declaration: those and three optional ones, each found.
LEMMA BuiltTags ==
  ASSUME NEW m, NEW key, NEW now, NEW tags, tags = BuildDeclaration(m, key, now).tags
  PROVE  ReadsMetadata(tags, m)
<1> DEFINE t0 == RequiredTags(m)
           t1 == WithOptional(t0, "package", m.packagePath)
           t2 == WithOptional(t1, "name", m.name)
           t3 == WithOptional(t2, "category", m.category)
           S == {<<"d", m.appID>>, <<"platforms", "linux">>, <<"platform", "yunohost">>,
                 <<"repository", m.repository>>, <<"version", m.version>>,
                 <<"commit", m.commit>>, <<"manifest", m.manifestHash>>,
                 <<"content", m.contentHash>>, <<"package", m.packagePath>>,
                 <<"name", m.name>>, <<"category", m.category>>}
<1>1. tags = t3
  BY DEF BuildDeclaration, RequiredTags, WithOptional
<1>2. t0 \in Seq(S)
  <2>1. /\ <<"d", m.appID>> \in S /\ <<"platforms", "linux">> \in S
        /\ <<"platform", "yunohost">> \in S /\ <<"repository", m.repository>> \in S
        /\ <<"version", m.version>> \in S /\ <<"commit", m.commit>> \in S
        /\ <<"manifest", m.manifestHash>> \in S /\ <<"content", m.contentHash>> \in S
    OBVIOUS
  <2> HIDE DEF S
  <2>2. QED BY <2>1, EightElements, Zenon DEF RequiredTags
<1>3. /\ <<"package", m.packagePath>> \in S /\ <<"name", m.name>> \in S
      /\ <<"category", m.category>> \in S
      /\ "package" # Blank /\ "name" # Blank /\ "category" # Blank
  BY NamesAreNotBlank
<1>4. /\ Places(t0, "d") = {1} /\ Places(t0, "version") = {5} /\ Places(t0, "commit") = {6}
      /\ Places(t0, "manifest") = {7} /\ Places(t0, "content") = {8}
      /\ Places(t0, "repo") = {} /\ Places(t0, "package") = {}
      /\ Places(t0, "name") = {} /\ Places(t0, "category") = {}
      /\ \A name : name \notin WrittenNames => Places(t0, name) = {}
  BY RequiredPlaces
<1>5. /\ FirstTag(t0, "d") = m.appID /\ FirstTag(t0, "platform") = "yunohost"
      /\ FirstTag(t0, "repository") = m.repository
      /\ FirstTag(t0, "version") = m.version /\ FirstTag(t0, "commit") = m.commit
      /\ FirstTag(t0, "manifest") = m.manifestHash
      /\ FirstTag(t0, "content") = m.contentHash
      /\ Complete(m) => Tagged(t0)
  BY RequiredValues DEF Complete
<1>6. FirstTag(t0, "repo") = Blank
  BY <1>4, MissingTag
<1> HIDE DEF S
<1>7. /\ FirstTag(t3, "package") = m.packagePath
      /\ FirstTag(t3, "name") = m.name
      /\ FirstTag(t3, "category") = m.category
      /\ \A name : (name # "package" /\ name # "name" /\ name # "category") =>
           /\ Places(t3, name) = Places(t0, name)
           /\ FirstTag(t3, name) = FirstTag(t0, name)
      /\ Tagged(t0) => Tagged(t3)
  <2> DEFINE n1 == "package"       v1 == m.packagePath
             n2 == "name"          v2 == m.name
             n3 == "category"      v3 == m.category
  <2>1. /\ <<n1, v1>> \in S /\ <<n2, v2>> \in S /\ <<n3, v3>> \in S
        /\ n1 # Blank /\ n2 # Blank /\ n3 # Blank /\ n1 # n2 /\ n1 # n3 /\ n2 # n3
    BY <1>3
  <2>2. Places(t0, n1) = {} /\ Places(t0, n2) = {} /\ Places(t0, n3) = {}
    BY <1>4
  <2>3. t3 = WithOptional(WithOptional(WithOptional(t0, n1, v1), n2, v2), n3, v3)
    OBVIOUS
  <2> HIDE DEF t0, t3, n1, n2, n3, v1, v2, v3
  <2>4. AddsThree(t3, t0, n1, v1, n2, v2, n3, v3)
    BY <1>2, <2>1, <2>2, <2>3, ThreeOptionalTags, Zenon
  <2>5. QED BY <2>4 DEF AddsThree, n1, n2, n3, v1, v2, v3
<1> HIDE DEF t0, t3
<1>8. \A name \in {"d", "version", "commit", "manifest", "content"} :
        \E i \in DOMAIN t3 : Places(t3, name) = {i}
  <2>1. \A name, i : Places(t3, name) = {i} => i \in DOMAIN t3
    BY DEF Places
  <2>2. QED BY <1>4, <1>7, <2>1
<1>9. /\ FirstTag(t3, "d") = m.appID
      /\ FirstTag(t3, "platform") = "yunohost"
      /\ FirstTag(t3, "repository") = m.repository
      /\ FirstTag(t3, "repo") = Blank
      /\ FirstTag(t3, "version") = m.version
      /\ FirstTag(t3, "commit") = m.commit
      /\ FirstTag(t3, "manifest") = m.manifestHash
      /\ FirstTag(t3, "content") = m.contentHash
  BY <1>5, <1>6, <1>7
<1>10. \A name : name \notin WrittenNames => Places(t3, name) = {}
  BY <1>4, <1>7 DEF WrittenNames
<1>11. QED BY <1>1, <1>5, <1>7, <1>8, <1>9, <1>10 DEF ReadsMetadata

\* Looking for the beginning of a name in a declaration finds that name's tag.
LEMMA BeginningIsName ==
  ASSUME NEW tags, NEW m, ReadsMetadata(tags, m), NEW prefix \in {"version", "commit"}
  PROVE  /\ Beginning(tags, prefix) = Places(tags, prefix)
         /\ Beginning(tags, prefix) # {}
<1> DEFINE longer == LongerNames[prefix]
<1>1. \A name \in longer : name \notin WrittenNames
  BY LongerNamesAssumption
<1>2. \A name \in longer : Places(tags, name) = {}
  BY <1>1, Zenon DEF ReadsMetadata
<1>3. Places(tags, prefix) # {}
  <2>1. \E i : Places(tags, prefix) = {i}
    BY DEF ReadsMetadata
  <2>2. QED BY <2>1
<1>4. Beginning(tags, prefix) = Places(tags, prefix)
  <2> HIDE DEF longer
  <2>1. Beginning(tags, prefix) = UNION {Places(tags, name) : name \in {prefix} \cup longer}
    BY Zenon DEF Beginning, longer
  <2>2. QED BY <1>2, <2>1
<1>5. QED BY <1>3, <1>4

\* A declaration is read back field by field, whatever was declared.
THEOREM DeclarationReadBack ==
  ASSUME NEW m \in Metadata, NEW key, NEW now, NEW e, e = BuildDeclaration(m, key, now)
  PROVE  \A field \in DOMAIN m : ParseEvent(e)[field] = m[field]
<1> DEFINE tags == e.tags
           read == ParseEvent(e)
<1>1. tags = BuildDeclaration(m, key, now).tags
  OBVIOUS
<1>2. /\ e.kind = 32267 /\ e.content.name = m.name
      /\ e.content.architectures = m.architectures
  BY DEF BuildDeclaration, Store!AppDeclarationKind
<1>3. read = ParseDeclaration(e)
  BY <1>2 DEF ParseEvent, Store!NpackReleaseKind
<1>4. /\ FirstTag(tags, "d") = m.appID /\ FirstTag(tags, "repository") = m.repository
      /\ FirstTag(tags, "repo") = Blank /\ FirstTag(tags, "version") = m.version
      /\ FirstTag(tags, "commit") = m.commit /\ FirstTag(tags, "manifest") = m.manifestHash
      /\ FirstTag(tags, "content") = m.contentHash
      /\ FirstTag(tags, "package") = m.packagePath /\ FirstTag(tags, "name") = m.name
      /\ FirstTag(tags, "category") = m.category
  <2> HIDE DEF tags
  <2>1. ReadsMetadata(tags, m)
    BY <1>1, BuiltTags, Zenon
  <2>2. QED BY <2>1, Zenon DEF ReadsMetadata
<1>5. Either(tags, "repository", "repo") = m.repository
  BY <1>4 DEF Either
<1>6. /\ read.appID = m.appID /\ read.repository = m.repository
      /\ read.packagePath = m.packagePath /\ read.version = m.version
      /\ read.commit = m.commit /\ read.manifestHash = m.manifestHash
      /\ read.contentHash = m.contentHash /\ read.category = m.category
      /\ read.name = m.name /\ read.architectures = m.architectures
  BY <1>2, <1>3, <1>4, <1>5 DEF ParseDeclaration
<1>7. DOMAIN m = {"appID", "repository", "packagePath", "version", "commit",
                  "manifestHash", "contentHash", "category", "name", "architectures"}
  BY DEF Metadata
<1> HIDE DEF read
<1>8. QED BY <1>6, <1>7 DEF read

\* What the parser asks of the rest of a declaration.
LEMMA DeclarationForm ==
  ASSUME NEW m, NEW key, NEW now, NEW e, e = BuildDeclaration(m, key, now)
  PROVE  /\ e.id = now /\ e.kind = 32267 /\ e.pubkey = key /\ e.createdAt = now
         /\ e.signed /\ e.content.object
         /\ Either(e.tags, "repository", "repo") = m.repository
         /\ Either(e.tags, "platform", "platforms") = "yunohost"
<1>1. e.id = now /\ e.kind = 32267 /\ e.pubkey = key /\ e.createdAt = now
  BY DEF BuildDeclaration, Store!AppDeclarationKind
<1>2. e.signed /\ e.content.object
  BY Zenon DEF BuildDeclaration
<1>3. /\ FirstTag(e.tags, "repository") = m.repository
      /\ FirstTag(e.tags, "repo") = Blank /\ FirstTag(e.tags, "platform") = "yunohost"
  <2> DEFINE tags == e.tags
  <2>1. tags = BuildDeclaration(m, key, now).tags
    OBVIOUS
  <2> HIDE DEF tags
  <2>2. ReadsMetadata(tags, m)
    BY <2>1, BuiltTags, Zenon
  <2>3. QED BY <2>2, Zenon DEF ReadsMetadata, tags
<1>4. /\ Either(e.tags, "repository", "repo") = m.repository
      /\ Either(e.tags, "platform", "platforms") = "yunohost"
  BY <1>3, NamesAreNotBlank, Zenon DEF Either
<1>5. QED BY <1>1, <1>2, <1>4

\* What the parser's patterns ask of metadata that the builder takes.
Readable(m) ==
  m.appID \in AppIDs /\ m.commit \in Commits /\ m.packagePath \in PackagePaths \cup {Blank}

\* Metadata that the builder takes and the parser's patterns match is read.
THEOREM ProperDeclarationParses ==
  ASSUME NEW m, NEW key, NEW now, now \in Nat \ {0},
         ValidMetadata(m), Readable(m),
         NEW e, e = BuildDeclaration(m, key, now)
  PROVE  ParsesEvent(e)
<1> DEFINE tags == e.tags
<1>1. /\ m.repository \in Repositories /\ m.manifestHash \in Hashes
      /\ m.contentHash \in Hashes /\ m.repository # Blank
      /\ Blank \notin {m.appID, m.repository, m.version, m.commit, m.manifestHash,
                       m.contentHash}
  BY PatternsAssumption DEF ValidMetadata
<1>2. tags = BuildDeclaration(m, key, now).tags
  OBVIOUS
<1>3. /\ FirstTag(tags, "d") = m.appID /\ FirstTag(tags, "commit") = m.commit
      /\ FirstTag(tags, "manifest") = m.manifestHash
      /\ FirstTag(tags, "content") = m.contentHash
      /\ FirstTag(tags, "package") = m.packagePath
      /\ \A name \in {"d", "version", "commit", "manifest", "content"} :
           \E i \in DOMAIN tags : Places(tags, name) = {i}
      /\ Tagged(tags)
  <2> HIDE DEF tags
  <2>1. Complete(m)
    BY <1>1, Zenon DEF Complete
  <2>2. ReadsMetadata(tags, m)
    BY <1>2, BuiltTags, Zenon
  <2>3. QED BY <2>1, <2>2, Zenon DEF ReadsMetadata
<1>4. /\ e.kind = 32267 /\ e.createdAt = now /\ e.content.object
      /\ Either(tags, "repository", "repo") = m.repository
      /\ Either(tags, "platform", "platforms") = "yunohost"
  BY DeclarationForm
<1>5. ParsesTags(tags)
  <2> HIDE DEF tags
  <2>1. Either(tags, "platform", "platforms") # Blank
    BY <1>4, NamesAreNotBlank
  <2>2. Either(tags, "repository", "repo") # Blank
    BY <1>1, <1>4
  <2>3. QED BY <1>3, <2>1, <2>2 DEF ParsesTags
<1>6. ParsesDeclaration(e)
  <2>1. e.kind \in {Store!AppDeclarationKind, Store!LegacyAppDeclarationKind}
    BY <1>4 DEF Store!AppDeclarationKind
  <2>2. Either(tags, "platform", "platforms") \in {"yunohost", "linux"}
    BY <1>4
  <2>3. {FirstTag(tags, "manifest"), FirstTag(tags, "content")} \subseteq Hashes
    BY <1>1, <1>3
  <2>4. e.createdAt > 0
    BY <1>4
  <2>5. /\ FirstTag(tags, "d") \in AppIDs /\ FirstTag(tags, "commit") \in Commits
        /\ FirstTag(tags, "package") \in PackagePaths \cup {Blank}
    BY <1>3 DEF Readable
  <2>6. Either(tags, "repository", "repo") \in Repositories
    BY <1>1, <1>4
  <2>7. e.content.object
    BY <1>4
  <2>8. QED BY <1>5, <2>1, <2>2, <2>3, <2>4, <2>5, <2>6, <2>7 DEF ParsesDeclaration
<1>7. e.kind # Store!NpackReleaseKind
  BY <1>4 DEF Store!NpackReleaseKind
<1>8. QED BY <1>6, <1>7, Zenon DEF ParsesEvent

-----------------------------------------------------------------------------
(* Attestations. *)

\* The tags of an attestation, whose identifier is the address.
Verdict(tags, r, address) ==
  /\ DOMAIN tags = 1..9
  /\ \A i, j \in 1..9 : tags[i][1] = tags[j][1] => i = j
  /\ \A i \in 1..9 : tags[i][1] # Blank
  /\ tags[1] = <<"d", address>>
  /\ tags[2] = <<"app_id", r.appID>> /\ tags[3] = <<"repo", r.repository>>
  /\ tags[4] = <<"commit", r.commit>> /\ tags[5] = <<"manifest", r.manifest>>
  /\ tags[6] = <<"content", r.content>> /\ tags[7] = <<"ci_provider", "ci">>
  /\ tags[8] = <<"ci_ref", "run">> /\ tags[9] = <<"result", r.result>>

LEMMA NineTags ==
  ASSUME NEW r, NEW address, NEW tags,
         tags = << <<"d", address>>, <<"app_id", r.appID>>,
                   <<"repo", r.repository>>, <<"commit", r.commit>>,
                   <<"manifest", r.manifest>>, <<"content", r.content>>,
                   <<"ci_provider", "ci">>, <<"ci_ref", "run">>, <<"result", r.result>> >>
  PROVE  Verdict(tags, r, address)
<1>1. DOMAIN tags = 1..9
  OBVIOUS
<1>2. /\ tags[1] = <<"d", address>>
      /\ tags[2] = <<"app_id", r.appID>> /\ tags[3] = <<"repo", r.repository>>
      /\ tags[4] = <<"commit", r.commit>> /\ tags[5] = <<"manifest", r.manifest>>
      /\ tags[6] = <<"content", r.content>> /\ tags[7] = <<"ci_provider", "ci">>
      /\ tags[8] = <<"ci_ref", "run">> /\ tags[9] = <<"result", r.result>>
  OBVIOUS
<1>3. /\ tags[1][1] = "d" /\ tags[2][1] = "app_id" /\ tags[3][1] = "repo"
      /\ tags[4][1] = "commit" /\ tags[5][1] = "manifest" /\ tags[6][1] = "content"
      /\ tags[7][1] = "ci_provider" /\ tags[8][1] = "ci_ref" /\ tags[9][1] = "result"
  BY <1>2
<1>4. \A i \in 1..9 : i \in {1, 2, 3, 4, 5, 6, 7, 8, 9}
  OBVIOUS
<1>5. \A i, j \in 1..9 : tags[i][1] = tags[j][1] => i = j
  BY <1>3, <1>4
<1>6. \A i \in 1..9 : tags[i][1] # Blank
  BY <1>3, <1>4, NamesAreNotBlank
<1>7. QED BY <1>1, <1>2, <1>5, <1>6, Zenon DEF Verdict

LEMMA VerdictTags ==
  ASSUME NEW r, NEW key, NEW now, NEW tags, tags = BuildAttestation(r, key, now).tags,
         NEW address, address = r.appID \o ":" \o r.commit
  PROVE  Verdict(tags, r, address)
BY NineTags, Zenon DEF BuildAttestation

\* And what a reader finds in them.
VerdictRead(tags, r, address) ==
  /\ FirstTag(tags, "d") = address /\ FirstTag(tags, "app_id") = r.appID
  /\ FirstTag(tags, "repo") = r.repository /\ FirstTag(tags, "commit") = r.commit
  /\ FirstTag(tags, "manifest") = r.manifest
  /\ FirstTag(tags, "content") = r.content
  /\ FirstTag(tags, "ci_provider") = "ci" /\ FirstTag(tags, "ci_ref") = "run"
  /\ FirstTag(tags, "result") = r.result
  /\ \A i, j \in DOMAIN tags : tags[i][1] = tags[j][1] => i = j
  /\ Blank \notin {address, r.appID, r.repository, r.commit, r.manifest, r.content,
                   r.result} => Tagged(tags)

LEMMA VerdictValues ==
  ASSUME NEW tags, NEW r, NEW address, Verdict(tags, r, address)
  PROVE  VerdictRead(tags, r, address)
<1>1. /\ DOMAIN tags = 1..9
      /\ \A i, j \in 1..9 : tags[i][1] = tags[j][1] => i = j
      /\ \A i \in 1..9 : tags[i][1] # Blank
      /\ tags[1] = <<"d", address>>
      /\ tags[2] = <<"app_id", r.appID>> /\ tags[3] = <<"repo", r.repository>>
      /\ tags[4] = <<"commit", r.commit>> /\ tags[5] = <<"manifest", r.manifest>>
      /\ tags[6] = <<"content", r.content>> /\ tags[7] = <<"ci_provider", "ci">>
      /\ tags[8] = <<"ci_ref", "run">> /\ tags[9] = <<"result", r.result>>
  BY Zenon DEF Verdict
<1>2. /\ tags[1][1] = "d" /\ tags[2][1] = "app_id" /\ tags[3][1] = "repo"
      /\ tags[4][1] = "commit" /\ tags[5][1] = "manifest" /\ tags[6][1] = "content"
      /\ tags[7][1] = "ci_provider" /\ tags[8][1] = "ci_ref" /\ tags[9][1] = "result"
      /\ tags[1][2] = address /\ tags[2][2] = r.appID /\ tags[3][2] = r.repository
      /\ tags[4][2] = r.commit /\ tags[5][2] = r.manifest /\ tags[6][2] = r.content
      /\ tags[7][2] = "ci" /\ tags[8][2] = "run" /\ tags[9][2] = r.result
  BY <1>1
<1>3. \A i, j \in 1..9 : tags[i][1] = tags[j][1] => i = j
  BY <1>1
<1>4. ASSUME NEW i \in 1..9 PROVE FirstTag(tags, tags[i][1]) = tags[i][2]
  <2>1. Places(tags, tags[i][1]) = {i}
    BY <1>1 DEF Places
  <2>2. QED BY <2>1, SingleTag
<1>5. /\ FirstTag(tags, "d") = address /\ FirstTag(tags, "app_id") = r.appID
      /\ FirstTag(tags, "repo") = r.repository /\ FirstTag(tags, "commit") = r.commit
      /\ FirstTag(tags, "manifest") = r.manifest
      /\ FirstTag(tags, "content") = r.content
      /\ FirstTag(tags, "ci_provider") = "ci" /\ FirstTag(tags, "ci_ref") = "run"
      /\ FirstTag(tags, "result") = r.result
  BY <1>2, <1>4
<1>6. ASSUME Blank \notin {address, r.appID, r.repository, r.commit, r.manifest,
                          r.content, r.result}
      PROVE  Tagged(tags)
  <2>1. \A i \in 1..9 : i \in {1, 2, 3, 4, 5, 6, 7, 8, 9}
    OBVIOUS
  <2>2. \A i \in {1, 2, 3, 4, 5, 6, 7, 8, 9} : tags[i][2] # Blank
    BY <1>2, <1>6, NamesAreNotBlank
  <2>3. QED BY <1>1, <2>1, <2>2 DEF Tagged
<1>7. QED BY <1>1, <1>3, <1>5, <1>6 DEF VerdictRead

\* An attestation is read back field by field, whatever was attested.
ReadsVerdict(read, r, key, now) ==
  /\ read.id = now /\ read.pubkey = key /\ read.createdAt = now
  /\ read.appID = r.appID /\ read.repo = r.repository /\ read.commit = r.commit
  /\ read.manifest = r.manifest /\ read.content = r.content
  /\ read.passed = {name \in DOMAIN r.checks : r.checks[name] = "pass"}
  /\ read.result = r.result

\* What Parse reads of an attestation that Build has made is what the verifier
\* had found, whatever it was.
THEOREM AttestationReadBack ==
  ASSUME NEW r, NEW key, NEW now, NEW a, a = BuildAttestation(r, key, now),
         NEW read, read = ReadAttestation(a)
  PROVE  ReadsVerdict(read, r, key, now)
<1>1. /\ a.id = now /\ a.pubkey = key /\ a.createdAt = now /\ a.checks = r.checks
      /\ a.tags = BuildAttestation(r, key, now).tags
  BY Zenon DEF BuildAttestation
<1> DEFINE tags == a.tags
<1>2. /\ FirstTag(tags, "app_id") = r.appID /\ FirstTag(tags, "repo") = r.repository
      /\ FirstTag(tags, "commit") = r.commit /\ FirstTag(tags, "manifest") = r.manifest
      /\ FirstTag(tags, "content") = r.content /\ FirstTag(tags, "result") = r.result
  <2> DEFINE address == r.appID \o ":" \o r.commit
  <2>1. tags = BuildAttestation(r, key, now).tags
    BY <1>1, Zenon
  <2> HIDE DEF tags
  <2>2. Verdict(tags, r, address)
    BY <2>1, VerdictTags, Zenon
  <2> HIDE DEF address
  <2>3. QED BY <2>2, VerdictValues, Zenon DEF VerdictRead
<1>3. /\ read.id = a.id /\ read.pubkey = a.pubkey /\ read.createdAt = a.createdAt
      /\ read.appID = FirstTag(tags, "app_id") /\ read.repo = FirstTag(tags, "repo")
      /\ read.commit = FirstTag(tags, "commit")
      /\ read.manifest = FirstTag(tags, "manifest")
      /\ read.content = FirstTag(tags, "content")
      /\ read.passed = {name \in DOMAIN a.checks : a.checks[name] = "pass"}
      /\ read.result = FirstTag(tags, "result")
  BY Zenon DEF ReadAttestation
<1>4. QED BY <1>1, <1>2, <1>3, Zenon DEF ReadsVerdict

\* What Build takes, Parse takes: the revision's address aside, which is never
\* empty because of its colon.
THEOREM AttestationParses ==
  ASSUME NEW r, NEW key, NEW now, now \in Nat \ {0},
         ValidAttestation(r), r.appID \o ":" \o r.commit # Blank,
         NEW a, a = BuildAttestation(r, key, now)
  PROVE  ParsesAttestation(a) /\ Store!ParsesAttestation(ReadAttestation(a))
<1> DEFINE address == r.appID \o ":" \o r.commit
           tags == a.tags
           read == ReadAttestation(a)
<1>1. /\ a.kind = AttestationKind /\ a.createdAt = now /\ a.checks = r.checks
      /\ tags = BuildAttestation(r, key, now).tags
  BY Zenon DEF BuildAttestation
<1>2. a.signed
  BY Zenon DEF BuildAttestation
<1>3. address # Blank
  OBVIOUS
<1>4. /\ FirstTag(tags, "d") = address /\ FirstTag(tags, "app_id") = r.appID
      /\ FirstTag(tags, "repo") = r.repository /\ FirstTag(tags, "commit") = r.commit
      /\ FirstTag(tags, "manifest") = r.manifest
      /\ FirstTag(tags, "content") = r.content
      /\ FirstTag(tags, "ci_provider") = "ci" /\ FirstTag(tags, "ci_ref") = "run"
      /\ FirstTag(tags, "result") = r.result
      /\ \A i, j \in DOMAIN tags : tags[i][1] = tags[j][1] => i = j
      /\ Blank \notin {address, r.appID, r.repository, r.commit, r.manifest, r.content,
                       r.result} => Tagged(tags)
  <2> HIDE DEF tags
  <2>1. Verdict(tags, r, address)
    BY <1>1, VerdictTags, Zenon
  <2> HIDE DEF address
  <2>2. QED BY <2>1, VerdictValues, Zenon DEF VerdictRead
<1>5. FirstTag(tags, "d")
        = FirstTag(tags, "app_id") \o ":" \o FirstTag(tags, "commit")
  BY <1>4, Zenon
<1> HIDE DEF address
<1>6. /\ r.appID # Blank /\ r.repository # Blank /\ r.commit # Blank
      /\ r.manifest # Blank /\ r.content # Blank
      /\ r.commit \in Commits /\ r.manifest \in Hashes /\ r.content \in Hashes
      /\ r.result \in Verdicts /\ ValidChecks(r.checks)
  BY PatternsAssumption DEF ValidAttestation
<1>7. r.result # Blank
  <2>1. "pass" # Blank /\ "fail" # Blank /\ "error" # Blank
    BY Zenon DEF Blank
  <2>2. QED BY <1>6, <2>1 DEF Verdicts
<1> HIDE DEF tags
<1>8. Tagged(tags)
  BY <1>3, <1>4, <1>6, <1>7
<1>9. \A name \in AttestationTags : FirstTag(tags, name) # Blank
  BY <1>3, <1>4, <1>6, <1>7, NamesAreNotBlank DEF AttestationTags
<1>10. {FirstTag(tags, "manifest"), FirstTag(tags, "content")} \subseteq Hashes
  BY <1>4, <1>6
<1>11. a.createdAt > 0
  BY <1>1
<1>12. ParsesAttestation(a)
  BY <1>1, <1>2, <1>4, <1>5, <1>6, <1>8, <1>9, <1>10, <1>11, Zenon
     DEF ParsesAttestation, tags
<1>13. /\ read.createdAt = now /\ read.manifest = r.manifest
       /\ read.content = r.content
  <2>1. ReadsVerdict(read, r, key, now)
    BY AttestationReadBack, Zenon
  <2> HIDE DEF read
  <2>2. QED BY <2>1, Zenon DEF ReadsVerdict
<1>14. read.signed /\ read.wellFormed
  BY <1>2, <1>12, Zenon DEF ReadAttestation
<1>15. read.createdAt > 0 /\ read.manifest # "" /\ read.content # ""
  BY <1>1, <1>6, <1>11, <1>13, Zenon DEF Blank
<1>16. QED BY <1>12, <1>14, <1>15, Zenon DEF Store!ParsesAttestation
=============================================================================
