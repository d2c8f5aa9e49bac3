--------------------------- MODULE MCPublication ---------------------------
(***************************************************************************)
(* Three publishers of one app, two verifiers and three curators.  The     *)
(* first publisher declares two revisions and one whose commit no parser   *)
(* takes; it has a release by npack, a declaration of the legacy kind and  *)
(* one another tool wrote, with tags whose names begin with those of the   *)
(* revision, besides.  The release's repository is one no result file may  *)
(* name.                                                                   *)
(***************************************************************************)
EXTENDS Publication

Revision(commit, path, name) ==
  [appID |-> "app", repository |-> "https", packagePath |-> path, version |-> "v" \o commit,
   commit |-> commit, manifestHash |-> "sha256:m", contentHash |-> "sha256:h",
   category |-> name, name |-> name, architectures |-> {"x86_64"}]

MCDeclaring ==
  {[key |-> 1, metadata |-> Revision("c1", "dir", "App")],
   [key |-> 1, metadata |-> Revision("c2", "", "")],
   [key |-> 1, metadata |-> Revision("HEAD", "", "")],
   [key |-> 2, metadata |-> Revision("c2", "", "")],
   [key |-> 3, metadata |-> Revision("c1", "", "")]}

NoContent == [object |-> FALSE, name |-> "", architectures |-> {}]

MCForeign ==
  {[kind |-> 9900, pubkey |-> 1, content |-> NoContent,
    tags |-> << <<"", "">>, <<"d", "app/1/x86_64">>, <<"name", "app">>, <<"version", "1">>,
                <<"repo", "30617">>, <<"commit", "c1">>, <<"x", "h">> >>],
   [kind |-> 30078, pubkey |-> 1, content |-> [NoContent EXCEPT !.object = TRUE],
    tags |-> << <<"d", "app">>, <<"platform", "yunohost">>, <<"repo", "https">>,
                <<"version", "1">>, <<"commit", "c1">>, <<"manifest", "sha256:m">>,
                <<"content", "sha256:h">> >>],
   [kind |-> 32267, pubkey |-> 1, content |-> [NoContent EXCEPT !.object = TRUE],
    tags |-> << <<"version_code", "7">>, <<"d", "app">>, <<"platform", "linux">>,
                <<"repository", "https">>, <<"version", "2">>, <<"commit_time", "9">>,
                <<"commit", "c2">>, <<"manifest", "sha256:m">>,
                <<"content", "sha256:h">> >>]}

MCLongerNames ==
  [prefix \in {"version", "commit"} |->
     IF prefix = "version" THEN {"version_code"} ELSE {"commit_time"}]

Result(commit, repository, lint, result) ==
  [schema |-> 1, appID |-> "app", repository |-> repository, commit |-> commit,
   manifest |-> "sha256:m", content |-> "sha256:h",
   checks |-> [name \in {"lint", "install"} |-> IF name = "lint" THEN lint ELSE "pass"],
   result |-> result]

MCTesting ==
  {[key |-> 8, file |-> TRUE, result |-> Result("c1", "https", "pass", "pass")],
   [key |-> 8, file |-> TRUE, result |-> Result("c1", "https", "skip", "fail")],
   [key |-> 8, file |-> TRUE, result |-> Result("c1", "30617", "fail", "pass")],
   [key |-> 8, file |-> FALSE, result |-> Result("c1", "30617", "pass", "pass")],
   [key |-> 9, file |-> TRUE, result |-> Result("c1", "https", "fail", "pass")],
   [key |-> 9, file |-> TRUE, result |-> Result("c2", "https", "pass", "pass")]}

MCEndorsing ==
  {[key |-> 5, claim |-> "recommend"], [key |-> 6, claim |-> "tested"],
   [key |-> 7, claim |-> "avoid"]}

MCCurationPolicies ==
  [trustedCurators : {{5, 7}, {5, 6, 7}}, minimumEndorsements : {0, 1, 2}]

MCInstallPolicies ==
  [mode : {"require"}, minimum : {0, 2}, requiredChecks : {{}, {"lint"}},
   trustedVerifiers : {{}, {8, 9}}]
=============================================================================
