----------------------------- MODULE SecretSpec -----------------------------
(***************************************************************************)
(* The launcher's `secrets:check` (internal/cli): secretspec.toml is read  *)
(* line by line, and the secrets the active profile asks for and nobody    *)
(* has are reported.  Between checks the user writes the file.             *)
(*                                                                         *)
(* A line is its key and its value: a section, or a key of one.  A list    *)
(* that is broken over several lines is read as the empty one, and "true"  *)
(* with a comment behind it as FALSE; a default is whether it has a text.  *)
(* Comments and keys that are not looked at are left out.                  *)
(***************************************************************************)
EXTENDS Naturals, Sequences, FiniteSetsExt

CONSTANTS
  Names,         \* of secrets
  SpecProfiles,  \* the profiles a check is asked for, "ci" among them
  SpecLines,     \* the lines the user writes
  MaxLines       \* bound: lines of the file

Flags == {"required", "ci_only", "default_dev"}

ASSUME SecretAssumption ==
  /\ "other" \notin Names /\ MaxLines \in Nat
  /\ SpecLines \subseteq ({"section"} \X (Names \cup {"other"}))
                           \cup (Flags \X BOOLEAN) \cup ({"profiles"} \X SUBSET SpecProfiles)

VARIABLES
  spec,    \* the lines of the file
  read,    \* what parseToml has of them: the lines behind it, the secrets stored and
           \* the entry under way with its name
  report   \* of the last check, or none

secretVars == <<spec, read, report>>

NoReport == [missing |-> {}]

-----------------------------------------------------------------------------

\* An entry no key was read of: any profile may ask for it.
Blank == [required |-> FALSE, ci_only |-> FALSE, default_dev |-> FALSE, profiles |-> SpecProfiles]

Unread == [at |-> 0, secrets |-> [n \in {} |-> Blank], name |-> "other", entry |-> Blank]

\* The entry under way is over; a section that is not one of a secret has none.
Stored(r) ==
  IF r.name = "other" THEN r.secrets
  ELSE [n \in DOMAIN r.secrets \cup {r.name} |-> IF n = r.name THEN r.entry ELSE r.secrets[n]]

\* Mutant: a section that is not one of a secret does not end the entry before it.
ReadOn(r, line) ==
  IF line[1] # "section" THEN (IF r.name = "other" THEN r ELSE [r EXCEPT !.entry[line[1]] = line[2]])
  ELSE IF line[2] = "other" THEN r
  ELSE [r EXCEPT !.secrets = Stored(r), !.name = line[2], !.entry = Blank]

\* One turn of the loop of parseToml: a section ends the entry before it, and a key counts
\* for the entry it stands in.
ReadLine(r, line) ==
  IF line[1] = "section" THEN [r EXCEPT !.secrets = Stored(r), !.name = line[2], !.entry = Blank]
  ELSE IF r.name = "other" THEN r
  ELSE [r EXCEPT !.entry[line[1]] = line[2]]

\* checkSecretspec
MissingSecrets(secrets, profile, env) ==
  {n \in DOMAIN secrets :
     LET e == secrets[n] IN
     /\ e.ci_only => profile = "ci"
     /\ profile \in e.profiles
     /\ e.required /\ ~e.default_dev /\ n \notin env}

SecretInit == spec = <<>> /\ read = Unread /\ report = NoReport

ParseToml ==
  /\ read.at < Len(spec)
  /\ read' = [ReadLine(read, spec[read.at + 1]) EXCEPT !.at = read.at + 1]
  /\ UNCHANGED <<spec, report>>

\* What was read of a file that nobody wrote since is what another check reads of it.
Check(profile, env) ==
  /\ read.at = Len(spec)
  /\ report' = [profile |-> profile, env |-> env, missing |-> MissingSecrets(Stored(read), profile, env)]
  /\ UNCHANGED <<spec, read>>

\* A check has the whole file in memory: the user writes before or after it.
WriteLine(line) ==
  /\ Len(spec) < MaxLines /\ read.at \in {0, Len(spec)}
  /\ spec' = Append(spec, line)
  /\ read' = Unread /\ report' = NoReport

SecretNext ==
  \/ ParseToml
  \/ \E profile \in SpecProfiles, env \in SUBSET Names : Check(profile, env)
  \/ \E line \in SpecLines : WriteLine(line)

SecretSpecification == SecretInit /\ [][SecretNext]_secretVars

-----------------------------------------------------------------------------

\* The last section of a secret in a text, and the last of its lines with a key.
Sections(text, n) == {i \in DOMAIN text : text[i] = <<"section", n>>}
Body(text, n) ==
  {i \in DOMAIN text : \E s \in Sections(text, n) :
     /\ \A t \in Sections(text, n) : t <= s
     /\ s < i /\ \A j \in s + 1..i : text[j][1] # "section"}
Says(text, n, key, unsaid) ==
  LET lines == {i \in Body(text, n) : text[i][1] = key} IN
  IF lines = {} THEN unsaid ELSE text[Max(lines)][2]

\* A check reports just the secrets whose last section, read by itself, requires them of
\* the profile without a default, and that the environment lacks: no key counts for the
\* secret of another section, none is lost at the end of the file, and a section written
\* twice counts once (the pending entry of parseToml, secrets.ts:24-64).
ReportIsOfSpec ==
  report # NoReport =>
    report.missing =
      {n \in Names \ report.env :
         /\ Says(spec, n, "required", FALSE) /\ ~Says(spec, n, "default_dev", FALSE)
         /\ report.profile \in Says(spec, n, "profiles", SpecProfiles)
         /\ Says(spec, n, "ci_only", FALSE) => report.profile = "ci"}
=============================================================================
