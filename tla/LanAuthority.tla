---------------------------- MODULE LanAuthority ----------------------------
(***************************************************************************)
(* How `mcpscan lan` comes to hold an authorization: the manifest is read  *)
(* once (cli._run_lan), parsed (lan/manifest.py), held against the clock   *)
(* and its signature verified (lan/verify.py), while its files may be      *)
(* replaced.  LanRun takes it from there, with the verdict as a gate.      *)
(***************************************************************************)
EXTENDS Sequences, Naturals

CONSTANTS
  Operator,    \* identities
  Key,         \* their keys
  MaxEdits,    \* bound: files replaced during a run
  Absent

Scheme == {"ssh", "ed25519"}

(* What a manifest says, field by field, in the order of the checks.       *)
Sound(field) ==
  CASE field = "toml"             -> {"valid"}
    [] field = "authorization_id" -> {"text"}
    [] field = "operator"         -> Operator
    [] field = "expires_at"       -> {"later", "past"}
    [] field = "targets"          -> {"named"}
    [] field = "ports"            -> {"in range"}
    [] field = "signature"        -> Scheme

(* "edge" is an instant that has no UTC counterpart in years 1 to 9999.    *)
Unsound(field) ==
  CASE field = "toml"             -> {"not utf-8", "syntax error", "deep", "long integer"}
    [] field = "authorization_id" -> {"blank"}
    [] field = "operator"         -> {"blank"}
    [] field = "expires_at"       -> {"no zone", "no date", "edge"}
    [] field = "targets"          -> {"none", "blank"}
    [] field = "ports"            -> {"none", "out of range"}
    [] field = "signature"        -> {"other"}

Fields == <<"toml", "authorization_id", "operator", "expires_at", "targets", "ports", "signature">>
Field == {Fields[i] : i \in DOMAIN Fields}

(* The fields of m that are not as they should be.                         *)
Flaws(m) == {f \in Field : m[f] \notin Sound(f)}

(* A detached signature: whose, over which manifest, and of which kind: an *)
(* ssh signature may have been made for another namespace.                 *)
Kind == Scheme \cup {"ssh elsewhere", "not base64"}

(* The lines of an allowed-signers file.                                   *)
Line == [who : Operator, key : Key \cup {"malformed"}]
Undecodable == << [who |-> "not utf-8", key |-> "malformed"] >>

CONSTANTS
  ManifestFiles,   \* manifests to begin with, and to replace others by, or Absent
  Signatures,      \* [by : Key, over : manifests, kind : Kind], or Absent
  SignerFiles      \* sequences of lines, Undecodable, or Absent

ASSUME AuthorityAssumption ==
  /\ \A m \in ManifestFiles \ {Absent} : \A f \in Field : m[f] \in Sound(f) \cup Unsound(f)
  /\ Signatures \subseteq [by : Key, over : ManifestFiles, kind : Kind] \cup {Absent}
  /\ SignerFiles \subseteq Seq(Line) \cup {Undecodable, Absent}

VARIABLES
  file,      \* the three files
  seen,      \* history: what they held since the run began
  args,      \* [signers, policy]: whether and how they were given
  pc,        \* "read", "policy", "parse", "verify", "signature", "signers", "judge",
             \* "granted", "refused" or "raised"
  manifest,  \* the bytes that were read
  signature, \* the signature that was read
  signers,   \* the allowed signers that were read
  edits

vars == <<file, seen, args, pc, manifest, signature, signers, edits>>

Init ==
  /\ file \in [manifest : ManifestFiles, signature : Signatures, signers : SignerFiles]
  /\ seen = [f \in DOMAIN file |-> {file[f]}]
  /\ args \in [signers : BOOLEAN, policy : {"none or sound", "unsound"}]
  /\ pc = "read"
  /\ manifest = Absent /\ signature = Absent /\ signers = Absent /\ edits = 0

Over == pc \in {"granted", "refused", "raised"}

Replace ==
  /\ ~Over /\ edits < MaxEdits
  /\ \E f \in DOMAIN file :
       \E new \in (CASE f = "manifest" -> ManifestFiles [] f = "signature" -> Signatures
                     [] f = "signers" -> SignerFiles) \ {file[f]} :
         /\ file' = [file EXCEPT ![f] = new]
         /\ seen' = [seen EXCEPT ![f] = @ \cup {new}]
  /\ edits' = edits + 1
  /\ UNCHANGED <<args, pc, manifest, signature, signers>>

----------------------------------------------------------------------------
ReadManifest ==
  /\ pc = "read"
  /\ manifest' = file.manifest
  /\ pc' = IF manifest' = Absent THEN "refused" ELSE "policy"
  /\ UNCHANGED <<file, seen, args, signature, signers, edits>>

(* The enterprise policy, if there is one: read and validated, or refused. *)
LoadPolicy ==
  /\ pc = "policy"
  /\ pc' = IF args.policy = "unsound" THEN "refused" ELSE "parse"
  /\ UNCHANGED <<file, seen, args, manifest, signature, signers, edits>>

(* The first unsound field is the error.  What no handler knows is raised: *)
(* a nesting beyond the recursion limit, an integer beyond the digit limit *)
(* and an instant that astimezone overflows.                               *)
FirstFlaw(m) ==
  LET i == CHOOSE i \in DOMAIN Fields :
             /\ Fields[i] \in Flaws(m)
             /\ \A j \in 1..(i - 1) : Fields[j] \notin Flaws(m)
  IN  m[Fields[i]]

LoadManifest ==
  /\ pc = "parse"
  /\ pc' = CASE Flaws(manifest) = {} -> IF manifest.expires_at = "past" THEN "refused" ELSE "verify"
              [] FirstFlaw(manifest) \in {"deep", "long integer", "edge"} -> "raised"
              [] OTHER -> "refused"
  /\ UNCHANGED <<file, seen, args, manifest, signature, signers, edits>>

(* Refused without allowed signers; ssh-keygen or the library may be       *)
(* missing.                                                                *)
VerifyManifest ==
  /\ pc = "verify"
  /\ pc' \in IF args.signers THEN {"signature", "refused"} ELSE {"refused"}
  /\ UNCHANGED <<file, seen, args, manifest, signature, signers, edits>>

ReadSignature ==
  /\ pc = "signature"
  /\ signature' = file.signature
  /\ pc' = IF signature' = Absent THEN "refused" ELSE "signers"
  /\ UNCHANGED <<file, seen, args, manifest, signers, edits>>

ReadSigners ==
  /\ pc = "signers"
  /\ signers' = file.signers
  /\ pc' = CASE signers' = Absent -> "refused"
             [] signers' = Undecodable /\ manifest.signature = "ed25519" -> "raised"
             [] OTHER -> "judge"
  /\ UNCHANGED <<file, seen, args, manifest, signature, edits>>

(* ssh-keygen takes any line of the operator; verify_ed25519 the first.    *)
KeysOf(lines, operator) ==
  LET mine == {i \in DOMAIN lines : lines[i].who = operator}
      heard == IF manifest.signature = "ssh" THEN mine
               ELSE {i \in mine : \A j \in mine : i <= j}
  IN  {lines[i].key : i \in heard}

(* Mutant: the bytes are read again for the verifier.                      *)
AcceptsOnDisk ==
  /\ signature.kind = manifest.signature
  /\ signature.over = file.manifest
  /\ signature.by \in KeysOf(signers, manifest.operator)

Accepts ==
  /\ signature.kind = manifest.signature
  /\ signature.over = manifest
  /\ signature.by \in KeysOf(signers, manifest.operator)

Judge ==
  /\ pc = "judge"
  /\ pc' = IF Accepts THEN "granted" ELSE "refused"
  /\ UNCHANGED <<file, seen, args, manifest, signature, signers, edits>>

(* ssh-keygen is given ten seconds.                                        *)
Timeout ==
  /\ pc \in {"signature", "signers", "judge"} /\ manifest.signature = "ssh"
  /\ pc' = "refused"
  /\ UNCHANGED <<file, seen, args, manifest, signature, signers, edits>>

Verify == VerifyManifest \/ ReadSignature \/ ReadSigners \/ Judge \/ Timeout

Next == Replace \/ ReadManifest \/ LoadPolicy \/ LoadManifest \/ Verify

Spec == Init /\ [][Next]_vars

----------------------------------------------------------------------------
(* "The manifest bytes are fed on stdin so the signature binds to the      *)
(* exact content that was parsed" (verify.py:54-55): what is run is one    *)
(* manifest that was there, in date and sound, and a signature over it, of *)
(* the kind it declares ("never silently downgraded", verify.py:9), was    *)
(* there too, by a key the signers file gave its operator at some moment   *)
(* of the run, whatever became of the files meanwhile.                     *)
RunsWhatWasSigned ==
  pc = "granted" =>
    /\ manifest \in seen.manifest
    /\ Flaws(manifest) = {} /\ manifest.expires_at = "later"
    /\ \E s \in seen.signature \ {Absent} : \E lines \in seen.signers \ {Absent} :
         /\ s.over = manifest /\ s.kind = manifest.signature
         /\ \E i \in DOMAIN lines : lines[i] = [who |-> manifest.operator, key |-> s.by]

----------------------------------------------------------------------------
(* A sentence of the documentation that the code does not keep: "It never  *)
(* raises: malformed or invalid input returns a ManifestError"             *)
(* (manifest.py:7-8).                                                      *)
LoadNeverRaises == pc = "raised" => signers # Absent
=============================================================================
