------------------------- MODULE LanAuthorityProofs -------------------------
(***************************************************************************)
(* Proofs about LanAuthority, for any identities, keys and files and any   *)
(* number of replacements: what is granted was signed.                     *)
(***************************************************************************)
EXTENDS LanAuthority, TLAPS

Name == {"manifest", "signature", "signers"}

(* What the history knows of the files, now and before.                    *)
HistoryInv ==
  /\ file \in [manifest : ManifestFiles, signature : Signatures, signers : SignerFiles]
  /\ seen \in [manifest : SUBSET ManifestFiles, signature : SUBSET Signatures,
               signers : SUBSET SignerFiles]
  /\ file.manifest \in seen.manifest
  /\ file.signature \in seen.signature
  /\ file.signers \in seen.signers

(* What was read was there, and what a check let pass is so.               *)
ReadInv ==
  /\ pc # "read" => manifest \in seen.manifest
  /\ pc \in {"verify", "signature", "signers", "judge", "granted"} =>
       Flaws(manifest) = {} /\ manifest.expires_at # "past"
  /\ pc \in {"signers", "judge", "granted"} => signature \in seen.signature \ {Absent}
  /\ pc \in {"judge", "granted"} => signers \in seen.signers \ {Absent}
  /\ pc = "granted" => Accepts

AuthorityInv == HistoryInv /\ ReadInv

----------------------------------------------------------------------------
(* A sound manifest has an expiry of one of two kinds.                     *)
LEMMA SoundExpiry == \A m : Flaws(m) = {} => m.expires_at \in {"later", "past"}
<1>1. "expires_at" \in Field
  <2>1. 4 \in DOMAIN Fields /\ Fields[4] = "expires_at"
    BY DEF Fields
  <2>2. QED
    BY <2>1 DEF Field
<1>2. Sound("expires_at") = {"later", "past"}
  BY DEF Sound
<1>3. QED
  BY <1>1, <1>2 DEF Flaws

(* The lines of an allowed-signers file are what their fields say.         *)
LEMMA LineIsItsFields ==
  \A lines \in SignerFiles \ {Absent} : \A i \in DOMAIN lines :
    lines[i] = [who |-> lines[i].who, key |-> lines[i].key]
<1> SUFFICES ASSUME NEW lines \in SignerFiles \ {Absent}, NEW i \in DOMAIN lines
             PROVE  lines[i] = [who |-> lines[i].who, key |-> lines[i].key]
  OBVIOUS
<1>1. CASE lines \in Seq(Line)
  <2>1. lines[i] \in Line
    BY <1>1
  <2>2. QED
    BY <2>1 DEF Line
<1>2. CASE lines = Undecodable
  <2>1. lines = << [who |-> "not utf-8", key |-> "malformed"] >>
    BY <1>2 DEF Undecodable
  <2>2. i = 1
    <3>1. \A x : DOMAIN << x >> = 1 .. 1
      OBVIOUS
    <3>2. DOMAIN lines = 1 .. 1
      BY <2>1, <3>1, Zenon
    <3>3. QED
      BY <3>2
  <2>3. lines[1] = [who |-> "not utf-8", key |-> "malformed"]
    BY <2>1
  <2>4. QED
    BY <2>2, <2>3
<1>3. QED
  BY <1>1, <1>2, AuthorityAssumption

(* A verdict in favour names a line of the signers file.                   *)
LEMMA AcceptedByLine ==
  ASSUME Accepts, signers \in SignerFiles \ {Absent}
  PROVE  \E i \in DOMAIN signers :
           signers[i] = [who |-> manifest.operator, key |-> signature.by]
<1>1. PICK i \in DOMAIN signers : /\ signers[i].who = manifest.operator
                                  /\ signers[i].key = signature.by
  BY DEF Accepts, KeysOf
<1>2. QED
  BY <1>1, LineIsItsFields

----------------------------------------------------------------------------
LEMMA AuthorityInit == Init => AuthorityInv
<1> SUFFICES ASSUME Init PROVE HistoryInv /\ ReadInv
  BY DEF AuthorityInv
<1>1. /\ file \in [manifest : ManifestFiles, signature : Signatures, signers : SignerFiles]
      /\ seen = [f \in DOMAIN file |-> {file[f]}]
      /\ pc = "read"
  BY DEF Init
<1>2. seen = [manifest |-> {file.manifest}, signature |-> {file.signature},
              signers |-> {file.signers}]
  BY <1>1
<1>3. HistoryInv
  BY <1>1, <1>2 DEF HistoryInv
<1>4. QED
  BY <1>1, <1>3 DEF ReadInv

(* A file that is replaced joins the history; nothing that was read moves. *)
LEMMA ReplaceStep == ASSUME AuthorityInv, Replace PROVE AuthorityInv'
<1> USE DEF AuthorityInv
<1>1. HistoryInv' /\ \A f \in Name : seen[f] \subseteq seen'[f]
  <2>1. PICK f \in DOMAIN file :
          \E new \in (CASE f = "manifest" -> ManifestFiles [] f = "signature" -> Signatures
                        [] f = "signers" -> SignerFiles) \ {file[f]} :
            /\ file' = [file EXCEPT ![f] = new]
            /\ seen' = [seen EXCEPT ![f] = @ \cup {new}]
    BY DEF Replace
  <2>2. f \in Name
    BY <2>1 DEF HistoryInv, Name
  <2>3. CASE f = "manifest"
    BY <2>1, <2>3 DEF HistoryInv, Name
  <2>4. CASE f = "signature"
    BY <2>1, <2>4 DEF HistoryInv, Name
  <2>5. CASE f = "signers"
    BY <2>1, <2>5 DEF HistoryInv, Name
  <2>6. QED
    BY <2>2, <2>3, <2>4, <2>5 DEF Name
<1>2. UNCHANGED <<pc, manifest, signature, signers>>
  BY DEF Replace
<1>3. ReadInv'
  BY <1>1, <1>2 DEF ReadInv, Name, Flaws, Accepts, KeysOf
<1>4. QED
  BY <1>1, <1>3

(* A step of the program reads a file as it is, or checks what it has read. *)
LEMMA ProgramStep ==
  ASSUME AuthorityInv, ReadManifest \/ LoadPolicy \/ LoadManifest \/ Verify
  PROVE  AuthorityInv'
<1> USE DEF AuthorityInv
<1>1. UNCHANGED <<file, seen>> /\ HistoryInv'
  BY DEF ReadManifest, LoadPolicy, LoadManifest, Verify, VerifyManifest, ReadSignature,
         ReadSigners, Judge, Timeout, HistoryInv
<1>2. CASE ReadManifest
  BY <1>1, <1>2 DEF ReadManifest, ReadInv, HistoryInv
<1>3. CASE LoadPolicy
  BY <1>1, <1>3 DEF LoadPolicy, ReadInv
<1>4. CASE LoadManifest
  <2>1. /\ pc = "parse" /\ pc' \in {"verify", "refused", "raised"}
        /\ pc' = "verify" => Flaws(manifest) = {} /\ manifest.expires_at # "past"
        /\ UNCHANGED <<manifest, signature, signers>>
    BY <1>4 DEF LoadManifest
  <2>2. QED
    BY <1>1, <2>1 DEF ReadInv, Flaws
<1>5. CASE VerifyManifest
  <2>1. /\ pc = "verify" /\ pc' \in {"signature", "refused"}
        /\ UNCHANGED <<manifest, signature, signers>>
    BY <1>5 DEF VerifyManifest
  <2>2. QED
    BY <1>1, <2>1 DEF ReadInv, Flaws
<1>6. CASE ReadSignature
  <2>1. /\ pc = "signature" /\ pc' \in {"signers", "refused"}
        /\ signature' = file.signature
        /\ pc' = "signers" => signature' # Absent
        /\ UNCHANGED <<manifest, signers>>
    BY <1>6 DEF ReadSignature
  <2>2. QED
    BY <1>1, <2>1 DEF ReadInv, HistoryInv, Flaws
<1>7. CASE ReadSigners
  <2>1. /\ pc = "signers" /\ pc' \in {"judge", "raised", "refused"}
        /\ signers' = file.signers
        /\ pc' = "judge" => signers' # Absent
        /\ UNCHANGED <<manifest, signature>>
    BY <1>7 DEF ReadSigners
  <2>2. QED
    BY <1>1, <2>1 DEF ReadInv, HistoryInv, Flaws
<1>8. CASE Judge
  <2>1. /\ pc = "judge" /\ pc' \in {"granted", "refused"}
        /\ pc' = "granted" => Accepts
        /\ UNCHANGED <<manifest, signature, signers>>
    BY <1>8 DEF Judge
  <2>2. Accepts => Accepts'
    BY <2>1 DEF Accepts, KeysOf
  <2>3. QED
    BY <1>1, <2>1, <2>2 DEF ReadInv, Flaws
<1>9. CASE Timeout
  BY <1>1, <1>9 DEF Timeout, ReadInv
<1>10. QED
  BY <1>2, <1>3, <1>4, <1>5, <1>6, <1>7, <1>8, <1>9 DEF Verify

LEMMA AuthorityStep == AuthorityInv /\ [Next]_vars => AuthorityInv'
<1>1. ASSUME AuthorityInv, UNCHANGED vars PROVE AuthorityInv'
  BY <1>1 DEF vars, AuthorityInv, HistoryInv, ReadInv, Flaws, Accepts, KeysOf
<1>2. QED
  BY <1>1, ReplaceStep, ProgramStep DEF Next

(* A run that is granted has a sound manifest in date, and a signature     *)
(* over just that manifest, of the scheme it declares, by a key that its   *)
(* operator had, whatever files were replaced while it was decided         *)
(* (cli._run_lan, load_manifest, verify_manifest).                         *)
THEOREM GrantedWasSigned == Spec => []RunsWhatWasSigned
<1>1. AuthorityInv => RunsWhatWasSigned
  <2> SUFFICES ASSUME AuthorityInv, pc = "granted"
               PROVE  /\ manifest \in seen.manifest
                      /\ Flaws(manifest) = {} /\ manifest.expires_at = "later"
                      /\ \E s \in seen.signature \ {Absent} :
                         \E lines \in seen.signers \ {Absent} :
                           /\ s.over = manifest /\ s.kind = manifest.signature
                           /\ \E i \in DOMAIN lines :
                                lines[i] = [who |-> manifest.operator, key |-> s.by]
    BY DEF RunsWhatWasSigned
  <2>1. /\ manifest \in seen.manifest
        /\ Flaws(manifest) = {} /\ manifest.expires_at = "later"
    BY SoundExpiry DEF AuthorityInv, ReadInv
  <2>2. /\ signature \in seen.signature \ {Absent}
        /\ signers \in seen.signers \ {Absent}
        /\ Accepts
        /\ signers \in SignerFiles \ {Absent}
    BY DEF AuthorityInv, ReadInv, HistoryInv
  <2>3. \E i \in DOMAIN signers :
          signers[i] = [who |-> manifest.operator, key |-> signature.by]
    BY <2>2, AcceptedByLine
  <2>4. signature.over = manifest /\ signature.kind = manifest.signature
    BY <2>2 DEF Accepts
  <2>5. QED
    BY <2>1, <2>2, <2>3, <2>4
<1>2. QED
  BY <1>1, AuthorityInit, AuthorityStep, PTL DEF Spec
=============================================================================
