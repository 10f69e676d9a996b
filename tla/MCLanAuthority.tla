--------------------------- MODULE MCLanAuthority ---------------------------
(***************************************************************************)
(* Two operators, a key of each and files that may hold either's: sound    *)
(* manifests of both schemes, one that has expired, one for each way to be *)
(* unsound and one that is unsound twice.                                  *)
(***************************************************************************)
EXTENDS LanAuthority

CONSTANTS alice, bob, ka, kb

MCOperator == {alice, bob}
MCKey == {ka, kb}

Plain == [toml |-> "valid", authorization_id |-> "text", operator |-> alice,
          expires_at |-> "later", targets |-> "named", ports |-> "in range", signature |-> "ssh"]

Good == {Plain, [Plain EXCEPT !.operator = bob], [Plain EXCEPT !.signature = "ed25519"]}

MCManifestFiles ==
  Good \cup {Absent, [Plain EXCEPT !.expires_at = "past"],
             [Plain EXCEPT !.operator = "blank", !.expires_at = "edge"]}
       \cup UNION {{[Plain EXCEPT ![f] = bad] : bad \in Unsound(f)} : f \in Field}

MCSignatures ==
  {[by |-> ka, over |-> m, kind |-> m.signature] : m \in Good}
    \cup {[by |-> kb, over |-> Plain, kind |-> "ssh"],
          [by |-> ka, over |-> Plain, kind |-> "ssh elsewhere"],
          [by |-> ka, over |-> Plain, kind |-> "not base64"], Absent}

Says(who, key) == [who |-> who, key |-> key]

MCSignerFiles ==
  { << >>, << Says(alice, ka) >>, << Says(alice, kb), Says(alice, ka) >>,
    << Says(bob, ka), Says(alice, "malformed") >>, Undecodable, Absent }
=============================================================================
