---------------------------- MODULE MCScanWalk ----------------------------
(* ScanWalk with a user-level and two project configs of two adapters and  *)
(* an .env file.                                                           *)
EXTENDS ScanWalk

Candidate(adapter, level) == [adapter |-> adapter, level |-> level]

UserA == Candidate("claude", "user")
ProjectA == Candidate("claude", "project")
UserB == Candidate("continue", "user")
MCEnv == Candidate("none", "env")

MCCandidates == <<UserA, ProjectA, UserB>>

Config(obstacle, form, decls, allow) ==
  [obstacle |-> obstacle, form |-> form, servers |-> decls, allow |-> allow,
   secrets |-> 0, shared |-> FALSE]

Dotenv(obstacle, secrets, shared) ==
  [obstacle |-> obstacle, form |-> "whole", servers |-> <<>>, allow |-> <<>>,
   secrets |-> secrets, shared |-> shared]

Leaky == <<Decl("db", 1, <<{"danger"}, {}>>, "latest"), Decl("fs", 0, <<>>, "exact")>>
Wild == <<Decl("web", 0, <<{"wild"}>>, "open"), Decl("box", 2, <<{"danger", "wild"}>>, "none")>>

Bad == Config("none", "whole", Leaky, <<{"danger"}, {"wild"}>>)
Grants == Config("none", "whole", <<>>, <<{"danger"}>>)
Lax == Config("none", "whole", Wild, <<{}>>)
Broken == Config("none", "broken", Leaky, <<>>)
Deep == Config("none", "deep", <<>>, <<>>)
Odd == Config("none", "odd", <<>>, <<>>)
Barred(obstacle) == Config(obstacle, "whole", Leaky, <<>>)

MCStates ==
  [f \in {UserA, ProjectA, UserB} |->
     {Absent, Bad, Lax, Grants, Broken, Deep} \cup (IF f = UserB THEN {Odd} ELSE {})
       \cup {Barred(o) : o \in Obstacle \ {"none"}}]
  @@ (MCEnv :> {Absent, Dotenv("none", 1, FALSE), Dotenv("none", 1, TRUE), Dotenv("none", 0, TRUE),
                Dotenv("denied", 1, FALSE), Dotenv("hidden", 1, FALSE)})

MCStart ==
  {(UserA :> a @@ ProjectA :> Lax @@ UserB :> b @@ MCEnv :> e) :
     a \in {Grants, Barred("huge"), Absent}, b \in {Bad, Broken},
     e \in {Dotenv("none", 1, FALSE), Absent}}

MCSockets == <<"any4:8000">>
=============================================================================
