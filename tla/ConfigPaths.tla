---------------------------- MODULE ConfigPaths -----------------------------
(***************************************************************************)
(* Where the hosts keep their configs (adapters/paths.py and the adapters' *)
(* project_config_paths), and the order in which a scan visits them.       *)
(*                                                                         *)
(* A path is a sequence of names; a variable of the environment is a path, *)
(* or None when it is unset or empty.                                      *)
(***************************************************************************)
EXTENDS SequencesExt

None == << >>

Hosts == <<"claude", "cursor", "windsurf", "cline", "vscode", "zed", "continue">>

Home(system, env) ==
  CASE system # "Windows" -> env.HOME
    [] system = "Windows" /\ env.USERPROFILE # None -> env.USERPROFILE
    [] OTHER -> IF None \in {env.HOMEDRIVE, env.HOMEPATH} THEN None
                ELSE env.HOMEDRIVE \o env.HOMEPATH

Under(dir, files) == IF dir = None THEN << >> ELSE [i \in DOMAIN files |-> dir \o files[i]]

(* Where applications keep their data.                                     *)
AppData(system, env) ==
  LET home == Home(system, env)
  IN  CASE system = "Windows" -> env.APPDATA
        [] system # "Windows" /\ home = None -> None
        [] system = "Darwin" /\ home # None -> home \o <<"Library", "Application Support">>
        [] OTHER -> home \o <<".config">>

(* Zed is under ~/.config on macOS too.                                    *)
ZedDir(system, env) ==
  IF system = "Windows" THEN Under(env.APPDATA, << <<"Zed", "settings.json">> >>)
  ELSE Under(Home(system, env), << <<".config", "zed", "settings.json">> >>)

UserPaths(host, system, env) ==
  LET home == Home(system, env)
      data == AppData(system, env)
  IN  CASE host = "claude" ->
             Under(home, << <<".claude", "settings.json">>, <<".claude", "settings.local.json">> >>)
               \o Under(data, << <<"Claude", "claude_desktop_config.json">> >>)
        [] host = "cursor" -> Under(home, << <<".cursor", "mcp.json">> >>)
        [] host = "windsurf" -> Under(home, << <<".codeium", "windsurf", "mcp_config.json">> >>)
        [] host = "cline" ->
             Under(data, << <<"Code", "User", "globalStorage", "saoudrizwan.claude-dev",
                              "settings", "cline_mcp_settings.json">> >>)
        [] host = "vscode" -> Under(data, << <<"Code", "User", "mcp.json">> >>)
        [] host = "zed" -> ZedDir(system, env)
        [] host = "continue" -> Under(home, << <<".continue", "config.yaml">> >>)

(* Windsurf and Cline have no project configs.                             *)
ProjectPaths(host, root) ==
  LET In(file) == << root \o file >>
  IN  CASE host = "claude"   -> In(<<".mcp.json">>)
        [] host = "cursor"   -> In(<<".cursor", "mcp.json">>)
        [] host = "vscode"   -> In(<<".vscode", "mcp.json">>)
        [] host = "zed"      -> In(<<".zed", "settings.json">>)
        [] host = "continue" -> In(<<".continue", "config.yaml">>)
        [] OTHER -> << >>

(* The user-level configs of every host, then those of each root: a config *)
(* is visited twice when a root is the home directory, or given twice.     *)
Visits(host, paths) == [i \in DOMAIN paths |-> [host |-> host, path |-> paths[i]]]

Tour(system, env, roots) ==
  LET user == [h \in DOMAIN Hosts |-> Visits(Hosts[h], UserPaths(Hosts[h], system, env))]
      project(root) ==
        FlattenSeq([h \in DOMAIN Hosts |-> Visits(Hosts[h], ProjectPaths(Hosts[h], root))])
  IN  FlattenSeq(user) \o FlattenSeq([r \in DOMAIN roots |-> project(roots[r])])
=============================================================================
