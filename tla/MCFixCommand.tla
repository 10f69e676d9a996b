---------------------------- MODULE MCFixCommand ----------------------------
(***************************************************************************)
(* Two families of machines.  One config with up to two servers and every  *)
(* list of up to two entries: a shell, a shell with a wildcard, a wildcard *)
(* and two harmless entries.  And several configs with short lists, on     *)
(* every operating system, with roots that overlap, some of them volatile. *)
(***************************************************************************)
EXTENDS FixCommand

MCEntry     == {"bash", "bash_*", "mcp__*", "Read", "Glob(src/**)"}
MCDangerous == {"bash", "bash_*"}
MCBroad     == {"bash_*", "mcp__*"}

Variables == [HOME |-> None, USERPROFILE |-> None, HOMEDRIVE |-> None, HOMEPATH |-> None,
              APPDATA |-> None]
Posix   == [Variables EXCEPT !.HOME = <<"home">>]
Windows == [Variables EXCEPT !.USERPROFILE = <<"profile">>, !.APPDATA = <<"roaming">>]
Old     == [Variables EXCEPT !.HOMEDRIVE = <<"c">>, !.HOMEPATH = <<"users">>]

Machine(system, env, roots, files) ==
  [system |-> system, env |-> env, roots |-> roots, disk |-> files]

----------------------------------------------------------------------------
Lists(n)  == SeqOf(MCEntry, n)
Servers   == {<< >>} \cup {<<a>> : a \in Lists(2)} \cup {<<a, b>> : a, b \in Lists(1)}

TextOf(syntaxes, allows, sections) ==
  [syntax : syntaxes, allow : allows, section : sections, servers : Servers]

OnePath(host) == UserPaths(host, "Linux", Posix)[1]
One(host, texts) == {Machine("Linux", Posix, << >>, OnePath(host) :> t) : t \in texts}

OneConfig ==
  One("claude", TextOf({"json", "broken"}, Lists(1), {"mcpServers"}))
    \cup UNION {One(h, TextOf({"json"}, {<< >>}, {"mcpServers"})) : h \in {"windsurf", "vscode"}}

----------------------------------------------------------------------------
Short(syntax, section, list) ==
  [syntax |-> syntax, allow |-> << >>, section |-> section, servers |-> <<list>>]

Bad   == Short("json", "mcpServers", <<"bash", "Read">>)
Worse == Short("json", "mcpServers", <<"mcp__*", "bash_*">>)
Good  == Short("json", "mcpServers", <<"Read">>)
Other == Short("jsonc", "context_servers", <<"bash">>)

(* Every visited path holds something the host can read.                   *)
Filled(system, env, roots) ==
  LET visits == ToSet(Tour(system, env, roots))
      text(v) == CASE v.host = "zed" -> Other
                   [] v.host \in {"claude", "cursor"} -> Bad
                   [] v.host = "windsurf" -> Worse
                   [] OTHER -> Good
  IN  Machine(system, env, roots,
              [p \in {v.path : v \in visits} |-> text(CHOOSE v \in visits : v.path = p)])

Places(system, env, homeRoots) == {Filled(system, env, roots) : roots \in homeRoots}

SeveralConfigs ==
  Places("Linux", Posix, {<<<<"home">>>>, <<<<"work">>, <<"home">>>>})
    \cup Places("Darwin", Posix, {<<<<"work">>, <<"work">>>>})
    \cup Places("Windows", Windows, {<<<<"work">>>>})
    \cup Places("Windows", Old, {<<<<"c", "users">>>>})
    \cup Places("Linux", Variables, {<<<<"work">>, <<"home">>>>})

MCBegin == OneConfig \cup SeveralConfigs

MCVersions == {Worse, Good, Absent}
MCVolatile == {<<"home", ".cursor", "mcp.json">>, <<"work", ".mcp.json">>}
=============================================================================
