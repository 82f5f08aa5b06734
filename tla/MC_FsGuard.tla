----------------------------- MODULE MC_FsGuard -----------------------------
(* A small disk for FsGuard: the bundle /b, a sibling /bb whose name      *)
(* starts with the bundle's, /etc outside, a symlink /b/l -> /etc leaving *)
(* the bundle and a relative one /b/k -> e staying inside.                *)
EXTENDS FsGuard, TLC

MC_Links ==
  (<<"b", "l">> :> [abs |-> TRUE, comps |-> <<"etc">>])
  @@ (<<"b", "k">> :> [abs |-> FALSE, comps |-> <<"e">>])

MC_Bundles == {<<"b">>}
MC_Entries == {<<"b", "e">>, <<"b", "k">>, <<"bb", "e">>, <<"b", "l", "e">>,
               <<"b", "..", "etc">>}
MC_Caps    == {{}, {"fs"}, {"network"}, {"fs", "network"}, NotAList}
MC_Args    == {Fd, RelArg(<<"e">>), RelArg(<<"..", "bb">>),
               AbsArg(<<"b", "l", "x">>), AbsArg(<<"b", "k">>)}
MC_Host    == <<"host">>
MC_Cwd     == <<>>
MC_FsOnly  == {{"fs"}}
=============================================================================
