-------------------------- MODULE MCGitRepository --------------------------
(* TLC instance of GitRepository.                                          *)
EXTENDS GitRepository

CONSTANTS x, y

MCPaths == {<<".gitignore">>, <<"d">>, <<"d", "f">>}
MCIgnoreFile == <<".gitignore">>
MCIgnores == (x :> {}) @@ (y :> {<<"d", "f">>})
=============================================================================
