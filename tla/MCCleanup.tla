------------------------------ MODULE MCCleanup ------------------------------
(***************************************************************************)
(* Instances of Cleanup: a file and a folder below the downloads directory *)
(* and an entry of the recycle bin.                                        *)
(***************************************************************************)
EXTENDS Cleanup

MCDownloads == {<<"downloads">>}
MCRecycle == {<<"recycle">>}
MCLeftovers == {<<"downloads", "movie">>, <<"recycle", "old">>}

\* A file of its own, and one in a folder that only its parent tells of.
MCContent == "film" :> <<"downloads", "movie">> @@ "show" :> <<"downloads", "pack", "episode">>
MCSaved == "film" :> <<"downloads", "movie">> @@ "show" :> <<"downloads", "elsewhere">>

\* A category whose save path is two levels below the downloads directory.
DeepContent == "show" :> <<"downloads", "complete", "tv", "episode">>

On(node, enabled, dryRun, services) ==
  [node |-> node, enabled |-> enabled, dryRun |-> dryRun, services |-> services]

\* Both nodes live; the two closed gates; a NAS that lacks a service.
MCConfigs == {On("nas", TRUE, FALSE, {"qbit", "arr"}), On("nas", TRUE, FALSE, {"arr"}),
              On("nas", TRUE, TRUE, {"qbit", "arr"}), On("nas", FALSE, FALSE, {"qbit", "arr"}),
              On("pi", TRUE, FALSE, {"arr"})}

\* The first of the two layouts is flat.
ASSUME LayoutAssumption == Content = MCContent => FlatLayout

\* The commands are alike.
Alike == Permutations(Cmds)

=============================================================================
