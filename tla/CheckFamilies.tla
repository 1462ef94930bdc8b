---------------------------- MODULE CheckFamilies ----------------------------
(***************************************************************************)
(* The checks of internal/checks and internal/staleness: one of them,       *)
(* chosen at the start, run again and again against services that change   *)
(* under it.  A run asks the services one call after another; a call is     *)
(* answered with the service's state at that moment or fails (an outage, a  *)
(* timeout, a refused login).  Where a failed call ends the run in an error *)
(* and where a finding takes its place differs from check to check, and so  *)
(* does the part that time plays in a finding.  The store then keeps the    *)
(* rule of upsertFindings: a check that ran resolves every finding of its   *)
(* that it did not emit, a check that did not run resolves none.            *)
(*                                                                         *)
(* One mount, one library and one download stand for the loops over all of *)
(* them; where the loop itself matters there are two apps, two paths or two *)
(* torrents.  Cases of a value that no rule tells apart are one value.      *)
(***************************************************************************)
EXTENDS Staleness, Sequences, FiniteSets

CONSTANTS
  Studied,      \* the checks of this instance
  Limits,       \* config.Checks: ages, windows, percentages and sizes; HistoryRows: tautulliHistoryLength
  Titles,       \* what Sonarr and Radarr may say of a title
  MaxTime,      \* bound: MaxTime[c] moments in the life of check c
  MaxChanges,   \* bound: changes of the services
  MaxFailures   \* bound: failed calls

VARIABLES
  check,     \* the check that is run
  config,    \* the calls whose client and paths are configured
  world,     \* world[call]: what the service would answer now
  now,
  current,   \* the run in progress
  open,      \* the open findings the store holds for the check
  last,      \* how the last run ended, and its failed calls
  prev,      \* the metrics of the node's latest report
  still,     \* runs begun since a service last changed, counted to 2
  changes, failures

familyVars == <<check, config, world, now, current, open, last, prev, still, changes, failures>>

Apps == {"sonarr", "radarr", "prowlarr"}
ArrChecks == {"arr_health", "service_update_available", "arr_queue_stuck", "arr_wanted_missing_spike"}
Torrents == {"t1", "t2"}
Paths == {"p1", "p2"}

(* The calls of a run, in the order the check makes them. *)
Calls ==
  [arr_health                  |-> <<"sonarr", "radarr", "prowlarr">>,
   service_update_available    |-> <<"sonarr", "radarr", "prowlarr">>,
   arr_queue_stuck             |-> <<"sonarr", "radarr">>,
   arr_wanted_missing_spike    |-> <<"sonarr", "radarr">>,
   mount_race                  |-> <<"exec", "mountpoint">>,
   host_mount_health           |-> <<"mountpoint", "usage">>,
   plex_scan_freshness         |-> <<"libraries", "dir">>,
   plex_reachability           |-> <<"identity">>,
   indexer_failures            |-> <<"indexers", "status">>,
   wrong_file_type             |-> <<"torrents", "t1", "t2">>,
   qbit_stalled_errored        |-> <<"torrents">>,
   qbit_completed_not_imported |-> <<"torrents", "sonarr", "radarr">>,
   disk_pressure               |-> <<"p1", "p2">>,
   dir_size                    |-> <<"p1", "p2">>,
   docker_image_bloat          |-> <<"docker">>,
   overseerr_stuck_processing  |-> <<"requests">>,
   tautulli_reachability       |-> <<"ping", "activity">>,
   staleness_scan              |-> <<"history", "requests", "series", "movies">>]

CallsOf(c) == {Calls[c][i] : i \in 1..Len(Calls[c])}

(* The clients a node may lack: an app for itself, otherwise all a check asks or none. *)
Configs(c) ==
  CASE c \in ArrChecks -> {{}, {"radarr"}, CallsOf(c)}
    [] c = "qbit_completed_not_imported" -> {{}, {"torrents"}, {"torrents", "sonarr"}, CallsOf(c)}
    [] c = "staleness_scan" ->
         {{"history"}, {"series", "movies"}, {"history", "movies"}, {"history", "requests", "series"}}
    [] OTHER -> {{}, CallsOf(c)}

(* The checks' first lines: what makes a check return ErrNotConfigured. *)
NotConfigured ==
  CASE check \in ArrChecks -> config = {}
    [] check = "qbit_completed_not_imported" ->
         "torrents" \notin config \/ config \cap {"sonarr", "radarr"} = {}
    [] check = "staleness_scan" -> "history" \notin config \/ config \cap {"series", "movies"} = {}
    [] OTHER -> config # CallsOf(check)

OneOrNone(S) == {{}} \cup {{x} : x \in S}

(* What a service may come to answer at moment t.  A history grows: by a watch, or by an import of the download, *)
(* which names the download it came from (id) unless somebody imported it by hand.                               *)
Answers(c, call, t) ==
  CASE c \in {"arr_health", "service_update_available"} ->
         [UpdateCheck : {"none", "warning"}, IndexerCheck : {"none", "warning", "error"}]
    [] c = "arr_queue_stuck" -> OneOrNone([stuck : BOOLEAN, added : {0, t}, left : BOOLEAN])
    [] c = "arr_wanted_missing_spike" -> 0..3
    [] call = "exec" -> {"garbled", "raced", "empty", "full"}
    [] call = "mountpoint" -> BOOLEAN
    [] call = "libraries" -> [found : BOOLEAN, scanned : {0, t}]
    [] call = "dir" -> {0, t}
    [] call = "status" -> [till : {0, t + 1}, failed : {0, t}]
    [] c = "wrong_file_type" /\ call = "torrents" -> [Torrents -> {"absent", "tv", "films"}]
    [] call \in Torrents -> {"video", "exe", "iso"}
    [] c = "qbit_stalled_errored" ->
         OneOrNone([state : {"missingFiles", "stalledDL", "uploading"}, added : {0, t}])
    [] c = "qbit_completed_not_imported" /\ call = "torrents" -> [done : {0, t}, category : BOOLEAN]
    [] c = "qbit_completed_not_imported" /\ call # "torrents" ->
         {world[call] \cup {r} : r \in {x \in [at : {t}, id : BOOLEAN] : world["torrents"].done # 0}}
    [] call \in Paths -> {0, Limits.DiskWarn - 1, Limits.DiskWarn, Limits.DiskCrit}
    [] call = "docker" -> {0, Limits.ImageWarn}
    [] c = "overseerr_stuck_processing" -> OneOrNone({0, t})
    [] call = "history" ->
         {world[call] \cup {r} : r \in [media : {"series", "movies"}, at : {t}, full : BOOLEAN]}
    [] c = "staleness_scan" /\ call = "requests" -> Requesters
    [] call \in {"series", "movies"} -> {{}}
    [] OTHER -> {TRUE}

(* The services before anything happened; the title and its requester are any, and the film was begun once. *)
Quiet(c, call, title, requester) ==
  CASE c \in {"arr_health", "service_update_available"} ->
         [UpdateCheck |-> "none", IndexerCheck |-> "none"]
    [] c \in {"arr_queue_stuck", "qbit_stalled_errored", "overseerr_stuck_processing"} -> {}
    [] c = "arr_wanted_missing_spike" -> 0
    [] call = "exec" -> "full"
    [] call = "libraries" -> [found |-> TRUE, scanned |-> 1]
    [] call = "dir" -> 1
    [] call = "status" -> [till |-> 0, failed |-> 0]
    [] c = "wrong_file_type" /\ call = "torrents" -> [t \in Torrents |-> "tv"]
    [] call \in Torrents -> "video"
    [] c = "qbit_completed_not_imported" ->
         IF call = "torrents" THEN [done |-> 0, category |-> TRUE] ELSE {}
    [] call \in Paths \cup {"docker"} -> 0
    [] call = "history" -> {[media |-> "movies", at |-> 1, full |-> FALSE]}
    [] c = "staleness_scan" /\ call = "requests" -> requester
    [] call \in {"series", "movies"} -> {title}
    [] OTHER -> TRUE

-----------------------------------------------------------------------------
(* What each check makes of the answers a to its calls, the failed ones not   *)
(* among them, at moment t: the findings, by entity key, and their severity.   *)

Finding(key, sev) == [key |-> key, sev |-> sev]
If(cond, f) == IF cond THEN {f} ELSE {}
Asked(a, calls) == calls \cap DOMAIN a

\* Mutant: an app that cannot be asked adds nothing.
ArrHealth_Silent(a, failed) ==
  UNION {{Finding(<<app, s>>, IF a[app][s] = "error" THEN "critical" ELSE "warn") :
            s \in {x \in DOMAIN a[app] \ {"UpdateCheck"} : a[app][x] # "none"}} : app \in Asked(a, Apps)}

ArrHealth(a, failed) ==
  {Finding(<<app>>, "critical") : app \in failed}
  \cup UNION {{Finding(<<app, s>>, IF a[app][s] = "error" THEN "critical" ELSE "warn") :
                 s \in {x \in DOMAIN a[app] \ {"UpdateCheck"} : a[app][x] # "none"}} :
              app \in Asked(a, Apps)}

ServiceUpdates(a) ==
  {Finding(<<app, "update">>, "info") : app \in {x \in Asked(a, Apps) : a[x].UpdateCheck # "none"}}

QueueStuck(a, t) ==
  {Finding(<<app, "queue">>, "warn") : app \in {x \in Asked(a, Apps) : \E it \in a[x] :
      it.stuck \/ (it.added # 0 /\ t - it.added > Limits.QueueStuckAfter /\ it.left)}}

(* wantedMissingSpike: against the latest report of the node, whatever checks that one ran. *)
WantedSpike(a) ==
  {Finding(<<app, "wanted">>, "warn") : app \in {x \in Asked(a, Apps) \cap DOMAIN prev :
      LET diff == a[x] - prev[x] IN
      diff >= Limits.SpikeMin /\ (prev[x] = 0 \/ diff * 100 >= Limits.SpikePercent * prev[x])}}

MountRace(a, failed) ==
  CASE "exec" \in failed -> {Finding(<<"mount">>, "critical")}
    [] a["exec"] \in {"garbled", "raced"} -> {Finding(<<"mount">>, "critical")}
    [] OTHER -> If(a["exec"] = "empty" /\ a["mountpoint"], Finding(<<"mount">>, "warn"))

HostMount(a, failed) == If(~a["mountpoint"] \/ "usage" \in failed, Finding(<<"mount">>, "critical"))

(* A library Plex does not know goes by its title, the others by Plex's key. *)
PlexFreshness(a) ==
  LET lib == a["libraries"] IN
  IF ~lib.found THEN {Finding(<<"plex", "title">>, "warn")}
  ELSE If(\/ lib.scanned = 0
          \/ a["dir"] # 0 /\ a["dir"] - lib.scanned > Limits.PlexScanStaleAfter,
          Finding(<<"plex", "key">>, "warn"))

IndexerFailures(a, t) ==
  LET s == a["status"] IN
  IF s.till > t THEN {Finding(<<"indexer">>, "warn")}
  ELSE If(s.failed # 0 /\ t - s.failed <= Limits.IndexerFailureWindow, Finding(<<"indexer">>, "info"))

(* An executable is wrong anywhere, an image of a disc in a TV category. *)
WrongFile(a, failed) ==
  {Finding(<<x>>, "critical") : x \in {y \in Asked(a, Torrents) :
      a[y] = "exe" \/ (a[y] = "iso" /\ a["torrents"][y] = "tv")}}
  \cup If(failed # {}, Finding(<<"inspect-errors">>, "warn"))

StalledErrored(a, t) ==
  UNION {IF x.state = "missingFiles" THEN {Finding(<<"torrent">>, "critical")}
         ELSE If(x.state = "stalledDL" /\ x.added # 0 /\ t - x.added > Limits.QBitStalledAfter,
                 Finding(<<"torrent">>, "warn")) : x \in a["torrents"]}

\* Mutant: a download older than the history that was asked for is still judged by it.
NotImported_NoWindow(a, t) ==
  LET x == a["torrents"] IN
  If(/\ x.done # 0 /\ x.category
     /\ t - x.done > Limits.NotImportedAfter
     /\ \A app \in Asked(a, Apps) : ~a[app],
     Finding(<<"torrent">>, "warn"))

(* a[app] tells whether the app's history, as far back as it was asked for, has an import with the torrent's id. *)
NotImported(a, t) ==
  LET x == a["torrents"] IN
  If(/\ x.done # 0 /\ x.category
     /\ t - x.done > Limits.NotImportedAfter /\ t - x.done <= Limits.ArrHistoryWindow
     /\ \A app \in Asked(a, Apps) : ~a[app],
     Finding(<<"torrent">>, "warn"))

DiskPressure(a) ==
  {Finding(<<p>>, IF a[p] >= Limits.DiskCrit THEN "critical" ELSE "warn") :
     p \in {x \in Asked(a, Paths) : a[x] >= Limits.DiskWarn}}

DirSize(a) == {Finding(<<p>>, "warn") : p \in {x \in Asked(a, Paths) : a[x] >= Limits.DirWarn}}

ImageBloat(a) == If(a["docker"] >= Limits.ImageWarn, Finding(<<"docker">>, "warn"))

StuckProcessing(a, t) ==
  If(\E at \in a["requests"] : at # 0 /\ t - at > Limits.OverseerrStuckAfter, Finding(<<"request">>, "warn"))

(* runStalenessScan: a warning for a candidate, a note for the watch list. *)
StalenessScan(a, t) ==
  UNION {UNION {LET rows == MatchRows(a["history"], m)
                    who == IF "requests" \in DOMAIN a THEN a["requests"] ELSE ""
                    it == IF m = "series" THEN SeriesItem(x, rows, who) ELSE MovieItem(x, rows, who)
                    band == Band(ScoreItem(it, t)) IN
                If(band # "suppressed",
                   Finding(<<m>>, IF band = "candidate" THEN "warn" ELSE "info")) : x \in a[m]} :
         m \in Asked(a, {"series", "movies"})}

PlexReachability(failed) == If(failed # {}, Finding(<<"plex">>, "critical"))

TautulliReachability(failed) == If("ping" \in failed, Finding(<<"tautulli">>, "warn"))

FindingsOf(a, failed, t) ==
  CASE check = "arr_health"                  -> ArrHealth(a, failed)
    [] check = "service_update_available"    -> ServiceUpdates(a)
    [] check = "arr_queue_stuck"             -> QueueStuck(a, t)
    [] check = "arr_wanted_missing_spike"    -> WantedSpike(a)
    [] check = "mount_race"                  -> MountRace(a, failed)
    [] check = "host_mount_health"           -> HostMount(a, failed)
    [] check = "plex_scan_freshness"         -> PlexFreshness(a)
    [] check = "plex_reachability"           -> PlexReachability(failed)
    [] check = "indexer_failures"            -> IndexerFailures(a, t)
    [] check = "wrong_file_type"             -> WrongFile(a, failed)
    [] check = "qbit_stalled_errored"        -> StalledErrored(a, t)
    [] check = "qbit_completed_not_imported" -> NotImported(a, t)
    [] check = "disk_pressure"               -> DiskPressure(a)
    [] check = "dir_size"                    -> DirSize(a)
    [] check = "docker_image_bloat"          -> ImageBloat(a)
    [] check = "overseerr_stuck_processing"  -> StuckProcessing(a, t)
    [] check = "tautulli_reachability"       -> TautulliReachability(failed)
    [] check = "staleness_scan"              -> StalenessScan(a, t)

-----------------------------------------------------------------------------
Idle == [st |-> "idle", i |-> 1, ans |-> << >>, failed |-> {}, since |-> 0]
NoMetrics == << >>
Severities == {"info", "warn", "critical"}
Rank(f) == CASE f.sev = "info" -> 1 [] f.sev = "warn" -> 2 [] f.sev = "critical" -> 3

(* State and bookkeeping have their types. *)
FamilyTypes ==
  /\ check \in Studied /\ config \in Configs(check)
  /\ DOMAIN world = CallsOf(check)
  /\ now \in 1..MaxTime[check]
  /\ current.st \in {"idle", "asking", "broken"} /\ current.i \in 1..Len(Calls[check]) + 1
  /\ DOMAIN current.ans \subseteq config /\ current.failed \subseteq config /\ current.since \in 0..now
  /\ \A f \in open : f.sev \in Severities
  /\ last \in [st : {"none", "skipped", "error", "ran"}, failed : SUBSET CallsOf(check)]
  /\ DOMAIN prev \subseteq Apps
  /\ still \in 0..2 /\ changes \in 0..MaxChanges /\ failures \in 0..MaxFailures

FamilyInit ==
  /\ check \in Studied
  /\ config \in Configs(check)
  /\ \E title \in Titles, requester \in {"", "other"} :
       world = [call \in CallsOf(check) |-> Quiet(check, call, title, requester)]
  /\ now = 1 /\ current = Idle /\ open = {}
  /\ last = [st |-> "none", failed |-> {}] /\ prev = NoMetrics
  /\ still = 0 /\ changes = 0 /\ failures = 0

(* A run begins; a check that is not configured is listed as skipped. *)
StartCheck ==
  /\ current.st = "idle"
  /\ still' = IF still = 2 THEN 2 ELSE still + 1
  /\ IF NotConfigured
     THEN last' = [st |-> "skipped", failed |-> {}] /\ prev' = NoMetrics /\ UNCHANGED current
     ELSE current' = [Idle EXCEPT !.st = "asking", !.since = now] /\ UNCHANGED <<last, prev>>
  /\ UNCHANGED <<check, config, world, now, open, changes, failures>>

NextCall == Calls[check][current.i]
Asking == current.st = "asking" /\ current.i <= Len(Calls[check])

ProbeReadable == "exec" \notin current.failed /\ current.ans["exec"] # "garbled"
IsMounted == current.ans["mountpoint"]
LibraryScanned == current.ans["libraries"].found /\ current.ans["libraries"].scanned # 0
PingAnswered == "ping" \notin current.failed
Listed(torrent) == current.ans["torrents"][torrent] # "absent"

(* The calls a run leaves out: no client, or what it knows already decides. *)
Needed(call) ==
  /\ call \in config
  /\ CASE check = "mount_race" /\ call = "mountpoint"           -> ProbeReadable
       [] check = "host_mount_health" /\ call = "usage"         -> IsMounted
       [] check = "plex_scan_freshness" /\ call = "dir"         -> LibraryScanned
       [] check = "tautulli_reachability" /\ call = "activity"  -> PingAnswered
       [] check = "wrong_file_type" /\ call \in Torrents        -> Listed(call)
       [] OTHER -> TRUE

SkipCall ==
  /\ Asking /\ ~Needed(NextCall)
  /\ current' = [current EXCEPT !.i = @ + 1]
  /\ UNCHANGED <<check, config, world, now, open, last, prev, still, changes, failures>>

(* A torrent that was removed after it was listed has no files to tell of. *)
Gone(call) == check = "wrong_file_type" /\ call \in Torrents /\ world["torrents"][call] = "absent"

(* Tautulli's rows, cut to the length Collect asks for; the newest are kept, and of one moment always the same. *)
Cut(rows) ==
  IF Cardinality(rows) <= Limits.HistoryRows THEN rows
  ELSE CHOOSE S \in SUBSET rows : /\ Cardinality(S) = Limits.HistoryRows
                                  /\ \A r \in S, x \in rows \ S : x.at <= r.at

(* importedDownloadIDs: whether the app's history, which is asked for back from the moment the torrents had been *)
(* listed, has the download; a record without a download id is skipped.                                         *)
Imported(app) ==
  \E r \in world[app] : r.id /\ r.at >= current.since - Limits.ArrHistoryWindow

(* The reply.  A history is asked for from a moment that was fixed before the call. *)
Reply(call) ==
  CASE check = "staleness_scan" /\ call = "history" ->
         Cut({r \in world[call] : r.at >= HistoryWindow(current.since)})
    [] check = "qbit_completed_not_imported" /\ call \in Apps -> Imported(call)
    [] OTHER -> world[call]

Answer ==
  /\ Asking /\ Needed(NextCall) /\ ~Gone(NextCall)
  /\ current' = [current EXCEPT
       !.i = @ + 1,
       !.ans = [x \in DOMAIN @ \cup {NextCall} |-> IF x = NextCall THEN Reply(x) ELSE @[x]],
       !.since = IF NextCall = "torrents" THEN now ELSE @]
  /\ UNCHANGED <<check, config, world, now, open, last, prev, still, changes, failures>>

AppUnreachable == check \in {"arr_health", "service_update_available"}
PlexUnreachable == check = "plex_reachability"
TautulliUnreachable(call) == <<check, call>> = <<"tautulli_reachability", "ping">>
ProbeFailed(call) == <<check, call>> = <<"mount_race", "exec">>
MountUnreadable(call) == <<check, call>> = <<"host_mount_health", "usage">>
NotInspected(call) == check = "wrong_file_type" /\ call \in Torrents

(* Where a failed call is a finding, or is counted, and the run goes on. *)
Tolerated(call) ==
  \/ AppUnreachable \/ PlexUnreachable \/ TautulliUnreachable(call)
  \/ ProbeFailed(call) \/ MountUnreadable(call) \/ NotInspected(call)

Fail ==
  /\ Asking /\ Needed(NextCall)
  /\ IF Gone(NextCall) THEN UNCHANGED failures
     ELSE failures < MaxFailures /\ failures' = failures + 1
  /\ current' = [current EXCEPT !.i = @ + 1, !.failed = @ \cup {NextCall},
                        !.st = IF Tolerated(NextCall) THEN @ ELSE "broken"]
  /\ UNCHANGED <<check, config, world, now, open, last, prev, still, changes>>

(* The report of a run that ended in an error: the store resolves nothing and the *)
(* report has no metrics of the check.                                             *)
EndInError ==
  /\ \/ current.st = "broken"
     \/ /\ current.st = "asking" /\ current.i > Len(Calls[check])
        /\ check = "service_update_available" /\ current.failed # {}
  /\ last' = [st |-> "error", failed |-> current.failed]
  /\ prev' = NoMetrics /\ current' = Idle
  /\ UNCHANGED <<check, config, world, now, open, still, changes, failures>>

(* The report of a run that went through: what it did not emit is resolved. *)
EndRan ==
  /\ current.st = "asking" /\ current.i > Len(Calls[check])
  /\ check = "service_update_available" => current.failed = {}
  /\ open' = FindingsOf(current.ans, current.failed, now)
  /\ last' = [st |-> "ran", failed |-> current.failed]
  /\ prev' = IF check = "arr_wanted_missing_spike" THEN current.ans ELSE NoMetrics
  /\ current' = Idle
  /\ UNCHANGED <<check, config, world, now, still, changes, failures>>

(* A cycle of another cadence saves a report between two runs of this check. *)
OtherCycle ==
  /\ current.st = "idle" /\ prev # NoMetrics
  /\ prev' = NoMetrics
  /\ UNCHANGED <<check, config, world, now, current, open, last, still, changes, failures>>

(* A service moves on. *)
Change(call) ==
  /\ changes < MaxChanges
  /\ \E a \in Answers(check, call, now) :
       a # world[call] /\ world' = [world EXCEPT ![call] = a]
  /\ still' = 0 /\ changes' = changes + 1
  /\ UNCHANGED <<check, config, now, current, open, last, prev, failures>>

Tick ==
  /\ now < MaxTime[check]
  /\ now' = now + 1
  /\ UNCHANGED <<check, config, world, current, open, last, prev, still, changes, failures>>

FamilyNext ==
  \/ StartCheck
  \/ SkipCall
  \/ Answer
  \/ Fail
  \/ EndInError
  \/ EndRan
  \/ OtherCycle
  \/ \E call \in config : Change(call)
  \/ Tick

FamilySpec == FamilyInit /\ [][FamilyNext]_familyVars

-----------------------------------------------------------------------------
(* The key under which a finding stands for a call that failed. *)
StandIn(call) ==
  CASE check = "arr_health" -> <<call>>
    [] check \in {"mount_race", "host_mount_health"} -> <<"mount">>
    [] check = "plex_reachability" -> <<"plex">>
    [] check = "tautulli_reachability" -> <<"tautulli">>
    [] OTHER -> <<"inspect-errors">>

(* An outage is told, never taken for health: after a run in which a call failed, the *)
(* check is among the report's errors or a warning stands for what could not be asked. *)
OutageTold ==
  last.st # "error" => \A call \in last.failed :
    \E f \in open : f.key = StandIn(call) /\ Rank(f) >= 2

(* Findings that are about a moment and fade with it, or against a passing baseline. *)
Fading == {"indexer_failures", "qbit_completed_not_imported", "arr_wanted_missing_spike"}

(* Every watch of the title is young enough for Tautulli to be asked for it. *)
WatchesInWindow ==
  check = "staleness_scan" => \A r \in world["history"] : now - r.at <= 2 * Horizon

(* Time alone heals nothing: when no service changed since the previous run began and every *)
(* call of both was answered, a second run neither resolves nor plays down a finding of the *)
(* first.  It covers ages counted from a fixed moment, and the staleness score of a title   *)
(* nobody touches while its watches are within the two horizons historyWindow looks back.   *)
TimeNeverHeals ==
  [][(EndRan /\ last.st = "ran" /\ still = 2 /\ check \notin Fading
        /\ last.failed = {} /\ current.failed = {} /\ WatchesInWindow)
     => \A f \in open : \E g \in open' : g.key = f.key /\ Rank(g) >= Rank(f)]_familyVars

(* A download that was imported under its id is not reported as not imported: while the      *)
(* services stand still during the run, a finding means that no configured app has imported   *)
(* the torrent under its id since it was completed, whether or not somebody imported it by    *)
(* hand, which the check cannot tell and reports.  The history is asked for over the window    *)
(* that also limits the ages judged, from an earlier moment (importedDownloadIDs,              *)
(* notImportedFinding).                                                                       *)
FlaggedIsUnimported ==
  [][(EndRan /\ check = "qbit_completed_not_imported" /\ still > 0 /\ open' # {})
     => \A app \in config \cap Apps :
          \A r \in world[app] : r.id => r.at < world["torrents"].done]_familyVars

=============================================================================
