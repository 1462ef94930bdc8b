------------------------------ MODULE Staleness ------------------------------
(***************************************************************************)
(* The staleness score of a title (ADR-016): what Collect joins from        *)
(* Sonarr or Radarr, Tautulli and Overseerr, and the six components that    *)
(* ScoreItem adds up.  A moment is a natural number, 0 the zero time.Time;  *)
(* a moment is as many days as the weights say, and sizes are in gigabytes. *)
(***************************************************************************)
EXTENDS Integers

CONSTANTS
  Weights,  \* config.Staleness: a record of points, horizons and thresholds
  Owner     \* Staleness.Owner

ASSUME WeightsAssumption ==
  /\ \A f \in {"DaysMaxPoints", "SizePerGB", "SizeMaxPoints", "AgePerMoment", "AgeMaxPoints"} :
       Weights[f] \in Nat
  /\ \A f \in {"DaysHorizon", "NeverWatchedAfter", "WatchedFullPoints", "WatchedPartialPoints",
               "EndedPoints", "ContinuingPoints", "OwnerPoints", "OtherPoints",
               "CandidateThreshold", "WatchlistThreshold"} :
       Weights[f] \in Int

Requesters == {"", Owner, "other"}

AtMost(v, hi) == IF v > hi THEN hi ELSE v
Clamp(v, lo, hi) == IF v < lo THEN lo ELSE AtMost(v, hi)

Horizon == IF Weights.DaysHorizon <= 0 THEN 1 ELSE Weights.DaysHorizon

\* Mutant: Tautulli is asked for one horizon instead of two.
HistoryWindow_Once(t) == t - Horizon

(* historyWindow: the earliest watch Collect asks Tautulli for. *)
HistoryWindow(t) == t - 2 * Horizon

(* matchRows: the rows of one title, told apart from a namesake by the media type. *)
MatchRows(rows, media) == {r \in rows : r.media = media}

(* watchSummary and seriesItem: the app's title with what the other services know of it. *)
SeriesItem(title, rows, requester) ==
  [ended |-> title.ended, monitored |-> title.monitored, size |-> title.size, added |-> title.added,
   lastWatched |-> IF rows = {} THEN 0
                   ELSE CHOOSE x \in {r.at : r \in rows} : \A r \in rows : r.at <= x,
   full |-> \E r \in rows : r.full,
   partial |-> rows # {} /\ \A r \in rows : ~r.full,
   requestedBy |-> requester]

(* movieItem: Radarr has no ended status, a movie nobody monitors counts as ended. *)
MovieItem(title, rows, requester) ==
  [SeriesItem(title, rows, requester) EXCEPT !.ended = ~title.monitored]

NeverWatchedScore(it, t) ==
  IF Weights.NeverWatchedAfter > 0 /\ it.added # 0 /\ t - it.added > Weights.NeverWatchedAfter
  THEN Weights.DaysMaxPoints ELSE 0

DaysScore(it, t) ==
  IF it.lastWatched = 0 THEN NeverWatchedScore(it, t)
  ELSE (Clamp(t - it.lastWatched, 0, Horizon) * Weights.DaysMaxPoints) \div Horizon

CompletionScore(it) ==
  IF it.full THEN Weights.WatchedFullPoints
  ELSE IF it.partial THEN Weights.WatchedPartialPoints ELSE 0

ArrScore(it) ==
  IF it.ended THEN Weights.EndedPoints
  ELSE IF it.monitored THEN Weights.ContinuingPoints ELSE 0

SizeScore(it) == Clamp(it.size * Weights.SizePerGB, 0, Weights.SizeMaxPoints)

RequesterScore(it) ==
  IF it.requestedBy = "" THEN 0
  ELSE IF it.requestedBy = Owner THEN Weights.OwnerPoints
  ELSE IF it.full \/ it.partial THEN 0 ELSE Weights.OtherPoints

AgeScore(it, t) ==
  IF it.added = 0 THEN 0
  ELSE Clamp((t - it.added) * Weights.AgePerMoment, 0, Weights.AgeMaxPoints)

ScoreItem(it, t) ==
  Clamp(DaysScore(it, t) + CompletionScore(it) + ArrScore(it) + SizeScore(it)
          + RequesterScore(it) + AgeScore(it, t), 0, 100)

Band(total) ==
  IF total >= Weights.CandidateThreshold THEN "candidate"
  ELSE IF total >= Weights.WatchlistThreshold THEN "watchlist" ELSE "suppressed"

=============================================================================
